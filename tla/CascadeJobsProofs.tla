-------------------------- MODULE CascadeJobsProofs --------------------------
(***************************************************************************)
(* Proofs about CascadeJobs for any jobs, slots, results, chunk size and   *)
(* limit of attempts.  The store's part of a step is a RowStep of every    *)
(* row (AssetStoreProofs), and removes a row only by counting a deletion;  *)
(* the queue's part moves at most one job, by what River does with it.     *)
(* What an attempt has written so far follows it through persist.          *)
(***************************************************************************)
EXTENDS CascadeJobs, AssetStoreProofs

\* Rows disappear only with a deletion, and deletions are never forgotten.
Monotone ==
    \A a \in Asset :
        \/ deletions'[a] > 0
        \/ deletions'[a] = deletions[a] /\ (rows[a] # Null => rows'[a] # Null)

StoreOK == TypeOK' /\ StepOK /\ Monotone

-----------------------------------------------------------------------------
(* The statements of a job. *)

\* A row that upsertChunk changes is upserted by one of the items for it.
LEMMA ChunkRow ==
    ASSUME TypeOK, NEW chunk \in Seq(Item), NEW p \in Parent, upsertChunk(chunk, p),
           NEW a \in Asset
    PROVE  \/ Writers(chunk, a) = {} /\ rows'[a] = rows[a]
           \/ \E i \in Writers(chunk, a) :
                 /\ i \in DOMAIN chunk /\ chunk[i] \in Item /\ chunk[i].asset = a
                 /\ chunk[i].attrs \in Attrs /\ ParentOf(chunk[i], p) \in Parent
                 /\ rows'[a] = Upserted(rows[a], chunk[i].attrs, ParentOf(chunk[i], p))
<1>1. rows'[a] = IF Writers(chunk, a) = {} THEN rows[a]
                 ELSE LET item == chunk[CHOOSE i \in Writers(chunk, a) : TRUE]
                      IN  Upserted(rows[a], item.attrs, ParentOf(item, p))
  BY DEF upsertChunk, Write
<1>2. CASE Writers(chunk, a) # {}
  <2> DEFINE i == CHOOSE i \in Writers(chunk, a) : TRUE
  <2>1. i \in Writers(chunk, a)
    BY <1>2
  <2>2. i \in DOMAIN chunk /\ chunk[i].asset = a
    BY <2>1 DEF Writers
  <2>3. chunk[i] \in Item
    BY <2>2, ElementOfSeq, LenProperties
  <2>4. chunk[i].attrs \in Attrs /\ ParentOf(chunk[i], p) \in Parent
    BY <2>3 DEF Item, ParentOf, Parent
  <2>5. rows'[a] = Upserted(rows[a], chunk[i].attrs, ParentOf(chunk[i], p))
    BY <1>1, <1>2
  <2> HIDE DEF i
  <2> QED
    BY <2>1, <2>2, <2>3, <2>4, <2>5
<1> QED
  BY <1>1, <1>2

\* upsertChunk removes nothing.
LEMMA ChunkMonotone ==
    ASSUME TypeOK, NEW chunk \in Seq(Item), NEW p \in Parent, upsertChunk(chunk, p)
    PROVE  StoreOK
<1>1. deletions' = deletions
  BY DEF upsertChunk, Write
<1>2. ASSUME NEW a \in Asset, rows[a] # Null
      PROVE  rows'[a] # Null
  BY <1>2, ChunkRow, UpsertedType, NullIsNoRow DEF TypeOK
<1> QED
  BY <1>1, <1>2, upsertChunkStep DEF StoreOK, Monotone

\* MergeUpdate removes nothing.
LEMMA MergeMonotone ==
    ASSUME TypeOK, NEW id \in Id, NEW x \in Attrs, MergeUpdate(id, x)
    PROVE  StoreOK
<1>1. CASE UNCHANGED storeVars
  BY <1>1, MergeUpdateStep DEF storeVars, StoreOK, Monotone
<1>2. CASE Write([rows EXCEPT ![id[1]] = Merged(@, x)]) /\ HasId(id)
  <2>1. id[1] \in Asset /\ rows[id[1]] \in Row
    BY <1>2 DEF HasId, Id, TypeOK
  <2>2. Merged(rows[id[1]], x) # Null
    BY <2>1, MergedType, NullIsNoRow
  <2>3. deletions' = deletions /\ rows' = [rows EXCEPT ![id[1]] = Merged(@, x)]
    BY <1>2 DEF Write
  <2> QED
    BY <2>1, <2>2, <2>3, MergeUpdateStep DEF StoreOK, Monotone, TypeOK
<1> QED
  BY <1>1, <1>2 DEF MergeUpdate

\* A deletion counts itself, and a row that ages stays.
LEMMA OperatorMonotone ==
    ASSUME TypeOK, NEW a \in Asset, Delete(a) \/ Age(a)
    PROVE  StoreOK
<1>1. TypeOK' /\ StepOK
  BY EnvironmentStep DEF Environment
<1>2. CASE Delete(a)
  BY <1>1, <1>2, ConstantsOK DEF Delete, StoreOK, Monotone, TypeOK
<1>3. CASE Age(a)
  <2>1. rows[a] \in Row
    BY <1>3 DEF Age, TypeOK
  <2>2. [rows[a] EXCEPT !.stale = TRUE] # Null
    BY <2>1, NullIsNoRow DEF Row
  <2>3. deletions' = deletions /\ rows' = [rows EXCEPT ![a] = [rows[a] EXCEPT !.stale = TRUE]]
    BY <1>3 DEF Age
  <2> QED
    BY <1>1, <2>2, <2>3 DEF StoreOK, Monotone, TypeOK
<1> QED
  BY <1>2, <1>3

\* A step that leaves the rows alone, though the cascade may read its events.
LEMMA IdleMonotone ==
    ASSUME TypeOK, UNCHANGED <<rows, deletions>>, feed' \subseteq feed
    PROVE  StoreOK
BY DEF TypeOK, StoreOK, StepOK, Monotone, RowStep, Untouched, Heard

-----------------------------------------------------------------------------
(* What a job has written stays written. *)

\* Attributes once held are held, or the asset was deleted.
LEMMA HoldsKept ==
    ASSUME TypeOK, StoreOK, NEW a \in Asset, NEW x \in Attrs, Holds(a, x)
    PROVE  Holds(a, x)'
<1>1. CASE deletions'[a] > 0
  BY <1>1 DEF Holds
<1>2. CASE ~(deletions'[a] > 0)
  <2>1. deletions'[a] = deletions[a] /\ (rows[a] # Null => rows'[a] # Null)
    BY <1>2 DEF StoreOK, Monotone
  <2>2. rows[a] # Null /\ \A k \in Key : x[k] # Null => rows[a].attrs[k] # Null
    BY <1>2, <2>1 DEF Holds
  <2>3. rows[a] \in Row /\ RowStep(rows[a], rows'[a]) /\ rows'[a] # Null
    BY <2>1, <2>2 DEF TypeOK, StoreOK, StepOK
  <2>4. \A k \in Key : rows[a].attrs[k] # Null => rows'[a].attrs[k] # Null
    BY <2>3, RowStepKeeps
  <2> QED
    BY <2>2, <2>3, <2>4 DEF Holds
<1> QED
  BY <1>1, <1>2

\* A complete result stays complete.
LEMMA EffectiveKept ==
    ASSUME TypeOK, StoreOK, NEW j \in Job, Effective(j)
    PROVE  Effective(j)'
<1>1. Target[j] \in Asset
  BY JobsOK
<1>2. CASE deletions[Target[j]] > 0
  BY <1>1, <1>2 DEF StoreOK, Monotone, Effective
<1>3. ASSUME NEW r \in Results[j], Visible(j, r)
      PROVE  Visible(j, r)'
  <2>1. r \in Result
    BY JobsOK
  <2>2. r.update \in Attrs /\ r.children \in Seq(Item)
    BY <2>1 DEF Result
  <2>3. Holds(Target[j], r.update)'
    BY <1>1, <1>3, <2>2, HoldsKept DEF Visible
  <2>4. ASSUME NEW i \in DOMAIN r.children
        PROVE  r.children[i].asset # Null /\ Holds(r.children[i].asset, r.children[i].attrs)'
    <3>1. r.children[i] \in Item
      BY <2>2, ElementOfSeq, LenProperties
    <3>2. r.children[i].asset # Null /\ Holds(r.children[i].asset, r.children[i].attrs)
      BY <1>3 DEF Visible
    <3> QED
      BY <3>1, <3>2, HoldsKept DEF Item
  <2> QED
    BY <2>3, <2>4 DEF Visible
<1> QED
  BY <1>2, <1>3 DEF Effective

\* A row that is there has the keys of every payload its fingerprint stands
\* for, so the item that an upsert skips is in the table all the same.
LEMMA SkippedIsHeld ==
    ASSUME NEW r \in Row, NEW x \in Attrs, Covers(r), ~Affects(r, x)
    PROVE  \A k \in Key : x[k] # Null => r.attrs[k] # Null
<1>1. r.fingerprint = fingerprintAttrs(x)
  BY DEF Affects
<1>2. ASSUME NEW k \in Key, x[k] # Null
      PROVE  r.attrs[k] # Null
  <2>1. Canon[x[k]] # Null
    BY <1>2, ConstantsOK DEF Attrs
  <2>2. CanonAttrs(r.attrs)[k] = Canon[x[k]]
    BY <1>1, <1>2, <2>1 DEF Covers, fingerprintAttrs, CanonAttrs
  <2> QED
    BY <2>1, <2>2 DEF CanonAttrs
<1> QED
  BY <1>2

\* After upsertChunk every item of the chunk is in the table, the skipped ones
\* and the ones it shares an asset with included.
LEMMA ChunkIsHeld ==
    ASSUME TypeOK, FingerprintCoversAttrs, NEW chunk \in Seq(Item), NEW p \in Parent,
           upsertChunk(chunk, p), NEW i \in DOMAIN chunk
    PROVE  chunk[i].asset # Null /\ Holds(chunk[i].asset, chunk[i].attrs)'
<1> DEFINE a == chunk[i].asset
           x == chunk[i].attrs
<1>1. chunk[i] \in Item /\ a # Null
  BY ElementOfSeq, LenProperties DEF upsertChunk, ChunkIsValid
<1>2. a \in Asset /\ x \in Attrs
  BY <1>1 DEF Item
<1>3. rows[a] \in Row \cup {Null}
  BY <1>2 DEF TypeOK
<1>4. ASSUME ~Affects(rows[a], x)
      PROVE  rows[a] \in Row /\ \A k \in Key : x[k] # Null => rows[a].attrs[k] # Null
  <2>1. rows[a] # Null
    BY <1>4 DEF Affects
  <2>2. rows[a] \in Row /\ Covers(rows[a])
    BY <1>2, <1>3, <2>1 DEF FingerprintCoversAttrs, Covers
  <2> QED
    BY <1>2, <1>4, <2>2, SkippedIsHeld
<1>5. CASE Writers(chunk, a) = {}
  <2>1. ~Affects(rows[a], x) /\ rows'[a] = rows[a]
    BY <1>2, <1>5, ChunkRow DEF Writers
  <2> QED
    BY <1>1, <1>4, <2>1, NullIsNoRow DEF Holds
<1>6. CASE Writers(chunk, a) # {}
  <2>1. PICK m \in Writers(chunk, a) :
                 /\ m \in DOMAIN chunk /\ chunk[m] \in Item /\ chunk[m].asset = a
                 /\ chunk[m].attrs \in Attrs /\ ParentOf(chunk[m], p) \in Parent
                 /\ rows'[a] = Upserted(rows[a], chunk[m].attrs, ParentOf(chunk[m], p))
    BY <1>2, <1>6, ChunkRow
  <2>2. rows'[a] \in Row /\ rows'[a] # Null
    BY <1>3, <2>1, UpsertedType, NullIsNoRow
  <2>3. CASE m = i
    <3>1. rows'[a].attrs = x \/ (rows[a] \in Row /\ rows'[a].attrs = Merge(rows[a].attrs, x))
      BY <1>3, <2>1, <2>3 DEF Upserted, Row
    <3>2. \A k \in Key : x[k] # Null => rows'[a].attrs[k] # Null
      BY <3>1 DEF Merge
    <3> QED
      BY <1>1, <2>2, <3>2 DEF Holds
  <2>4. CASE m # i
    <3>1. i \notin Writers(chunk, a)
      <4>1. DOMAIN chunk \subseteq Int
        BY LenProperties
      <4>2. i < m \/ m < i
        BY <2>1, <2>4, <4>1
      <4>3. ~ChunkClashes(chunk)
        BY DEF upsertChunk
      <4> QED
        BY <2>1, <4>2, <4>3 DEF ChunkClashes
    <3>2. ~Affects(rows[a], x)
      BY <3>1 DEF Writers
    <3>3. rows[a] \in Row /\ \A k \in Key : x[k] # Null => rows[a].attrs[k] # Null
      BY <1>4, <3>2
    <3>4. rows'[a].attrs = Merge(rows[a].attrs, chunk[m].attrs)
      BY <2>1, <3>3, NullIsNoRow DEF Upserted, Row
    <3>5. \A k \in Key : x[k] # Null => rows'[a].attrs[k] # Null
      BY <3>3, <3>4 DEF Merge
    <3> QED
      BY <1>1, <2>2, <3>5 DEF Holds
  <2> QED
    BY <2>3, <2>4
<1> QED
  BY <1>5, <1>6

-----------------------------------------------------------------------------
(* The queue. *)

Verdict == {"ack", "cancel", "nack"}

\* What River does with the row of a job: q before, s after.
Moves(q, s) ==
    \/ s = q
    \/ q.state = "retryable" /\ s = [q EXCEPT !.state = "available"]
    \/ q.state = "available" /\ s = [q EXCEPT !.state = "running", !.attempt = @ + 1]
    \/ q.state = "running" /\ \E v \in Verdict : s = Settled(q, v)

\* A job that waits has attempts left.
Waits(q) == q.state \in {"available", "retryable"} => q.attempt < MaxAttempts

\* The cascade inserts j for the row its asset has now.
Inserts(j, q, s) ==
    /\ q.state = "none" /\ rows[Target[j]] # Null
    /\ s = [state |-> "available", attempt |-> 0, id |-> IdOf(Target[j])]

QueueOK ==
    /\ queue' \in [Job -> QueueRow]
    /\ \A j \in Job : Moves(queue[j], queue'[j]) \/ Inserts(j, queue[j], queue'[j])

\* At most one job is settled for good by a step, as done only if its result is
\* there, and then the step writes nothing.
Delivers ==
    \/ \A j \in Job : Status(queue'[j]) = Status(queue[j])
    \/ \E j \in Job :
          /\ \A i \in Job \ {j} : queue'[i] = queue[i]
          /\ queue[j].state = "running"
          /\ \/ Status(queue'[j]) = "dead"
             \/ Status(queue'[j]) = "done" /\ Effective(j) /\ UNCHANGED <<rows, deletions>>

\* River keeps rows of the queue well typed, and lets none be claimed too often.
LEMMA MovesType ==
    ASSUME NEW q \in QueueRow, Waits(q), NEW s, Moves(q, s)
    PROVE  /\ s \in QueueRow /\ Waits(s) /\ s.id = q.id
           /\ s.state = "none" <=> q.state = "none"
<1>1. CASE s = q
  BY <1>1
<1>2. CASE q.state = "retryable" /\ s = [q EXCEPT !.state = "available"]
  BY <1>2 DEF QueueRow, Waits
<1>3. CASE q.state = "available" /\ s = [q EXCEPT !.state = "running", !.attempt = @ + 1]
  <2>1. q.attempt \in Nat /\ q.attempt + 1 \in 0..MaxAttempts
    BY <1>3, JobsOK DEF QueueRow, Waits
  <2>2. s = [q EXCEPT !.state = "running", !.attempt = q.attempt + 1]
    BY <1>3
  <2> QED
    BY <1>3, <2>1, <2>2 DEF QueueRow, Waits
<1>4. ASSUME q.state = "running", NEW v \in Verdict, s = Settled(q, v)
      PROVE  /\ s \in QueueRow /\ Waits(s) /\ s.id = q.id
             /\ s.state # "none"
  <2>1. CASE v = "ack"
    BY <1>4, <2>1 DEF Settled, QueueRow, Waits, Terminal
  <2>2. CASE v = "cancel"
    BY <1>4, <2>2 DEF Settled, QueueRow, Waits, Terminal
  <2>3. CASE v = "nack"
    BY <1>4, <2>3, JobsOK DEF Settled, Retried, QueueRow, Waits, Terminal
  <2> QED
    BY <2>1, <2>2, <2>3 DEF Verdict
<1> QED
  BY <1>1, <1>2, <1>3, <1>4 DEF Moves

\* What the verdict of an attempt makes of a running job.
LEMMA SettledStatus ==
    ASSUME NEW q \in QueueRow, q.state = "running", NEW v \in Verdict
    PROVE  /\ Status(q) = "open"
           /\ \/ Status(Settled(q, v)) \in {"open", "dead"}
              \/ v = "ack" /\ Status(Settled(q, v)) = "done"
<1>1. CASE v = "ack"
  BY <1>1 DEF Settled, QueueRow, Status
<1>2. CASE v = "cancel"
  BY <1>2 DEF Settled, QueueRow, Status
<1>3. CASE v = "nack"
  BY <1>3 DEF Settled, Retried, QueueRow, Status
<1> QED
  BY <1>1, <1>2, <1>3 DEF Verdict

\* A step that leaves the queue alone.
LEMMA QueueIdle ==
    ASSUME queue \in [Job -> QueueRow], UNCHANGED queue
    PROVE  QueueOK /\ Delivers
BY DEF QueueOK, Delivers, Moves

\* A step that gives one running job the outcome of an attempt.
LEMMA QueueSettles ==
    ASSUME queue \in [Job -> QueueRow], \A i \in Job : Waits(queue[i]),
           NEW j \in Job, NEW v \in Verdict, queue[j].state = "running",
           queue' = [queue EXCEPT ![j] = Settled(@, v)],
           v = "ack" => Effective(j) /\ UNCHANGED <<rows, deletions>>
    PROVE  QueueOK /\ Delivers
<1>1. queue'[j] = Settled(queue[j], v) /\ \A i \in Job \ {j} : queue'[i] = queue[i]
  OBVIOUS
<1>2. \A i \in Job : Moves(queue[i], queue'[i])
  BY <1>1 DEF Moves
<1>3. queue' \in [Job -> QueueRow]
  <2>1. Settled(queue[j], v) \in QueueRow
    BY <1>1, <1>2, MovesType
  <2> QED
    BY <2>1
<1>4. Delivers
  <2>1. /\ Status(queue[j]) = "open"
        /\ \/ Status(queue'[j]) \in {"open", "dead"}
           \/ v = "ack" /\ Status(queue'[j]) = "done"
    BY <1>1, SettledStatus
  <2> QED
    BY <1>1, <2>1 DEF Delivers
<1> QED
  BY <1>2, <1>3, <1>4 DEF QueueOK

\* Work returns to River, which takes the verdict or ignores a late one.
LEMMA Returns ==
    ASSUME JobsTypeOK, \A i \in Job : Waits(queue[i]), NEW w \in Slot, slot[w] # Null,
           NEW v \in Verdict, Return(w, v),
           v = "ack" => Effective(slot[w].job) /\ UNCHANGED <<rows, deletions>>
    PROVE  /\ QueueOK /\ Delivers
           /\ slot' \in [Slot -> Attempt \cup {Null}]
           /\ \A u \in Slot : slot'[u] # Null => slot'[u] = slot[u]
<1> DEFINE j == slot[w].job
<1>1. j \in Job
  BY DEF JobsTypeOK, Attempt
<1>2. slot' = [slot EXCEPT ![w] = Null]
  BY DEF Return
<1>3. /\ slot' \in [Slot -> Attempt \cup {Null}]
      /\ \A u \in Slot : slot'[u] # Null => slot'[u] = slot[u]
  BY <1>2 DEF JobsTypeOK
<1>4. CASE queue[j].state = "running"
  <2>1. queue' = [queue EXCEPT ![j] = Settled(@, v)]
    BY <1>4 DEF Return
  <2> HIDE DEF j
  <2> QED
    BY <1>1, <1>3, <1>4, <2>1, QueueSettles DEF JobsTypeOK, j
<1>5. CASE queue[j].state # "running"
  <2>1. UNCHANGED queue
    BY <1>5 DEF Return
  <2> QED
    BY <1>3, <2>1, QueueIdle DEF JobsTypeOK
<1> QED
  BY <1>4, <1>5

-----------------------------------------------------------------------------
(* The inductive invariant. *)

AttemptsLeft == \A j \in Job : Waits(queue[j])

\* The asset of an inserted job has the row the job was inserted for, or was
\* deleted since.
TargetKnown ==
    \A j \in Job : queue[j].state # "none" =>
        /\ queue[j].id[1] = Target[j]
        /\ HasId(queue[j].id) \/ deletions[Target[j]] > 0

\* The attempt of slot w has merged its update and written the children before
\* next.
Written(w) ==
    LET t == slot[w] IN
    /\ Holds(Target[t.job], t.res.update)
    /\ \A i \in DOMAIN t.res.children :
          i < t.next => /\ t.res.children[i].asset # Null
                        /\ Holds(t.res.children[i].asset, t.res.children[i].attrs)

AttemptOK(w) ==
    /\ queue[slot[w].job].state # "none"
    /\ slot[w].pc \in {"merge", "chunk"} => slot[w].res \in Results[slot[w].job]
    /\ IF slot[w].pc = "chunk" THEN Written(w) ELSE slot[w].next = 1

AttemptsSound == \A w \in Slot : slot[w] # Null => AttemptOK(w)

JobsInv ==
    /\ JobsTypeOK /\ FingerprintCoversAttrs
    /\ AttemptsLeft /\ TargetKnown /\ AttemptsSound
    /\ CompletedIsVisible /\ FeedbackFollowsResult

\* What a step does to the slots, given that it leaves the others alone.
SlotsOK ==
    /\ slot' \in [Slot -> Attempt \cup {Null}]
    /\ \A w \in Slot : slot'[w] # Null => slot'[w] = slot[w] \/ AttemptOK(w)'

FedOK == fed' \in SUBSET Job /\ \A j \in fed' : j \in fed \/ Effective(j)'

\* A row that a step inserts is a child of a result whose update is written.
Attached ==
    \A a \in Asset : rows[a] = Null /\ rows'[a] # Null =>
        \E j \in Job : \E r \in Results[j] :
            /\ \E i \in DOMAIN r.children : r.children[i].asset = a
            /\ Holds(Target[j], r.update)

JobsStep == StoreOK /\ QueueOK /\ Delivers /\ SlotsOK /\ FedOK /\ Attached

\* A step that inserts no row.
LEMMA NothingAttached ==
    ASSUME \A a \in Asset : rows[a] = Null => rows'[a] = Null
    PROVE  Attached
BY DEF Attached

\* A step of the queue and the slots alone.
LEMMA StoreIdle ==
    ASSUME TypeOK, UNCHANGED <<rows, deletions, feed>>
    PROVE  StoreOK /\ Attached
BY IdleMonotone, NothingAttached

\* The other attempts keep what they have written.
LEMMA AttemptKept ==
    ASSUME JobsInv, StoreOK, QueueOK, NEW w \in Slot, slot[w] # Null, slot'[w] = slot[w]
    PROVE  AttemptOK(w)'
<1> DEFINE t == slot[w]
<1>1. AttemptOK(w) /\ t \in Attempt /\ t.job \in Job
  BY DEF JobsInv, AttemptsSound, JobsTypeOK, Attempt
<1>2. queue'[t.job].state # "none"
  <2>1. queue[t.job] \in QueueRow /\ Waits(queue[t.job]) /\ queue[t.job].state # "none"
    BY <1>1 DEF JobsInv, JobsTypeOK, AttemptsLeft, AttemptOK
  <2>2. Moves(queue[t.job], queue'[t.job])
    BY <1>1, <2>1 DEF QueueOK, Inserts
  <2> QED
    BY <2>1, <2>2, MovesType
<1>3. ASSUME t.pc = "chunk"
      PROVE  Written(w)'
  <2>1. t.res \in Results[t.job] /\ Written(w)
    BY <1>1, <1>3 DEF AttemptOK
  <2>2. t.res.update \in Attrs /\ t.res.children \in Seq(Item) /\ Target[t.job] \in Asset
    BY <1>1, <2>1, JobsOK DEF Result
  <2>3. TypeOK
    BY DEF JobsInv, JobsTypeOK
  <2>4. Holds(Target[t.job], t.res.update)'
    BY <2>1, <2>2, <2>3, HoldsKept DEF Written
  <2>5. ASSUME NEW i \in DOMAIN t.res.children, i < t.next
        PROVE  /\ t.res.children[i].asset # Null
               /\ Holds(t.res.children[i].asset, t.res.children[i].attrs)'
    <3>1. t.res.children[i] \in Item
      BY <2>2, ElementOfSeq, LenProperties
    <3>2. t.res.children[i].asset # Null /\ Holds(t.res.children[i].asset, t.res.children[i].attrs)
      BY <2>1, <2>5 DEF Written
    <3> QED
      BY <2>3, <3>1, <3>2, HoldsKept DEF Item
  <2> QED
    BY <2>4, <2>5 DEF Written
<1> QED
  BY <1>1, <1>2, <1>3 DEF AttemptOK

\* JobsStep is all that the invariant needs of a step.
LEMMA JobsStepInv ==
    ASSUME JobsInv, JobsStep
    PROVE  JobsInv'
<1>1. TypeOK /\ FingerprintCoversAttrs /\ queue \in [Job -> QueueRow]
  BY DEF JobsInv, JobsTypeOK
<1>2. JobsTypeOK'
  BY DEF JobsStep, StoreOK, QueueOK, SlotsOK, FedOK, JobsTypeOK
<1>3. FingerprintCoversAttrs'
  BY <1>1, StepCovers DEF JobsStep, StoreOK
<1>4. ASSUME NEW j \in Job
      PROVE  Waits(queue'[j])
  <2>1. CASE Moves(queue[j], queue'[j])
    BY <1>1, <2>1, MovesType DEF JobsInv, AttemptsLeft
  <2>2. CASE Inserts(j, queue[j], queue'[j])
    BY <2>2, JobsOK DEF Inserts, Waits
  <2> QED
    BY <2>1, <2>2 DEF JobsStep, QueueOK
<1>5. ASSUME NEW j \in Job, queue'[j].state # "none"
      PROVE  /\ queue'[j].id[1] = Target[j]
             /\ HasId(queue[j].id)' \/ deletions'[Target[j]] > 0
  <2> DEFINE a == Target[j]
  <2>0. a \in Asset
    BY JobsOK
  <2>1. CASE Moves(queue[j], queue'[j])
    <3>1. queue[j].state # "none" /\ queue'[j].id = queue[j].id
      BY <1>1, <1>5, <2>1, MovesType DEF JobsInv, AttemptsLeft
    <3>2. queue[j].id[1] = a /\ (HasId(queue[j].id) \/ deletions[a] > 0)
      BY <3>1 DEF JobsInv, TargetKnown
    <3> QED
      BY <2>0, <3>1, <3>2 DEF JobsStep, StoreOK, Monotone, HasId, IdOf
  <2>2. CASE Inserts(j, queue[j], queue'[j])
    BY <2>0, <2>2 DEF Inserts, IdOf, HasId, JobsStep, StoreOK, Monotone
  <2> QED
    BY <2>1, <2>2 DEF JobsStep, QueueOK
<1>6. ASSUME NEW w \in Slot, slot'[w] # Null
      PROVE  AttemptOK(w)'
  BY <1>6, AttemptKept DEF JobsStep, SlotsOK
<1>7. ASSUME NEW j \in Job, Effective(j)
      PROVE  Effective(j)'
  BY <1>1, <1>7, EffectiveKept DEF JobsStep
<1>8. ASSUME NEW j \in Job, queue'[j].state = "completed"
      PROVE  Effective(j)
  <2>1. Status(queue'[j]) = "done"
    BY <1>8 DEF Status
  <2>2. CASE Status(queue[j]) = "done"
    BY <2>2 DEF Status, JobsInv, CompletedIsVisible
  <2>3. CASE Status(queue[j]) # "done"
    BY <2>1, <2>3 DEF JobsStep, Delivers
  <2> QED
    BY <2>2, <2>3
<1>9. CompletedIsVisible'
  BY <1>7, <1>8 DEF CompletedIsVisible
<1>10. FeedbackFollowsResult'
  BY <1>7 DEF JobsStep, FedOK, JobsInv, FeedbackFollowsResult, JobsTypeOK
<1> QED
  BY <1>2, <1>3, <1>4, <1>5, <1>6, <1>9, <1>10
     DEF JobsInv, AttemptsLeft, TargetKnown, AttemptsSound

-----------------------------------------------------------------------------
(* River's steps, the cascade's and the operator's. *)

\* The cascade inserts jobs that were not there.
LEMMA CascadeStep ==
    ASSUME JobsInv, NEW a \in Asset, Cascade(a)
    PROVE  JobsStep
<1>1. TypeOK /\ queue \in [Job -> QueueRow]
  BY DEF JobsInv, JobsTypeOK
<1>2. StoreOK /\ Attached
  BY <1>1, IdleMonotone, NothingAttached DEF Cascade
<1>3. ASSUME NEW j \in Job
      PROVE  /\ queue'[j] \in QueueRow
             /\ queue'[j] = queue[j] \/ Inserts(j, queue[j], queue'[j])
             /\ queue'[j] = queue[j] \/ (queue'[j].state = "available" /\ queue[j].state = "none")
  <2>1. queue'[j] = IF Target[j] = a /\ rows[a] # Null /\ queue[j].state = "none"
                    THEN [state |-> "available", attempt |-> 0, id |-> IdOf(a)]
                    ELSE queue[j]
    BY DEF Cascade
  <2>2. IdOf(a) \in Id
    BY <1>1 DEF IdOf, Id, TypeOK
  <2>3. [state |-> "available", attempt |-> 0, id |-> IdOf(a)] \in QueueRow
    BY <2>2, JobsOK DEF QueueRow
  <2> QED
    BY <1>1, <2>1, <2>3 DEF Inserts
<1>4. queue' \in [Job -> QueueRow]
  BY <1>3 DEF Cascade
<1>5. QueueOK
  BY <1>3, <1>4 DEF QueueOK, Moves
<1>6. Delivers
  <2>1. ASSUME NEW j \in Job
        PROVE  Status(queue'[j]) = Status(queue[j])
    BY <1>3 DEF Status
  <2> QED
    BY <2>1 DEF Delivers
<1> QED
  BY <1>2, <1>5, <1>6 DEF Cascade, JobsStep, SlotsOK, FedOK, JobsInv, JobsTypeOK

\* A slot starts an attempt.
LEMMA ClaimStep ==
    ASSUME JobsInv, NEW w \in Slot, NEW j \in Job, Claim(w, j)
    PROVE  JobsStep
<1> DEFINE t == [pc |-> "work", job |-> j, res |-> Null, next |-> 1]
           s == [queue[j] EXCEPT !.state = "running", !.attempt = @ + 1]
<1>1. /\ TypeOK /\ queue \in [Job -> QueueRow] /\ slot \in [Slot -> Attempt \cup {Null}]
      /\ Waits(queue[j])
  BY DEF JobsInv, JobsTypeOK, AttemptsLeft
<1>2. StoreOK /\ Attached
  BY <1>1, StoreIdle DEF Claim
<1>3. queue' = [queue EXCEPT ![j] = s] /\ queue[j].state = "available"
  BY DEF Claim
<1>4. Moves(queue[j], s)
  BY <1>3 DEF Moves
<1>5. s \in QueueRow /\ s.state = "running"
  BY <1>1, <1>3, <1>4, MovesType DEF QueueRow
<1>6. slot' = [slot EXCEPT ![w] = t] /\ fed' = fed
  BY DEF Claim
<1>7. t \in Attempt
  BY DEF Attempt
<1> HIDE DEF s
<1>8. QueueOK
  BY <1>1, <1>3, <1>4, <1>5 DEF QueueOK, Moves
<1>9. Delivers
  <2>1. \A i \in Job : Status(queue'[i]) = Status(queue[i])
    BY <1>1, <1>3, <1>5 DEF Status
  <2> QED
    BY <2>1 DEF Delivers
<1>10. AttemptOK(w)'
  BY <1>1, <1>3, <1>5, <1>6 DEF AttemptOK
<1>11. SlotsOK
  BY <1>1, <1>6, <1>7, <1>10 DEF SlotsOK
<1> QED
  BY <1>2, <1>6, <1>8, <1>9, <1>11 DEF JobsStep, FedOK, JobsInv, JobsTypeOK

\* A job comes back from its backoff.
LEMMA RetryDueStep ==
    ASSUME JobsInv, NEW j \in Job, RetryDue(j)
    PROVE  JobsStep
<1> DEFINE s == [queue[j] EXCEPT !.state = "available"]
<1>1. TypeOK /\ queue \in [Job -> QueueRow] /\ Waits(queue[j])
  BY DEF JobsInv, JobsTypeOK, AttemptsLeft
<1>2. StoreOK /\ Attached
  BY <1>1, StoreIdle DEF RetryDue
<1>3. queue' = [queue EXCEPT ![j] = s] /\ queue[j].state = "retryable"
  BY DEF RetryDue
<1>4. Moves(queue[j], s)
  BY <1>3 DEF Moves
<1>5. s \in QueueRow /\ s.state = "available"
  BY <1>1, <1>3, <1>4, MovesType DEF QueueRow
<1> HIDE DEF s
<1>6. QueueOK
  BY <1>1, <1>3, <1>4, <1>5 DEF QueueOK, Moves
<1>7. Delivers
  <2>1. \A i \in Job : Status(queue'[i]) = Status(queue[i])
    BY <1>1, <1>3, <1>5 DEF Status
  <2> QED
    BY <2>1 DEF Delivers
<1> QED
  BY <1>2, <1>6, <1>7 DEF RetryDue, JobsStep, SlotsOK, FedOK, JobsInv, JobsTypeOK

\* The rescuer takes a running job back, whether or not its attempt goes on.
LEMMA RescueStep ==
    ASSUME JobsInv, NEW j \in Job, Rescue(j)
    PROVE  JobsStep
<1>1. TypeOK /\ queue \in [Job -> QueueRow] /\ \A i \in Job : Waits(queue[i])
  BY DEF JobsInv, JobsTypeOK, AttemptsLeft
<1>2. StoreOK /\ Attached
  BY <1>1, StoreIdle DEF Rescue
<1>3. queue' = [queue EXCEPT ![j] = Settled(@, "nack")] /\ queue[j].state = "running"
  BY DEF Rescue, Settled
<1>4. QueueOK /\ Delivers
  BY <1>1, <1>3, QueueSettles DEF Verdict
<1> QED
  BY <1>2, <1>4 DEF Rescue, JobsStep, SlotsOK, FedOK, JobsInv, JobsTypeOK

\* A process dies and leaves its job running.
LEMMA CrashStep ==
    ASSUME JobsInv, NEW w \in Slot, Crash(w)
    PROVE  JobsStep
<1>1. TypeOK /\ queue \in [Job -> QueueRow] /\ slot \in [Slot -> Attempt \cup {Null}]
  BY DEF JobsInv, JobsTypeOK
<1>2. StoreOK /\ Attached /\ QueueOK /\ Delivers
  BY <1>1, StoreIdle, QueueIdle DEF Crash
<1>3. SlotsOK
  BY <1>1 DEF Crash, SlotsOK
<1> QED
  BY <1>2, <1>3 DEF Crash, JobsStep, FedOK, JobsInv, JobsTypeOK

\* The operator deletes a row, or a row ages.
LEMMA OperatorStep ==
    ASSUME JobsInv, NEW a \in Asset, Operator(a)
    PROVE  JobsStep
<1>1. TypeOK /\ queue \in [Job -> QueueRow]
  BY DEF JobsInv, JobsTypeOK
<1>2. StoreOK
  BY <1>1, OperatorMonotone DEF Operator
<1>3. QueueOK /\ Delivers
  BY <1>1, QueueIdle DEF Operator, jobVars
<1>4. Attached
  <2>1. \A b \in Asset : rows[b] = Null => rows'[b] = Null
    BY <1>1 DEF Operator, Delete, Age, TypeOK
  <2> QED
    BY <2>1, NothingAttached
<1> QED
  BY <1>2, <1>3, <1>4 DEF Operator, jobVars, JobsStep, SlotsOK, FedOK, JobsInv, JobsTypeOK

-----------------------------------------------------------------------------
(* The steps of Work. *)

\* The chunk that persist sends next is a part of the children, from next on.
LEMMA NextChunkOf ==
    ASSUME NEW r \in Result, NEW n \in Nat \ {0}, n <= Len(r.children)
    PROVE  /\ NextChunk(r, n) \in Seq(Item)
           /\ \A k \in DOMAIN NextChunk(r, n) :
                 \E i \in DOMAIN r.children : NextChunk(r, n)[k] = r.children[i]
           /\ \A i \in DOMAIN r.children :
                 n <= i /\ i < n + ChunkSize =>
                     \E k \in DOMAIN NextChunk(r, n) : NextChunk(r, n)[k] = r.children[i]
<1> DEFINE c == r.children
           end == n + ChunkSize - 1
           m == IF end < Len(c) THEN end ELSE Len(c)
           d == NextChunk(r, n)
<1>1. c \in Seq(Item) /\ Len(c) \in Nat /\ DOMAIN c = 1..Len(c)
  BY LenProperties DEF Result
<1>2. ChunkSize \in Nat \ {0}
  BY JobsOK
<1>3. m \in Nat /\ n <= m /\ m <= Len(c)
  BY <1>1, <1>2
<1>4. d = SubSeq(c, n, m)
  BY DEF NextChunk
<1>5. \A i \in n..m : c[i] \in Item
  BY <1>1, <1>3, ElementOfSeq
<1>6. \A i \in 1..Len(c) : n <= i /\ i < n + ChunkSize => i \in n..m
  BY <1>1, <1>2
<1> HIDE DEF c, m, d
<1>7. d \in Seq(Item) /\ Len(d) = m - n + 1 /\ \A i \in 1..(m - n + 1) : d[i] = c[n + i - 1]
  BY <1>1, <1>3, <1>4, <1>5, SubSeqProperties
<1>8. DOMAIN d = 1..(m - n + 1)
  BY <1>7, LenProperties
<1>9. ASSUME NEW k \in DOMAIN d
      PROVE  \E i \in DOMAIN c : d[k] = c[i]
  <2>1. k \in 1..(m - n + 1) /\ n + k - 1 \in 1..Len(c)
    BY <1>1, <1>3, <1>8, <1>9
  <2> QED
    BY <1>1, <1>7, <2>1
<1>10. ASSUME NEW i \in DOMAIN c, n <= i, i < n + ChunkSize
       PROVE  \E k \in DOMAIN d : d[k] = c[i]
  <2>1. i \in n..m
    BY <1>1, <1>6, <1>10
  <2>2. i - n + 1 \in 1..(m - n + 1) /\ n + (i - n + 1) - 1 = i
    BY <1>3, <2>1
  <2> QED
    BY <1>7, <1>8, <2>2
<1> QED
  BY <1>7, <1>9, <1>10 DEF c, d

\* The types that the steps of Work rely on.
LEMMA AttemptTypes ==
    ASSUME JobsInv, NEW w \in Slot, slot[w] # Null
    PROVE  /\ TypeOK /\ queue \in [Job -> QueueRow] /\ slot \in [Slot -> Attempt \cup {Null}]
           /\ AttemptsLeft /\ fed \in SUBSET Job
           /\ slot[w] \in Attempt /\ slot[w].job \in Job /\ slot[w].next \in Nat \ {0}
           /\ AttemptOK(w)
           /\ AssetID(w) \in Id /\ AssetID(w)[1] = Target[slot[w].job]
           /\ Target[slot[w].job] \in Asset
           /\ HasId(AssetID(w)) \/ deletions[Target[slot[w].job]] > 0
<1>1. slot[w] \in Attempt /\ AttemptOK(w)
  BY DEF JobsInv, JobsTypeOK, AttemptsSound
<1>2. slot[w].job \in Job /\ slot[w].next \in Nat \ {0}
  BY <1>1 DEF Attempt
<1>3. queue[slot[w].job] \in QueueRow /\ queue[slot[w].job].state # "none"
  BY <1>1, <1>2 DEF JobsInv, JobsTypeOK, AttemptOK
<1>4. /\ AssetID(w) \in Id /\ AssetID(w)[1] = Target[slot[w].job]
      /\ HasId(AssetID(w)) \/ deletions[Target[slot[w].job]] > 0
  BY <1>2, <1>3 DEF AssetID, QueueRow, JobsInv, TargetKnown
<1> QED
  BY <1>1, <1>2, <1>4, JobsOK DEF JobsInv, JobsTypeOK

\* An attempt whose update and children are all written has its effect.
LEMMA WrittenIsEffective ==
    ASSUME JobsInv, NEW w \in Slot, slot[w] # Null, slot[w].pc = "chunk",
           slot[w].next > Len(slot[w].res.children)
    PROVE  Effective(slot[w].job)
<1> DEFINE t == slot[w]
<1>1. t.job \in Job /\ t.next \in Nat /\ Written(w) /\ t.res \in Results[t.job]
  BY AttemptTypes DEF AttemptOK
<1>2. t.res \in Result
  BY <1>1, JobsOK
<1>3. \A i \in DOMAIN t.res.children : i < t.next
  BY <1>1, <1>2, LenProperties DEF Result
<1>4. Visible(t.job, t.res)
  BY <1>1, <1>3 DEF Written, Visible
<1> QED
  BY <1>1, <1>4 DEF Effective

\* A step that ends the attempt.
LEMMA ReturnStep ==
    ASSUME JobsInv, NEW w \in Slot, slot[w] # Null, NEW v \in Verdict, Return(w, v),
           StoreOK, Attached, FedOK,
           v = "ack" => Effective(slot[w].job) /\ UNCHANGED <<rows, deletions>>
    PROVE  JobsStep
<1>1. /\ QueueOK /\ Delivers
      /\ slot' \in [Slot -> Attempt \cup {Null}]
      /\ \A u \in Slot : slot'[u] # Null => slot'[u] = slot[u]
  BY Returns DEF JobsInv, AttemptsLeft
<1> QED
  BY <1>1 DEF JobsStep, SlotsOK

\* A step that takes the attempt to t.
LEMMA AdvanceStep ==
    ASSUME JobsInv, NEW w \in Slot, slot[w] # Null, NEW t \in Attempt,
           slot' = [slot EXCEPT ![w] = t], UNCHANGED <<queue, fed>>,
           StoreOK, Attached, AttemptOK(w)'
    PROVE  JobsStep
<1>1. QueueOK /\ Delivers
  BY QueueIdle DEF JobsInv, JobsTypeOK
<1>2. SlotsOK
  BY DEF SlotsOK, JobsInv, JobsTypeOK
<1> QED
  BY <1>1, <1>2 DEF JobsStep, FedOK, JobsInv, JobsTypeOK

\* A job of another phase is given back.
LEMMA RefusePhaseStep ==
    ASSUME JobsInv, NEW w \in Slot, RefusePhase(w)
    PROVE  JobsStep
<1>1. slot[w] # Null /\ Return(w, "nack") /\ UNCHANGED <<rows, deletions, feed, fed>>
  BY DEF RefusePhase, At
<1>2. TypeOK /\ fed \in SUBSET Job
  BY <1>1, AttemptTypes
<1>3. StoreOK /\ Attached /\ FedOK
  BY <1>1, <1>2, StoreIdle DEF FedOK
<1> QED
  BY <1>1, <1>3, ReturnStep DEF Verdict

\* A job without its row is done: the row was deleted since it was inserted.
LEMMA FetchAssetStep ==
    ASSUME JobsInv, NEW w \in Slot, FetchAsset(w)
    PROVE  JobsStep
<1>1. slot[w] # Null /\ slot[w].pc = "work" /\ UNCHANGED <<rows, deletions, feed, fed>>
  BY DEF FetchAsset, At
<1>2. /\ TypeOK /\ fed \in SUBSET Job /\ slot[w] \in Attempt /\ AttemptOK(w)
      /\ HasId(AssetID(w)) \/ deletions[Target[slot[w].job]] > 0
      /\ slot \in [Slot -> Attempt \cup {Null}]
  BY <1>1, AttemptTypes
<1>3. StoreOK /\ Attached /\ FedOK
  BY <1>1, <1>2, StoreIdle DEF FedOK
<1>4. CASE Return(w, "nack")
  BY <1>1, <1>3, <1>4, ReturnStep DEF Verdict
<1>5. CASE ~HasId(AssetID(w)) /\ Return(w, "ack")
  <2>1. Effective(slot[w].job)
    BY <1>2, <1>5 DEF Effective
  <2> QED
    BY <1>1, <1>3, <1>5, <2>1, ReturnStep DEF Verdict
<1>6. CASE slot' = [slot EXCEPT ![w].pc = "run"] /\ UNCHANGED queue
  <2> DEFINE t == [slot[w] EXCEPT !.pc = "run"]
  <2>1. t \in Attempt /\ t.pc = "run" /\ t.job = slot[w].job /\ t.next = slot[w].next
    BY <1>2 DEF Attempt
  <2>2. slot' = [slot EXCEPT ![w] = t]
    BY <1>6
  <2> HIDE DEF t
  <2>3. AttemptOK(w)'
    BY <1>1, <1>2, <1>6, <2>1, <2>2 DEF AttemptOK
  <2> QED
    BY <1>1, <1>3, <1>6, <2>1, <2>2, <2>3, AdvanceStep
<1> QED
  BY <1>4, <1>5, <1>6 DEF FetchAsset

\* The tool returns an error, or a result it may return for this job.
LEMMA RunStep ==
    ASSUME JobsInv, NEW w \in Slot, Run(w)
    PROVE  JobsStep
<1>1. slot[w] # Null /\ slot[w].pc = "run" /\ UNCHANGED <<rows, deletions, feed, fed>>
  BY DEF Run, At
<1>2. /\ TypeOK /\ fed \in SUBSET Job /\ slot[w] \in Attempt /\ slot[w].job \in Job
      /\ AttemptOK(w) /\ slot \in [Slot -> Attempt \cup {Null}]
  BY <1>1, AttemptTypes
<1>3. StoreOK /\ Attached /\ FedOK
  BY <1>1, <1>2, StoreIdle DEF FedOK
<1>4. CASE Return(w, "cancel") \/ Return(w, "nack")
  BY <1>1, <1>3, <1>4, ReturnStep DEF Verdict
<1>5. ASSUME NEW r \in Results[slot[w].job],
             slot' = [slot EXCEPT ![w].pc = AfterRun, ![w].res = r], UNCHANGED queue
      PROVE  JobsStep
  <2> DEFINE t == [slot[w] EXCEPT !.pc = "merge", !.res = r]
  <2>1. r \in Result
    BY <1>2, JobsOK
  <2>2. /\ t \in Attempt /\ t.pc = "merge" /\ t.job = slot[w].job /\ t.res = r
        /\ t.next = slot[w].next
    BY <1>2, <2>1 DEF Attempt
  <2>3. slot' = [slot EXCEPT ![w] = t]
    BY <1>2, <1>5 DEF AfterRun
  <2> HIDE DEF t
  <2>4. AttemptOK(w)'
    BY <1>1, <1>2, <1>5, <2>2, <2>3 DEF AttemptOK
  <2> QED
    BY <1>1, <1>3, <1>5, <2>2, <2>3, <2>4, AdvanceStep
<1> QED
  BY <1>4, <1>5 DEF Run

\* After MergeUpdate the update is in the row, unless the row was deleted.
LEMMA UpdateIsHeld ==
    ASSUME TypeOK, NEW id \in Id, NEW x \in Attrs, MergeUpdate(id, x),
           HasId(id) \/ deletions[id[1]] > 0
    PROVE  /\ Holds(id[1], x)'
           /\ \A a \in Asset : rows[a] = Null => rows'[a] = Null
<1> DEFINE a == id[1]
<1>0. a \in Asset /\ deletions[a] \in Nat
  BY DEF Id, TypeOK
<1>1. CASE ~(NonEmpty(x) /\ HasId(id))
  <2>1. UNCHANGED storeVars
    BY <1>1 DEF MergeUpdate
  <2> QED
    BY <1>1, <2>1 DEF storeVars, Holds, NonEmpty, HasId
<1>2. CASE NonEmpty(x) /\ HasId(id)
  <2>1. rows' = [rows EXCEPT ![a] = Merged(@, x)] /\ rows[a] # Null /\ rows[a] \in Row
    BY <1>0, <1>2 DEF MergeUpdate, Write, HasId, TypeOK
  <2>2. rows'[a] = Merged(rows[a], x)
    BY <1>0, <2>1 DEF TypeOK
  <2>3. rows'[a] \in Row /\ rows'[a] # Null
    BY <2>1, <2>2, MergedType, NullIsNoRow
  <2>4. rows'[a].attrs = Merge(rows[a].attrs, x)
    BY <2>1, <2>2 DEF Merged, Row
  <2>5. \A k \in Key : x[k] # Null => rows'[a].attrs[k] # Null
    BY <2>4 DEF Merge
  <2> QED
    BY <1>0, <2>1, <2>3, <2>5 DEF Holds, TypeOK
<1> QED
  BY <1>1, <1>2

\* The first half of persist.
LEMMA PersistUpdateStep ==
    ASSUME JobsInv, NEW w \in Slot, PersistUpdate(w)
    PROVE  JobsStep
<1> DEFINE j == slot[w].job
           x == slot[w].res.update
<1>1. slot[w] # Null /\ slot[w].pc = "merge" /\ fed' = fed
  BY DEF PersistUpdate, At
<1>2. /\ TypeOK /\ fed \in SUBSET Job /\ slot[w] \in Attempt /\ j \in Job
      /\ AttemptOK(w) /\ slot \in [Slot -> Attempt \cup {Null}]
      /\ AssetID(w) \in Id /\ AssetID(w)[1] = Target[j]
      /\ HasId(AssetID(w)) \/ deletions[Target[j]] > 0
  BY <1>1, AttemptTypes
<1>3. slot[w].res \in Results[j] /\ x \in Attrs
  BY <1>1, <1>2, JobsOK DEF AttemptOK, Result
<1>4. FedOK
  BY <1>1, <1>2 DEF FedOK
<1>5. PICK a \in Asset, y \in Attrs, id \in Id :
         a = Target[j] /\ y = x /\ id = AssetID(w) /\ id[1] = a
  BY <1>2, <1>3, JobsOK
<1>6. ASSUME MergeUpdate(AssetID(w), x)
      PROVE  StoreOK /\ Attached /\ Holds(a, y)'
  BY <1>2, <1>5, <1>6, MergeMonotone, UpdateIsHeld, NothingAttached
<1>7. CASE /\ MergeUpdate(AssetID(w), x)
           /\ slot' = [slot EXCEPT ![w].pc = "chunk"] /\ UNCHANGED queue
  <2> DEFINE t == [slot[w] EXCEPT !.pc = "chunk"]
  <2>1. /\ t \in Attempt /\ t.pc = "chunk" /\ t.job = j /\ t.res = slot[w].res
        /\ t.next = slot[w].next
    BY <1>2 DEF Attempt
  <2>2. slot' = [slot EXCEPT ![w] = t] /\ slot'[w] = t
    BY <1>2, <1>7
  <2> HIDE DEF t
  <2>3. t.next = 1 /\ DOMAIN t.res.children \subseteq Nat \ {0}
    BY <1>1, <1>2, <1>3, <2>1, JobsOK, LenProperties DEF AttemptOK, Result
  <2>4. Written(w)'
    <3>1. Target[slot'[w].job] = a /\ slot'[w].res.update = y /\ Holds(a, y)'
      BY <1>5, <1>6, <1>7, <2>1, <2>2
    <3>2. \A i \in DOMAIN slot'[w].res.children : ~(i < slot'[w].next)
      BY <2>2, <2>3
    <3> QED
      BY <3>1, <3>2 DEF Written
  <2>5. AttemptOK(w)'
    BY <1>1, <1>2, <1>3, <1>7, <2>1, <2>2, <2>4 DEF AttemptOK
  <2> QED
    BY <1>1, <1>6, <1>7, <2>1, <2>2, <2>5, AdvanceStep
<1>8. CASE (UNCHANGED storeVars \/ MergeUpdate(AssetID(w), x)) /\ Return(w, "nack")
  <2>1. StoreOK /\ Attached
    BY <1>2, <1>6, <1>8, StoreIdle DEF storeVars
  <2> QED
    BY <1>1, <1>4, <1>8, <2>1, ReturnStep DEF Verdict
<1> QED
  BY <1>7, <1>8 DEF PersistUpdate

\* One turn of the loop of the second half of persist.
LEMMA PersistChunkStep ==
    ASSUME JobsInv, NEW w \in Slot, PersistChunk(w)
    PROVE  JobsStep
<1> DEFINE j == slot[w].job
<1>1. slot[w] # Null /\ slot[w].pc = "chunk" /\ fed' = fed
  BY DEF PersistChunk, At
<1>2. /\ TypeOK /\ fed \in SUBSET Job /\ slot[w] \in Attempt /\ j \in Job
      /\ AttemptOK(w) /\ slot \in [Slot -> Attempt \cup {Null}]
      /\ AssetID(w) \in Parent /\ slot[w].next \in Nat \ {0}
  BY <1>1, AttemptTypes DEF Parent
<1>3. slot[w].res \in Results[j] /\ Written(w)
  BY <1>1, <1>2 DEF AttemptOK
<1>4. FedOK
  BY <1>1, <1>2 DEF FedOK
<1>5. PICK r \in Result, n \in Nat \ {0}, a \in Asset, p \in Parent :
         r = slot[w].res /\ n = slot[w].next /\ a = Target[j] /\ p = AssetID(w)
  BY <1>2, <1>3, JobsOK
<1>6. n <= Len(r.children)
  BY <1>5 DEF PersistChunk
<1>7. PICK c \in Seq(Item) : c = NextChunk(r, n)
  BY <1>6, NextChunkOf
<1>8. r.update \in Attrs /\ r.children \in Seq(Item)
  BY DEF Result
<1>9. ASSUME upsertChunk(c, p)
      PROVE  StoreOK /\ Attached
  <2>1. ASSUME NEW b \in Asset, rows[b] = Null, rows'[b] # Null
        PROVE  \E i \in DOMAIN r.children : r.children[i].asset = b
    <3>1. PICK k \in DOMAIN c : c[k].asset = b
      BY <1>2, <1>9, <2>1, ChunkRow
    <3>2. PICK i \in DOMAIN r.children : c[k] = r.children[i]
      BY <1>6, <1>7, <3>1, NextChunkOf
    <3> QED
      BY <3>1, <3>2
  <2>2. Attached
    BY <1>2, <1>3, <1>5, <2>1 DEF Attached, Written
  <2> QED
    BY <1>2, <1>9, <2>2, ChunkMonotone
<1>10. CASE /\ upsertChunk(c, p)
            /\ slot' = [slot EXCEPT ![w].next = @ + ChunkSize] /\ UNCHANGED queue
  <2> DEFINE t == [slot[w] EXCEPT !.next = slot[w].next + ChunkSize]
  <2>1. slot[w].next + ChunkSize \in Nat \ {0}
    BY <1>2, JobsOK
  <2>2. /\ t \in Attempt /\ t.pc = "chunk" /\ t.job = j /\ t.res = r
        /\ t.next = n + ChunkSize
    BY <1>1, <1>2, <1>5, <2>1 DEF Attempt
  <2>3. slot' = [slot EXCEPT ![w] = t] /\ slot'[w] = t
    BY <1>2, <1>10
  <2> HIDE DEF t
  <2>4. Holds(a, r.update)'
    BY <1>2, <1>3, <1>5, <1>8, <1>9, <1>10, HoldsKept DEF Written
  <2>5. ASSUME NEW i \in DOMAIN r.children, i < n + ChunkSize
        PROVE  /\ r.children[i].asset # Null
               /\ Holds(r.children[i].asset, r.children[i].attrs)'
    <3>0. r.children[i] \in Item /\ i \in Nat
      BY <1>8, ElementOfSeq, LenProperties
    <3>1. CASE i < n
      <4>1. r.children[i].asset # Null /\ Holds(r.children[i].asset, r.children[i].attrs)
        BY <1>3, <1>5, <3>1 DEF Written
      <4> QED
        BY <1>2, <1>9, <1>10, <3>0, <4>1, HoldsKept DEF Item
    <3>2. CASE n <= i
      <4>1. PICK k \in DOMAIN c : c[k] = r.children[i]
        BY <1>6, <1>7, <2>5, <3>2, NextChunkOf
      <4>2. FingerprintCoversAttrs
        BY DEF JobsInv
      <4>3. c[k].asset # Null /\ Holds(c[k].asset, c[k].attrs)'
        BY <1>2, <1>10, <4>2, ChunkIsHeld
      <4> QED
        BY <4>1, <4>3
    <3> QED
      BY <3>0, <3>1, <3>2
  <2>6. Written(w)'
    BY <1>5, <2>2, <2>3, <2>4, <2>5 DEF Written
  <2>7. AttemptOK(w)'
    BY <1>2, <1>3, <1>5, <1>10, <2>2, <2>3, <2>6 DEF AttemptOK
  <2> QED
    BY <1>1, <1>9, <1>10, <2>2, <2>3, <2>7, AdvanceStep
<1>11. CASE (UNCHANGED storeVars \/ upsertChunk(c, p)) /\ Return(w, "nack")
  <2>1. StoreOK /\ Attached
    BY <1>2, <1>9, <1>11, StoreIdle DEF storeVars
  <2> QED
    BY <1>1, <1>4, <1>11, <2>1, ReturnStep DEF Verdict
<1> QED
  BY <1>5, <1>7, <1>10, <1>11 DEF PersistChunk

\* The attempt ends with everything written.
LEMMA FinishStep ==
    ASSUME JobsInv, NEW w \in Slot, Finish(w)
    PROVE  JobsStep
<1>1. /\ slot[w] # Null /\ slot[w].pc = "chunk" /\ slot[w].next > Len(slot[w].res.children)
      /\ fed' \in {fed, fed \cup {slot[w].job}} /\ Return(w, "ack")
      /\ UNCHANGED <<rows, deletions, feed>>
  BY DEF Finish, At
<1>2. PICK j \in Job : j = slot[w].job
  BY <1>1, AttemptTypes
<1>3. TypeOK /\ fed \in SUBSET Job
  BY <1>1, AttemptTypes
<1>4. Effective(j)
  BY <1>1, <1>2, WrittenIsEffective
<1>5. StoreOK /\ Attached
  BY <1>1, <1>3, StoreIdle
<1>6. Effective(j)'
  BY <1>3, <1>4, <1>5, EffectiveKept
<1>7. FedOK
  BY <1>1, <1>2, <1>3, <1>6 DEF FedOK
<1> QED
  BY <1>1, <1>2, <1>4, <1>5, <1>7, ReturnStep DEF Verdict

-----------------------------------------------------------------------------
(* The theorems. *)

\* Every step of the adapter, River, the cascade and the operator.
LEMMA NextStep ==
    ASSUME JobsInv, [Next]_vars
    PROVE  JobsStep
<1>1. ASSUME NEW w \in Slot, Work(w) \/ Crash(w)
      PROVE  JobsStep
  BY <1>1, RefusePhaseStep, FetchAssetStep, RunStep, PersistUpdateStep, PersistChunkStep,
     FinishStep, CrashStep DEF Work
<1>2. ASSUME NEW w \in Slot, NEW j \in Job, Claim(w, j)
      PROVE  JobsStep
  BY <1>2, ClaimStep
<1>3. ASSUME NEW j \in Job, RetryDue(j) \/ Rescue(j)
      PROVE  JobsStep
  BY <1>3, RetryDueStep, RescueStep
<1>4. ASSUME NEW a \in Asset, Cascade(a) \/ Operator(a)
      PROVE  JobsStep
  BY <1>4, CascadeStep, OperatorStep
<1>5. CASE UNCHANGED vars
  <2>1. TypeOK /\ queue \in [Job -> QueueRow]
    BY DEF JobsInv, JobsTypeOK
  <2>2. StoreOK /\ Attached /\ QueueOK /\ Delivers
    BY <1>5, <2>1, StoreIdle, QueueIdle DEF vars
  <2> QED
    BY <1>5, <2>2 DEF vars, JobsStep, SlotsOK, FedOK, JobsInv, JobsTypeOK
<1> QED
  BY <1>1, <1>2, <1>3, <1>4, <1>5 DEF Next

\* The seeded table and the empty queue satisfy the invariant.
LEMMA InitInv == Init => JobsInv
<1> SUFFICES ASSUME Init PROVE JobsInv
  OBVIOUS
<1>1. RootRow \in Row /\ Covers(RootRow)
  <2> DEFINE x == [k \in Key |-> Null]
  <2>1. x \in Attrs
    BY DEF Attrs
  <2>2. CanonAttrs(x) = x
    BY DEF CanonAttrs
  <2>3. fingerprintAttrs(x) \in Fingerprint
    BY <2>1, AttrsClosed
  <2>4. RootRow = [attrs |-> x, fingerprint |-> fingerprintAttrs(x), stale |-> FALSE,
                   parent |-> Null]
    BY DEF RootRow
  <2> HIDE DEF x
  <2>5. RootRow \in Row
    BY <2>1, <2>3, <2>4 DEF Row
  <2> QED
    BY <2>2, <2>4, <2>5 DEF Covers, fingerprintAttrs
<1>2. TypeOK
  BY <1>1, JobsOK, ConstantsOK DEF Init, TypeOK
<1>3. FingerprintCoversAttrs
  BY <1>1 DEF Init, FingerprintCoversAttrs, Covers
<1>4. \A j \in Job : <<Target[j], 0>> \in Id
  BY JobsOK, ConstantsOK DEF Id
<1>5. JobsTypeOK
  BY <1>2, <1>4, JobsOK DEF Init, JobsTypeOK, QueueRow
<1>6. AttemptsLeft /\ TargetKnown /\ AttemptsSound
  BY DEF Init, AttemptsLeft, Waits, TargetKnown, AttemptsSound
<1>7. CompletedIsVisible /\ FeedbackFollowsResult
  BY DEF Init, CompletedIsVisible, FeedbackFollowsResult
<1> QED
  BY <1>3, <1>5, <1>6, <1>7 DEF JobsInv

\* The invariant holds in every reachable state.
LEMMA Invariance == Spec => []JobsInv
<1>1. JobsInv /\ [Next]_vars => JobsInv'
  BY NextStep, JobsStepInv
<1> QED
  BY <1>1, InitInv, PTL DEF Spec

\* The queue and every attempt stay well typed; no job is claimed more often
\* than River allows.
THEOREM JobsTypeCorrect == Spec => []JobsTypeOK
<1>1. JobsInv => JobsTypeOK
  BY DEF JobsInv
<1> QED
  BY <1>1, Invariance, PTL

\* What AssetStore promises of the fingerprint column holds when the writers
\* are the jobs of the cascade.
THEOREM JobsKeepFingerprints == Spec => []FingerprintCoversAttrs
<1>1. JobsInv => FingerprintCoversAttrs
  BY DEF JobsInv
<1> QED
  BY <1>1, Invariance, PTL

\* So do its promises about steps: jobs that crash, retry and overlap keep no
\* change from the cascade, erase no key and move no asset.
THEOREM JobsKeepPromises == Spec => ChangesAreAnnounced /\ WritersOnlyAdd
<1>1. ASSUME JobsInv, [Next]_vars PROVE TypeOK /\ FingerprintCoversAttrs /\ StepOK
  BY <1>1, NextStep DEF JobsInv, JobsTypeOK, JobsStep, StoreOK
<1>2. ASSUME JobsInv, [Next]_vars
      PROVE  [\A a \in Asset : rows'[a] # Null /\ Changed(rows[a], rows'[a])
                                   => a \in feed']_storeVars
  BY <1>1, <1>2, StepAnnounces
<1>3. ASSUME JobsInv, [Next]_vars
      PROVE  [\A a \in Asset : rows[a] # Null /\ rows'[a] # Null =>
                 /\ \A k \in Key : rows[a].attrs[k] # Null => rows'[a].attrs[k] # Null
                 /\ rows[a].parent # Null => rows'[a].parent = rows[a].parent]_storeVars
  BY <1>1, <1>3, StepKeeps
<1> QED
  BY <1>2, <1>3, Invariance, PTL DEF Spec, ChangesAreAnnounced, WritersOnlyAdd

\* River completes no job with a part of its result missing.
THEOREM CompletedVisible == Spec => []CompletedIsVisible
<1>1. JobsInv => CompletedIsVisible
  BY DEF JobsInv
<1> QED
  BY <1>1, Invariance, PTL

\* No feedback on an API key comes before the result of its run.
THEOREM FeedbackIsLast == Spec => []FeedbackFollowsResult
<1>1. JobsInv => FeedbackFollowsResult
  BY DEF JobsInv
<1> QED
  BY <1>1, Invariance, PTL

\* No child enters the graph before the update of its result.
THEOREM UpdateBeforeChildren == Spec => ChildrenFollowUpdate
<1>1. ASSUME JobsInv, [Next]_vars
      PROVE  [\A a \in Asset : rows[a] = Null /\ rows'[a] # Null =>
                 \E j \in Job : \E r \in Results[j] :
                     /\ \E i \in DOMAIN r.children : r.children[i].asset = a
                     /\ Holds(Target[j], r.update)]_vars
  BY <1>1, NextStep DEF JobsStep, Attached
<1> QED
  BY <1>1, Invariance, PTL DEF Spec, ChildrenFollowUpdate

\* Initially nothing is settled.
LEMMA DeliveryInit == Init => D!Init
BY DEF Init, D!Init, Status, Effective

\* Every step of the adapter is a step of Delivery, or none.
LEMMA DeliveryStep ==
    ASSUME JobsInv, [Next]_vars
    PROVE  [D!Next]_(D!deliveryVars)
<1> DEFINE status == [j \in Job |-> Status(queue[j])]
           effect == [j \in Job |-> Effective(j)]
<1>1. JobsStep /\ TypeOK
  BY NextStep DEF JobsInv, JobsTypeOK
<1>2. D!Grow
  <2>1. \A j \in Job : Effective(j) => Effective(j)'
    BY <1>1, EffectiveKept DEF JobsStep
  <2>2. \A j \in Job : Effective(j)' \in BOOLEAN
    BY DEF Effective
  <2> QED
    BY <2>1, <2>2 DEF D!Grow
<1>3. CASE \A j \in Job : Status(queue'[j]) = Status(queue[j])
  BY <1>2, <1>3 DEF D!Next, D!TakeEffect
<1>4. ASSUME NEW j \in Job, \A i \in Job \ {j} : queue'[i] = queue[i],
             queue[j].state = "running", Status(queue'[j]) = "dead"
      PROVE  D!Next
  <2>1. Status(queue[j]) = "open"
    BY <1>4 DEF Status
  <2>2. D!Die(j)
    BY <1>2, <1>4, <2>1 DEF D!Die
  <2> QED
    BY <2>2 DEF D!Next
<1>5. ASSUME NEW j \in Job, \A i \in Job \ {j} : queue'[i] = queue[i],
             queue[j].state = "running", Status(queue'[j]) = "done",
             Effective(j), UNCHANGED <<rows, deletions>>
      PROVE  D!Next
  <2>1. Status(queue[j]) = "open"
    BY <1>5 DEF Status
  <2>2. \A i \in Job : Effective(i)' = Effective(i)
    BY <1>5 DEF Effective, Visible, Holds
  <2>3. D!Done(j)
    BY <1>5, <2>1, <2>2 DEF D!Done
  <2> QED
    BY <2>3 DEF D!Next
<1> QED
  BY <1>1, <1>3, <1>4, <1>5 DEF JobsStep, Delivers

\* The adapter, River and the assets table implement Delivery.
THEOREM ImplementsDelivery == Spec => DeliveryHolds
<1>1. JobsInv /\ [Next]_vars => [D!Next]_(D!deliveryVars)
  BY DeliveryStep
<1> QED
  BY <1>1, DeliveryInit, Invariance, PTL DEF Spec, DeliveryHolds, D!Spec
=============================================================================
