----------------------------- MODULE HealthProofs -----------------------------
(***************************************************************************)
(* Proofs about Health for any number of processes, slots, keys and runs.  *)
(* The counters stay within their bound because a failure is counted only  *)
(* by a run that totalRuns already holds: Room says how many of those are  *)
(* on their way.  The key in the row is traced back to the goroutine that  *)
(* wrote it and the outcome that started the goroutine: LateIsGuilty.      *)
(***************************************************************************)
EXTENDS Health, FiniteSetTheorems, TLAPS

\* Slots of p between the two atomic operations of recordRunOutcome.
Pending(p) == {s \in Slot : Host[s] = p /\ run[s] # Null}

\* Every counted failure, and every outcome still to be counted, is a run.
Room == \A p \in Process :
            consecutiveFailures[p] + Cardinality(Pending(p)) <= totalRuns[p]

TypeInv == HealthTypeOK /\ Room

\* A key that a goroutine is about to blame was refused.
LateIsGuilty ==
    \A o \in HealthErr :
        late[o] > 0 /\ o.err = "api_key" /\ o.key # NoKey => o.key \in guilty

-----------------------------------------------------------------------------
(* The statement. *)

\* What one write makes of the row: the key it blames is the writer's, and
\* then for a class about keys, or the one that was blamed before.
LEMMA UpsertedRow ==
    ASSUME NEW old \in HealthRow \cup {Null}, NEW r \in Report,
           NEW key \in ApiKey \cup {NoKey}
    PROVE  LET new == Upserted(old, r, key) IN
           /\ new \in HealthRow
           /\ new.failedKey # NoKey =>
                 \/ r.class = "api_key" /\ new.failedKey = key
                 \/ old # Null /\ new.failedKey = old.failedKey
<1> DEFINE new == Upserted(old, r, key)
<1>1. FailedID(r, key) \in ApiKey \cup {NoKey}
  BY DEF FailedID
<1>2. r.status \in Status /\ r.class \in Class
  BY DEF Report
<1>3. CASE old = Null
  <2>1. new = [status |-> r.status, class |-> r.class,
               consecutive |-> IF Failing(r.status) THEN 1 ELSE 0,
               failedKey |-> FailedID(r, key)]
    BY <1>3 DEF Upserted
  <2>2. new \in HealthRow
    BY <2>1, <1>1, <1>2, HealthOK DEF HealthRow
  <2> QED
    BY <2>1, <2>2 DEF FailedID
<1>4. CASE old # Null /\ r.status = "healthy"
  <2>1. new = [status |-> r.status, class |-> r.class, consecutive |-> 0,
               failedKey |-> NoKey]
    BY <1>4 DEF Upserted, Failing
  <2>2. new \in HealthRow
    BY <2>1, <1>2, HealthOK DEF HealthRow
  <2> QED
    BY <2>1, <2>2
<1>5. CASE old # Null /\ r.status # "healthy"
  <2>1. old \in HealthRow
    BY <1>5
  <2>2. PICK n \in {old.consecutive, Counted(old.consecutive)} :
          new = [status |-> r.status, class |-> r.class, consecutive |-> n,
                 failedKey |-> IF FailedID(r, key) # NoKey THEN FailedID(r, key)
                                                           ELSE old.failedKey]
    <3>1. CASE r.status = "unknown"
      BY <1>5, <3>1 DEF Upserted, Failing
    <3>2. CASE r.status # "unknown"
      BY <1>5, <3>2 DEF Upserted, Failing
    <3> QED
      BY <3>1, <3>2
  <2>3. /\ old.consecutive \in 0..MaxCount
        /\ old.failedKey \in ApiKey \cup {NoKey}
    BY <2>1 DEF HealthRow
  <2>4. Counted(old.consecutive) \in 0..MaxCount
    BY <2>3, HealthOK DEF Counted
  <2>5. new \in HealthRow
    BY <2>2, <2>3, <2>4, <1>1, <1>2 DEF HealthRow
  <2> QED
    BY <1>5, <2>2, <2>5 DEF FailedID
<1> QED
  BY <1>3, <1>4, <1>5

-----------------------------------------------------------------------------
(* Type correctness. *)

\* The slots of a process are finitely many.
LEMMA PendingFinite ==
    ASSUME NEW p \in Process
    PROVE  IsFiniteSet(Pending(p)) /\ Cardinality(Pending(p)) \in Nat
BY HealthOK, FS_Subset, FS_CardinalityType DEF Pending

\* CountRun makes room and takes it.
LEMMA CountRunType ==
    ASSUME TypeInv, NEW s \in Slot, NEW o \in Outcome, CountRun(s, o)
    PROVE  TypeInv'
<1> USE DEF TypeInv
<1>1. HealthTypeOK'
  <2>1. /\ Host[s] \in Process
        /\ totalRuns[Host[s]] + 1 \in 0..MaxRuns
    <3>1. Host[s] \in Process
      BY HealthOK
    <3>2. totalRuns[Host[s]] \in 0..MaxRuns /\ totalRuns[Host[s]] < MaxRuns
      BY <3>1 DEF HealthTypeOK, CountRun
    <3> QED
      BY <3>1, <3>2, HealthOK
  <2>2. totalRuns' \in [Process -> 0..MaxRuns]
    BY <2>1 DEF HealthTypeOK, CountRun
  <2>3. run' \in [Slot -> Outcome \cup {Null}]
    BY DEF HealthTypeOK, CountRun
  <2> QED
    BY <2>2, <2>3 DEF HealthTypeOK, CountRun
<1>2. Room'
  <2> SUFFICES ASSUME NEW p \in Process
               PROVE  consecutiveFailures'[p] + Cardinality(Pending(p)') <= totalRuns'[p]
    BY DEF Room
  <2>1. o # Null
    BY NullIsNothing
  <2>2. /\ consecutiveFailures'[p] = consecutiveFailures[p]
        /\ consecutiveFailures[p] \in Nat /\ totalRuns[p] \in Nat
        /\ consecutiveFailures[p] + Cardinality(Pending(p)) <= totalRuns[p]
    BY DEF HealthTypeOK, CountRun, Room
  <2>3. CASE p = Host[s]
    <3>1. Pending(p)' = Pending(p) \cup {s} /\ s \notin Pending(p)
      BY <2>1, <2>3 DEF HealthTypeOK, CountRun, Pending
    <3>2. Cardinality(Pending(p)') = Cardinality(Pending(p)) + 1
      BY <3>1, PendingFinite, FS_AddElement
    <3>3. totalRuns'[p] = totalRuns[p] + 1
      BY <2>3 DEF HealthTypeOK, CountRun
    <3> QED
      BY <2>2, <3>2, <3>3, PendingFinite
  <2>4. CASE p # Host[s]
    <3>1. Pending(p)' = Pending(p) /\ totalRuns'[p] = totalRuns[p]
      BY <2>4, HealthOK DEF HealthTypeOK, CountRun, Pending
    <3> QED
      BY <2>2, <3>1
  <2> QED
    BY <2>3, <2>4
<1> QED
  BY <1>1, <1>2

\* CountOutcome counts a run that was pending.
LEMMA CountOutcomeType ==
    ASSUME TypeInv, NEW s \in Slot, CountOutcome(s)
    PROVE  TypeInv'
<1> USE DEF TypeInv
<1> DEFINE h == Host[s]
<1>1. h \in Process /\ s \in Pending(h) /\ run[s] \in Outcome
  BY HealthOK DEF HealthTypeOK, CountOutcome, Pending
<1>2. Cardinality(Pending(h) \ {s}) = Cardinality(Pending(h)) - 1
  BY <1>1, PendingFinite, FS_RemoveElement
<1>3. Pending(h)' = Pending(h) \ {s}
  BY <1>1 DEF HealthTypeOK, CountOutcome, Pending
<1>4. \A p \in Process : p # h => Pending(p)' = Pending(p)
  BY DEF HealthTypeOK, CountOutcome, Pending
<1>5. Cardinality(Pending(h) \ {s}) \in Nat
  BY <1>1, PendingFinite, FS_RemoveElement, FS_CardinalityType
<1>6. /\ consecutiveFailures[h] \in Nat /\ totalRuns[h] \in 0..MaxRuns
      /\ consecutiveFailures[h] + Cardinality(Pending(h)) <= totalRuns[h]
      /\ Cardinality(Pending(h)) \in Nat
  BY <1>1, PendingFinite DEF HealthTypeOK, Room
<1>7. consecutiveFailures[h] + 1 \in 0..MaxRuns
  BY <1>2, <1>5, <1>6, HealthOK
<1>8. consecutiveFailures' = [consecutiveFailures EXCEPT ![h] =
                                IF run[s].err = "nil" THEN 0 ELSE @ + 1]
  BY DEF CountOutcome
<1>9. consecutiveFailures'[h] \in {0, consecutiveFailures[h] + 1}
  BY <1>1, <1>8 DEF HealthTypeOK
<1>10. HealthTypeOK'
  <2>1. consecutiveFailures' \in [Process -> 0..MaxRuns]
    BY <1>1, <1>7, <1>8, HealthOK DEF HealthTypeOK
  <2>2. late' \in [HealthErr -> Nat]
    BY DEF HealthTypeOK, CountOutcome
  <2>3. guilty' \in SUBSET ApiKey
    BY <1>1 DEF HealthTypeOK, CountOutcome, Outcome, HealthErr
  <2> QED
    BY <2>1, <2>2, <2>3 DEF HealthTypeOK, CountOutcome
<1>11. Room'
  <2> SUFFICES ASSUME NEW p \in Process
               PROVE  consecutiveFailures'[p] + Cardinality(Pending(p)') <= totalRuns'[p]
    BY DEF Room
  <2>1. totalRuns' = totalRuns
    BY DEF CountOutcome
  <2>2. CASE p = h
    BY <2>1, <2>2, <1>2, <1>3, <1>5, <1>6, <1>9
  <2>3. CASE p # h
    BY <2>1, <2>3, <1>4, <1>8 DEF HealthTypeOK, Room
  <2> QED
    BY <2>2, <2>3
<1> QED
  BY <1>10, <1>11

\* No other step touches the counters or the outcomes under way.
LEMMA RoomKept ==
    ASSUME Room, UNCHANGED <<totalRuns, consecutiveFailures, run>>
    PROVE  Room'
BY DEF Room, Pending

\* The two counters give a report.
LEMMA PassiveType ==
    ASSUME NEW runs \in Nat, NEW fails \in Nat
    PROVE  Passive(runs, fails) \in Report
<1>1. fails = 0 \/ fails >= UnhealthyAfter \/ fails \in 1..(UnhealthyAfter - 1)
  BY HealthOK
<1>2. CASE runs = 0
  BY <1>2 DEF Passive, Report, Status, Class
<1>3. CASE runs # 0 /\ fails = 0
  BY <1>3 DEF Passive, Report, Status, Class
<1>4. CASE runs # 0 /\ fails # 0 /\ fails >= UnhealthyAfter
  BY <1>4, HealthOK DEF Passive, Report, Status, Class
<1>5. CASE runs # 0 /\ fails \in 1..(UnhealthyAfter - 1) /\ ~(fails >= UnhealthyAfter)
  BY <1>5, HealthOK DEF Passive, Report, Status, Class
<1> QED
  BY <1>1, <1>2, <1>3, <1>4, <1>5, HealthOK

-----------------------------------------------------------------------------
(* The invariant and its steps. *)

Inv == TypeInv /\ LateIsGuilty /\ BlamedKeyFailed

\* Nothing has run and nothing is stored.
LEMMA InitInv == Init => Inv
<1> SUFFICES ASSUME Init PROVE Inv
  OBVIOUS
<1>1. HealthTypeOK
  BY HealthOK DEF Init, HealthTypeOK
<1>2. Room
  <2> SUFFICES ASSUME NEW p \in Process
               PROVE  consecutiveFailures[p] + Cardinality(Pending(p)) <= totalRuns[p]
    BY DEF Room
  <2>1. Pending(p) = {}
    BY DEF Init, Pending
  <2> QED
    BY <2>1, FS_EmptySet DEF Init
<1>3. BlamedKeyFailed
  BY DEF Init, BlamedKeyFailed
<1>4. LateIsGuilty
  BY DEF Init, LateIsGuilty
<1> QED
  BY <1>1, <1>2, <1>3, <1>4 DEF Inv, TypeInv

\* A run ends: the row is not written, and a goroutine that may blame a key
\* starts with the key among the guilty.
LEMMA OutcomeStep ==
    ASSUME Inv, NEW s \in Slot, recordRunOutcome(s)
    PROVE  Inv'
<1>1. CASE CountOutcome(s)
  <2>1. TypeInv'
    BY <1>1, CountOutcomeType DEF Inv
  <2>2. row' = row /\ guilty \subseteq guilty'
    BY <1>1 DEF CountOutcome
  <2>3. BlamedKeyFailed'
    BY <2>2 DEF Inv, BlamedKeyFailed
  <2>4. LateIsGuilty'
    <3> SUFFICES ASSUME NEW o \in HealthErr, late'[o] > 0, o.err = "api_key", o.key # NoKey
                 PROVE  o.key \in guilty'
      BY DEF LateIsGuilty
    <3>1. CASE o = run[s]
      BY <1>1, <3>1 DEF CountOutcome
    <3>2. CASE o # run[s]
      <4>1. late'[o] = late[o]
        BY <1>1, <3>2 DEF CountOutcome, Inv, TypeInv, HealthTypeOK
      <4> QED
        BY <4>1, <2>2 DEF Inv, LateIsGuilty
    <3> QED
      BY <3>1, <3>2
  <2> QED
    BY <2>1, <2>3, <2>4 DEF Inv
<1>2. CASE \E o \in Ended : CountRun(s, o)
  <2>1. PICK o \in Outcome : CountRun(s, o)
    BY <1>2, EndedOK
  <2>2. TypeInv'
    BY <2>1, CountRunType DEF Inv
  <2> QED
    BY <2>1, <2>2 DEF CountRun, Inv, LateIsGuilty, BlamedKeyFailed
<1> QED
  BY <1>1, <1>2 DEF recordRunOutcome

\* A goroutine of a HealthError writes, or fails.
LEMMA WriteLateStep ==
    ASSUME Inv, NEW o \in HealthErr, NEW ok \in BOOLEAN, WriteLate(o, ok)
    PROVE  Inv'
<1> DEFINE r == [status |-> "unhealthy", class |-> o.err]
           new == Upserted(row, r, o.key)
<1>1. r \in Report /\ o.key \in ApiKey \cup {NoKey}
  BY DEF HealthErr, Report, Status, Class
<1>2. row \in HealthRow \cup {Null}
  BY DEF Inv, TypeInv, HealthTypeOK
<1>3. /\ new \in HealthRow
      /\ new.failedKey # NoKey =>
            \/ o.err = "api_key" /\ new.failedKey = o.key
            \/ row # Null /\ new.failedKey = row.failedKey
  <2> HIDE DEF new
  <2>1. r.status = "unhealthy" /\ r.class = o.err
    OBVIOUS
  <2> QED
    BY <1>1, <1>2, <2>1, UpsertedRow DEF new
<1>4. row' \in {row, new} /\ guilty' = guilty
  BY DEF WriteLate
<1>5. late[o] > 0 /\ late' = [late EXCEPT ![o] = @ - 1]
  BY DEF WriteLate
<1>6. late \in [HealthErr -> Nat]
  BY DEF Inv, TypeInv, HealthTypeOK
<1> HIDE DEF new
<1>7. HealthTypeOK'
  <2>1. late' \in [HealthErr -> Nat]
    BY <1>5, <1>6
  <2> QED
    BY <2>1, <1>2, <1>3, <1>4 DEF Inv, TypeInv, HealthTypeOK, WriteLate
<1>8. Room'
  BY RoomKept DEF WriteLate, Inv, TypeInv
<1>9. LateIsGuilty'
  BY <1>4, <1>5, <1>6 DEF Inv, LateIsGuilty
<1>10. BlamedKeyFailed'
  BY <1>3, <1>4, <1>5 DEF Inv, BlamedKeyFailed, LateIsGuilty
<1> QED
  BY <1>7, <1>8, <1>9, <1>10 DEF Inv, TypeInv

\* healthLoop gathers a report.
LEMMA GatherStep ==
    ASSUME Inv, NEW p \in Process, gatherHealth(p)
    PROVE  Inv'
<1>1. UNCHANGED <<explicit, totalRuns, consecutiveFailures, run, late, row, guilty>>
  BY DEF gatherHealth, LoadFailures, GatherPassive, GatherExplicit
<1>2. /\ seen' \in [Process -> 0..MaxRuns \cup {Null}]
      /\ report' \in [Process -> Report \cup {Null}]
  <2>1. CASE LoadFailures(p)
    BY <2>1 DEF LoadFailures, Inv, TypeInv, HealthTypeOK
  <2>2. CASE GatherPassive(p)
    <3>1. totalRuns[p] \in Nat /\ seen[p] \in Nat
      BY <2>2, HealthOK DEF GatherPassive, Inv, TypeInv, HealthTypeOK
    <3>2. Passive(totalRuns[p], seen[p]) \in Report
      BY <3>1, PassiveType
    <3> QED
      BY <2>2, <3>2 DEF GatherPassive, Inv, TypeInv, HealthTypeOK
  <2>3. CASE \E r \in Checked : GatherExplicit(p, r)
    BY <2>3, CheckedOK DEF GatherExplicit, Inv, TypeInv, HealthTypeOK
  <2> QED
    BY <2>1, <2>2, <2>3 DEF gatherHealth
<1>3. HealthTypeOK'
  BY <1>1, <1>2 DEF Inv, TypeInv, HealthTypeOK
<1>4. Room'
  BY <1>1, RoomKept DEF Inv, TypeInv
<1> QED
  BY <1>1, <1>3, <1>4 DEF Inv, TypeInv, LateIsGuilty, BlamedKeyFailed

\* healthLoop writes its report: no key, so the row blames whom it blamed.
LEMMA WriteReportStep ==
    ASSUME Inv, NEW p \in Process, WriteReport(p) \/ WriteFails(p)
    PROVE  Inv'
<1> DEFINE new == Upserted(row, report[p], NoKey)
<1>1. report[p] \in Report
  BY DEF WriteReport, WriteFails, Inv, TypeInv, HealthTypeOK
<1>2. row \in HealthRow \cup {Null}
  BY DEF Inv, TypeInv, HealthTypeOK
<1>3. /\ new \in HealthRow
      /\ new.failedKey # NoKey => row # Null /\ new.failedKey = row.failedKey
  BY <1>1, <1>2, UpsertedRow
<1>4. /\ row' \in {row, new}
      /\ UNCHANGED <<explicit, totalRuns, consecutiveFailures, run, seen, late, guilty>>
      /\ report' = [report EXCEPT ![p] = Null]
  BY DEF WriteReport, WriteFails
<1> HIDE DEF new
<1>5. HealthTypeOK'
  BY <1>2, <1>3, <1>4 DEF Inv, TypeInv, HealthTypeOK
<1>6. Room'
  BY <1>4, RoomKept DEF Inv, TypeInv
<1>7. BlamedKeyFailed'
  BY <1>3, <1>4 DEF Inv, BlamedKeyFailed
<1>8. LateIsGuilty'
  BY <1>4 DEF Inv, LateIsGuilty
<1> QED
  BY <1>5, <1>6, <1>7, <1>8 DEF Inv, TypeInv

\* Inv is inductive.
LEMMA StepInv == Inv /\ [Next]_vars => Inv'
<1> SUFFICES ASSUME Inv, [Next]_vars PROVE Inv'
  OBVIOUS
<1>1. CASE \E s \in Slot : recordRunOutcome(s)
  BY <1>1, OutcomeStep
<1>2. CASE \E o \in HealthErr, ok \in BOOLEAN : WriteLate(o, ok)
  BY <1>2, WriteLateStep
<1>3. CASE \E p \in Process : gatherHealth(p) \/ WriteReport(p) \/ WriteFails(p)
  BY <1>3, GatherStep, WriteReportStep
<1>4. CASE UNCHANGED vars
  BY <1>4 DEF vars, Inv, TypeInv, HealthTypeOK, Room, Pending,
              LateIsGuilty, BlamedKeyFailed
<1> QED
  BY <1>1, <1>2, <1>3, <1>4 DEF Next

\* The invariant holds in every reachable state.
LEMMA AlwaysInv == Spec => []Inv
BY InitInv, StepInv, PTL DEF Spec

-----------------------------------------------------------------------------

\* The counters of recordRunOutcome and the module_health row stay in their
\* types; consecutiveFailures never passes the number of runs, although a run
\* is counted in two operations.
THEOREM HealthTypeCorrect == Spec => []HealthTypeOK
<1>1. Inv => HealthTypeOK
  BY DEF Inv, TypeInv
<1> QED
  BY <1>1, AlwaysInv, PTL

\* failed_api_key_id names only keys that a run was refused with.
THEOREM BlameIsDeserved == Spec => []BlamedKeyFailed
<1>1. Inv => BlamedKeyFailed
  BY DEF Inv
<1> QED
  BY <1>1, AlwaysInv, PTL
=============================================================================
