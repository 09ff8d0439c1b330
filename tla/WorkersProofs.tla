---------------------------- MODULE WorkersProofs ----------------------------
(* Theorems about the worker protocol of Workers, for every number of       *)
(* workers, stages and attempts and every length of lease and backoff.      *)
EXTENDS Workers, TLAPS

USE ManifestAssumption, WorkersAssumption

-----------------------------------------------------------------------------
(* What the transformations of a stage record return.                       *)

\* Closing an attempt history rewrites its last status and nothing else.
LEMMA ClosedHistory ==
    ASSUME NEW a \in Seq(Attempt),
           NEW how \in {"completed", "failed", "lease_expired"}
    PROVE  /\ Closed(a, how) \in Seq(Attempt)
           /\ Len(Closed(a, how)) = Len(a)
           /\ \A i \in 1 .. Len(a) :
                 /\ Closed(a, how)[i].lease_generation = a[i].lease_generation
                 /\ Closed(a, how)[i].status =
                       IF i = Len(a) THEN how ELSE a[i].status
<1>1. CASE a = << >>
  BY <1>1 DEF Closed
<1>2. CASE a # << >>
  <2> DEFINE n == Len(a)
             last == [a[n] EXCEPT !.status = how]
  <2>1. n \in Nat /\ n > 0 /\ \A i \in 1 .. n : a[i] \in Attempt
    BY <1>2
  <2>2. Closed(a, how) = [a EXCEPT ![n] = last]
    BY <1>2 DEF Closed
  <2>3. last \in Attempt /\ last.status = how
        /\ last.lease_generation = a[n].lease_generation
    BY <2>1 DEF Attempt
  <2>4. QED
    BY <2>1, <2>2, <2>3
<1>3. QED
  BY <1>1, <1>2

LEMMA RetryDelayType == \A n : RetryDelay(n) \in 0 .. BackoffCap
  BY DEF RetryDelay

LEMMA AutoQueuedType ==
    ASSUME NEW r \in StageRecord PROVE AutoQueued(r) \in StageRecord
  BY DEF AutoQueued, StageRecord, StageStatus, Time, None

LEMMA AbandonedType ==
    ASSUME NEW r \in StageRecord
    PROVE  /\ Abandoned(r) \in StageRecord
           /\ Abandoned(r).attempt_count = r.attempt_count
           /\ Abandoned(r).max_attempts = r.max_attempts
           /\ Abandoned(r).lease_generation = r.lease_generation
           /\ Len(Abandoned(r).attempts) = Len(r.attempts)
<1>1. r.attempts \in Seq(Attempt)
  BY DEF StageRecord
<1>2. Closed(r.attempts, "lease_expired") \in Seq(Attempt)
      /\ Len(Closed(r.attempts, "lease_expired")) = Len(r.attempts)
  BY <1>1, ClosedHistory
<1>3. QED
  BY <1>2 DEF Abandoned, StageRecord

LEMMA ClaimedType ==
    ASSUME NEW r \in StageRecord, NEW w \in Worker, NEW t \in Nat
    PROVE  Claimed(r, w, t) \in StageRecord
<1> DEFINE entry == [status |-> "running",
                     lease_generation |-> r.lease_generation + 1]
<1>1. entry \in Attempt
  BY DEF Attempt, StageRecord
<1>2. Append(r.attempts, entry) \in Seq(Attempt)
  BY <1>1 DEF StageRecord
<1>3. /\ t + LeaseTicks \in Time /\ None \in Time
      /\ r.lease_generation + 1 \in Nat /\ r.attempt_count + 1 \in Nat
  BY DEF StageRecord, Time, None
<1>4. QED
  BY <1>2, <1>3 DEF Claimed, StageRecord, StageStatus

LEMMA ExhaustedType ==
    ASSUME NEW r \in StageRecord PROVE Exhausted(r) \in StageRecord
  BY DEF Exhausted, StageRecord, StageStatus, Time, None

LEMMA RenewedType ==
    ASSUME NEW r \in StageRecord, NEW t \in Nat
    PROVE  Renewed(r, t) \in StageRecord
<1>1. t + LeaseTicks \in Time
  BY DEF Time
<1>2. QED
  BY <1>1 DEF Renewed, StageRecord

LEMMA CompletedType ==
    ASSUME NEW r \in StageRecord PROVE Completed(r) \in StageRecord
<1>1. Closed(r.attempts, "completed") \in Seq(Attempt)
  BY ClosedHistory DEF StageRecord
<1>2. QED
  BY <1>1 DEF Completed, StageRecord, StageStatus, Time, None

LEMMA FailedRecordType ==
    ASSUME NEW r \in StageRecord, NEW b \in BOOLEAN, NEW t \in Nat
    PROVE  FailedRecord(r, b, t) \in StageRecord
<1>1. Closed(r.attempts, "failed") \in Seq(Attempt)
  BY ClosedHistory DEF StageRecord
<1>2. t + RetryDelay(r.attempt_count) \in Time /\ None \in Time
  BY RetryDelayType DEF Time, None
<1>3. (r.retryable /\ CanRetry(r, b)) \in BOOLEAN
  OBVIOUS
<1>4. QED
  BY <1>1, <1>2, <1>3 DEF FailedRecord, StageRecord, StageStatus

-----------------------------------------------------------------------------
(* Type correctness.                                                        *)

LEMMA MomentsAreTimes ==
    ASSUME TypeOK, NEW w \in Process, NEW t \in Moments(w)
    PROVE  t \in Nat /\ t <= now
  BY DEF TypeOK, WorkerState, Moments

LEMMA QueueNextReadyType ==
    ASSUME TypeOK, QueueNextReady
    PROVE  run_status' \in RunStatus /\ stages' \in [Stage -> StageRecord]
<1>1. CASE UNCHANGED durable
  BY <1>1 DEF TypeOK, durable
<1>2. ASSUME NEW s \in Stage,
             stages' = [stages EXCEPT ![s] = AutoQueued(@)],
             run_status' = "queued"
      PROVE  run_status' \in RunStatus /\ stages' \in [Stage -> StageRecord]
  BY <1>2, AutoQueuedType DEF TypeOK, RunStatus
<1>3. QED
  BY <1>1, <1>2 DEF QueueNextReady

LEMMA ClaimJobType ==
    ASSUME TypeOK, NEW w \in Process, ClaimJob(w)
    PROVE  TypeOK'
<1> DEFINE s == worker[w].stage
           r == Abandoned(stages[s])
<1>1. s \in Stage /\ now' = now /\ now \in Nat /\ stages[s] \in StageRecord
  BY DEF TypeOK, ClaimJob
<1>2. r \in StageRecord
  BY <1>1, AbandonedType
<1>3. ASSUME NEW t \in Moments(w), Grant(w, s, t)
      PROVE  TypeOK'
  <2>1. t \in Nat
    BY <1>3, MomentsAreTimes
  <2>2. Claimed(r, Identity[w], t) \in StageRecord
    BY <1>2, <2>1, ClaimedType
  <2>3. stages' \in [Stage -> StageRecord] /\ run_status' \in RunStatus
    BY <1>1, <1>3, <2>2 DEF Grant, TypeOK, RunStatus
  <2>4. r.lease_generation + 1 \in Nat
    BY <1>2 DEF StageRecord
  <2>5. Proceed(w, "claimed", s, r.lease_generation + 1)
    BY <1>3 DEF Grant
  <2>6. /\ worker' \in [Process -> WorkerState]
        /\ \A v \in Process :
              worker'[v].pc \notin {"idle", "scanning"} => worker'[v].stage \in Stage
    BY <1>1, <2>4, <2>5 DEF Proceed, TypeOK, WorkerState, Phase
  <2>7. QED
    BY <1>1, <2>3, <2>6 DEF TypeOK
<1>4. ASSUME Retire(w, s)
      PROVE  TypeOK'
  BY <1>1, <1>2, <1>4, ExhaustedType
     DEF Retire, TypeOK, RunStatus, Rest, Idle, WorkerState, Phase, NoStage
<1>5. ASSUME Rest(w), UNCHANGED durable
      PROVE  TypeOK'
  BY <1>1, <1>5 DEF TypeOK, durable, Rest, Idle, WorkerState, Phase, NoStage
<1>6. QED
  BY <1>3, <1>4, <1>5 DEF ClaimJob

LEMMA TypeStep ==
    ASSUME TypeOK, [Next]_vars
    PROVE  TypeOK'
<1> USE DEF WorkerState, Phase, NoStage
<1>1. ASSUME NEW w \in Process, AdvanceRun(w)
      PROVE  TypeOK'
  BY <1>1, QueueNextReadyType DEF AdvanceRun, TypeOK
<1>2. ASSUME NEW w \in Process, FindJob(w)
      PROVE  TypeOK'
  BY <1>2 DEF FindJob, TypeOK, durable, Rest, Idle, Proceed
<1>3. ASSUME NEW w \in Process, ClaimJob(w)
      PROVE  TypeOK'
  BY <1>3, ClaimJobType
<1>4. ASSUME NEW w \in Process, BeginStage(w)
      PROVE  TypeOK'
  BY <1>4 DEF BeginStage, TypeOK, durable, Goto, Proceed
<1>5. ASSUME NEW w \in Process, CompleteStage(w)
      PROVE  TypeOK'
  <2> DEFINE s == worker[w].stage
  <2>1. s \in Stage /\ stages[s] \in StageRecord /\ now' = now
    BY <1>5 DEF TypeOK, CompleteStage
  <2>2. Completed(stages[s]) \in StageRecord /\ StageRunStatus(s) \in RunStatus
    BY <2>1, CompletedType DEF StageRunStatus, RunStatus
  <2>3. run_status' \in RunStatus /\ stages' \in [Stage -> StageRecord]
    BY <1>5, <2>1, <2>2 DEF CompleteStage, TypeOK, durable
  <2>4. QED
    BY <1>5, <2>1, <2>3 DEF CompleteStage, TypeOK, Goto, Proceed
<1>6. ASSUME NEW w \in Process, FailStage(w)
      PROVE  TypeOK'
  <2> DEFINE s == worker[w].stage
  <2>1. s \in Stage /\ stages[s] \in StageRecord /\ now' = now
    BY <1>6 DEF TypeOK, FailStage
  <2>2. \A t \in Moments(w), b \in BOOLEAN : FailedRecord(stages[s], b, t) \in StageRecord
    BY <2>1, FailedRecordType, MomentsAreTimes
  <2>3. run_status' \in RunStatus /\ stages' \in [Stage -> StageRecord]
    BY <1>6, <2>1, <2>2 DEF FailStage, TypeOK, durable, RunStatus
  <2>4. QED
    BY <1>6, <2>1, <2>3 DEF FailStage, TypeOK, Goto, Proceed
<1>7. ASSUME NEW w \in Process, AdvanceAfter(w)
      PROVE  TypeOK'
  <2>1. run_status' \in RunStatus /\ stages' \in [Stage -> StageRecord]
    BY <1>7, QueueNextReadyType DEF AdvanceAfter, TypeOK, durable
  <2>2. QED
    BY <1>7, <2>1 DEF AdvanceAfter, TypeOK, Rest, Idle
<1>8. ASSUME NEW w \in Process, RenewLease(w)
      PROVE  TypeOK'
  <2> DEFINE s == worker[w].stage
  <2>1. PICK t \in Nat : stages' = [stages EXCEPT ![s] = Renewed(@, t)]
    BY <1>8 DEF RenewLease
  <2>2. s \in Stage /\ Renewed(stages[s], t) \in StageRecord
    BY <1>8, RenewedType DEF RenewLease, Serving, TypeOK
  <2>3. QED
    BY <1>8, <2>1, <2>2 DEF RenewLease, TypeOK
<1>9. ASSUME NEW w \in Process, Abandon(w)
      PROVE  TypeOK'
  BY <1>9 DEF Abandon, TypeOK, durable, Rest, Idle
<1>10. ASSUME Tick
       PROVE  TypeOK'
  BY <1>10 DEF Tick, TypeOK, durable
<1>11. ASSUME UNCHANGED vars
       PROVE  TypeOK'
  BY <1>11 DEF vars, TypeOK
<1>12. QED
  BY <1>1, <1>2, <1>3, <1>4, <1>5, <1>6, <1>7, <1>8, <1>9, <1>10, <1>11
     DEF Next, Step

\* Every reachable state is well typed.
THEOREM TypeCorrect == Spec => []TypeOK
<1>1. Init => TypeOK
  <2>1. << >> \in Seq(Attempt)
    OBVIOUS
  <2>2. NewRecord \in StageRecord
    BY <2>1 DEF NewRecord, StageRecord, StageStatus, Time, None
  <2>3. QED
    BY <2>2 DEF Init, TypeOK, RunStatus, Idle, WorkerState, Phase, NoStage
<1>2. TypeOK /\ [Next]_vars => TypeOK'
  BY TypeStep
<1>3. QED
  BY <1>1, <1>2, PTL DEF Spec

-----------------------------------------------------------------------------
(* The inductive invariant.  StagesInOrder makes the current stage the only *)
(* one that can change; the conditions on a single record are carried by    *)
(* each transformation of manifest.py and worker.py.                        *)

Sound(r, t) == Ledger(r) /\ Bounded(r) /\ WithinReach(r, t)

Inductive ==
    /\ TypeOK
    /\ StagesInOrder
    /\ RunStatusMirrorsStages
    /\ \A s \in Stage : Sound(stages[s], now)
    /\ LeasesAreExclusive

LEMMA AutoQueuedSound ==
    ASSUME NEW r \in StageRecord, NEW t \in Nat, Sound(r, t),
           r.status \in {"pending", "invalidated"}
    PROVE  Sound(AutoQueued(r), t)
<1> DEFINE x == AutoQueued(r)
<1>1. /\ x.status = "queued" /\ x.next_retry_at = None
      /\ x.attempts = r.attempts /\ x.attempt_count = r.attempt_count
      /\ x.max_attempts = r.max_attempts
      /\ x.lease_generation = r.lease_generation
  BY DEF AutoQueued, StageRecord
<1>2. Ledger(x)
  BY <1>1 DEF Sound, Ledger
<1>3. Bounded(x) /\ WithinReach(x, t)
  BY <1>1 DEF Sound, Bounded, WithinReach
<1>4. QED
  BY <1>2, <1>3 DEF Sound

\* Reclaiming closes the open attempt of an expired lease.
LEMMA AbandonedHistory ==
    ASSUME NEW r \in StageRecord, Ledger(r), r.status \in {"queued", "running"}
    PROVE  LET a == Abandoned(r) IN
           /\ \A i \in 1 .. Len(a.attempts) :
                 /\ a.attempts[i].lease_generation = i
                 /\ a.attempts[i].status \notin {"running", "completed"}
           /\ Len(a.attempts) = r.attempt_count
           /\ a.lease_generation = r.attempt_count
           /\ a.attempt_count = r.attempt_count
           /\ a.max_attempts = r.max_attempts
<1> DEFINE a == Abandoned(r)
<1>1. r.attempts \in Seq(Attempt)
  BY DEF StageRecord
<1>2. Len(a.attempts) = Len(r.attempts) /\ a.lease_generation = r.lease_generation
      /\ a.attempt_count = r.attempt_count /\ a.max_attempts = r.max_attempts
  BY AbandonedType
<1>3. \A i \in 1 .. Len(r.attempts) :
         /\ a.attempts[i].lease_generation = i
         /\ a.attempts[i].status \notin {"running", "completed"}
  <2>1. CASE r.status = "running" /\ r.attempts # << >>
             /\ r.attempts[Len(r.attempts)].status = "running"
    <3>1. a.attempts = Closed(r.attempts, "lease_expired")
      BY <2>1 DEF Abandoned, StageRecord
    <3>2. QED
      BY <1>1, <2>1, <3>1, ClosedHistory DEF Ledger
  <2>2. CASE ~(r.status = "running" /\ r.attempts # << >>
               /\ r.attempts[Len(r.attempts)].status = "running")
    <3>1. a = r
      BY <2>2 DEF Abandoned
    <3>2. r.attempts # << >> => Len(r.attempts) \in 1 .. Len(r.attempts)
      BY <1>1
    <3>3. QED
      BY <1>1, <2>2, <3>1, <3>2 DEF Ledger
  <2>3. QED
    BY <2>1, <2>2
<1>4. QED
  BY <1>2, <1>3 DEF Ledger

LEMMA ClaimedSound ==
    ASSUME NEW r \in StageRecord, NEW w \in Worker, NEW t \in Nat, NEW m \in Nat,
           t <= m, Sound(r, m), r.status \in {"queued", "running"},
           Abandoned(r).attempt_count < Abandoned(r).max_attempts
    PROVE  Sound(Claimed(Abandoned(r), w, t), m)
<1> DEFINE a == Abandoned(r)
           x == Claimed(a, w, t)
           entry == [status |-> "running", lease_generation |-> a.lease_generation + 1]
<1>1. a \in StageRecord /\ a.attempts \in Seq(Attempt)
  BY AbandonedType DEF StageRecord
<1>2. /\ x.status = "running" /\ x.worker_id = w
      /\ x.lease_expires_at = t + LeaseTicks
      /\ x.attempt_count = a.attempt_count + 1
      /\ x.max_attempts = a.max_attempts
      /\ x.lease_generation = a.lease_generation + 1
      /\ x.attempts = Append(a.attempts, entry)
  BY <1>1 DEF Claimed, StageRecord
<1>3. Ledger(r) /\ Bounded(r) /\ r.attempt_count \in Nat /\ r.max_attempts \in Nat
  BY DEF Sound, StageRecord
<1>4. Ledger(x)
  <2>1. /\ Len(a.attempts) = r.attempt_count /\ a.lease_generation = r.attempt_count
        /\ a.attempt_count = r.attempt_count
        /\ \A i \in 1 .. Len(a.attempts) :
              /\ a.attempts[i].lease_generation = i
              /\ a.attempts[i].status \notin {"running", "completed"}
    BY <1>3, AbandonedHistory
  <2>2. Len(x.attempts) = r.attempt_count + 1
    BY <1>1, <1>2, <2>1
  <2>3. x.attempts[Len(x.attempts)] = entry
    BY <1>1, <1>2
  <2>4. \A i \in 1 .. r.attempt_count : x.attempts[i] = a.attempts[i]
    BY <1>1, <1>2, <2>1
  <2>5. \A i \in 1 .. (r.attempt_count + 1) : i \in 1 .. r.attempt_count \/ i = r.attempt_count + 1
    BY <1>3
  <2>6. QED
    BY <1>2, <1>3, <2>1, <2>2, <2>3, <2>4, <2>5 DEF Ledger
<1>5. Bounded(x)
  BY <1>1, <1>2, <1>3, AbandonedType DEF Bounded
<1>6. WithinReach(x, m)
  BY <1>2 DEF WithinReach
<1>7. QED
  BY <1>4, <1>5, <1>6 DEF Sound

LEMMA ExhaustedSound ==
    ASSUME NEW r \in StageRecord, NEW m \in Nat, Sound(r, m),
           r.status \in {"queued", "running"}
    PROVE  Sound(Exhausted(Abandoned(r)), m)
<1> DEFINE a == Abandoned(r)
           x == Exhausted(a)
<1>1. a \in StageRecord
  BY AbandonedType
<1>2. /\ x.status = "failed" /\ x.attempts = a.attempts
      /\ x.attempt_count = a.attempt_count /\ x.max_attempts = a.max_attempts
      /\ x.lease_generation = a.lease_generation
  BY <1>1 DEF Exhausted, StageRecord
<1>3. Ledger(x)
  BY <1>2, AbandonedHistory DEF Ledger, Sound
<1>4. Bounded(x) /\ WithinReach(x, m)
  BY <1>2, AbandonedHistory DEF Bounded, WithinReach, Sound
<1>5. QED
  BY <1>3, <1>4 DEF Sound

LEMMA RenewedSound ==
    ASSUME NEW r \in StageRecord, NEW t \in Nat, NEW m \in Nat, t <= m,
           Sound(r, m), r.status = "running"
    PROVE  Sound(Renewed(r, t), m)
<1> DEFINE x == Renewed(r, t)
<1>1. /\ x.status = r.status /\ x.worker_id = r.worker_id
      /\ x.lease_expires_at = t + LeaseTicks /\ x.attempts = r.attempts
      /\ x.attempt_count = r.attempt_count /\ x.max_attempts = r.max_attempts
      /\ x.lease_generation = r.lease_generation
  BY DEF Renewed, StageRecord
<1>2. Ledger(x)
  BY <1>1 DEF Sound, Ledger
<1>3. Bounded(x) /\ WithinReach(x, m)
  BY <1>1 DEF Sound, Bounded, WithinReach
<1>4. QED
  BY <1>2, <1>3 DEF Sound

\* Closing the only open attempt keeps the ledger.
LEMMA ClosedLedger ==
    ASSUME NEW r \in StageRecord, Ledger(r), r.status = "running",
           NEW how \in {"completed", "failed"}, NEW x \in StageRecord,
           x.attempts = Closed(r.attempts, how),
           x.attempt_count = r.attempt_count,
           x.lease_generation = r.lease_generation,
           x.status # "running", x.status = "completed" <=> how = "completed"
    PROVE  Ledger(x)
<1>1. r.attempts \in Seq(Attempt)
  BY DEF StageRecord
<1>2. /\ Len(x.attempts) = Len(r.attempts)
      /\ \A i \in 1 .. Len(r.attempts) :
            /\ x.attempts[i].lease_generation = r.attempts[i].lease_generation
            /\ x.attempts[i].status =
                  IF i = Len(r.attempts) THEN how ELSE r.attempts[i].status
  BY <1>1, ClosedHistory
<1>3. QED
  BY <1>2 DEF Ledger

LEMMA CompletedSound ==
    ASSUME NEW r \in StageRecord, NEW m \in Nat, Sound(r, m), r.status = "running"
    PROVE  Sound(Completed(r), m)
<1> DEFINE x == Completed(r)
<1>1. x \in StageRecord
  BY CompletedType
<1>2. /\ x.status = "completed" /\ x.attempts = Closed(r.attempts, "completed")
      /\ x.attempt_count = r.attempt_count /\ x.max_attempts = r.max_attempts
      /\ x.lease_generation = r.lease_generation
  BY DEF Completed, StageRecord
<1>3. Ledger(x)
  BY <1>1, <1>2, ClosedLedger DEF Sound
<1>4. Bounded(x) /\ WithinReach(x, m)
  BY <1>2 DEF Sound, Bounded, WithinReach
<1>5. QED
  BY <1>3, <1>4 DEF Sound

LEMMA FailedSound ==
    ASSUME NEW r \in StageRecord, NEW b \in BOOLEAN, NEW t \in Nat, NEW m \in Nat,
           t <= m, Sound(r, m), r.status = "running"
    PROVE  Sound(FailedRecord(r, b, t), m)
<1> DEFINE x == FailedRecord(r, b, t)
<1>1. x \in StageRecord
  BY FailedRecordType
<1>2. /\ x.status = IF CanRetry(r, b) THEN "queued" ELSE "failed"
      /\ CanRetry(r, b) => x.next_retry_at = t + RetryDelay(r.attempt_count)
      /\ x.attempts = Closed(r.attempts, "failed")
      /\ x.attempt_count = r.attempt_count /\ x.max_attempts = r.max_attempts
      /\ x.lease_generation = r.lease_generation
  BY DEF FailedRecord, StageRecord
<1>3. Ledger(x)
  BY <1>1, <1>2, ClosedLedger DEF Sound
<1>4. CanRetry(r, b) => r.attempt_count < r.max_attempts
  BY DEF CanRetry
<1>5. Bounded(x)
  BY <1>2, <1>4 DEF Sound, Bounded
<1>6. RetryDelay(r.attempt_count) \in 0 .. BackoffCap
  BY RetryDelayType
<1>7. WithinReach(x, m)
  BY <1>2, <1>6 DEF WithinReach
<1>8. QED
  BY <1>3, <1>5, <1>7 DEF Sound

-----------------------------------------------------------------------------
(* One stage changes.                                                       *)

Frontier(s) ==
    /\ s \in Stage
    /\ DependenciesComplete(stages, s)
    /\ stages[s].status # "completed"

\* Around a stage whose dependencies are complete everything is settled.
LEMMA AroundFrontier ==
    ASSUME Inductive, NEW s \in Stage, Frontier(s)
    PROVE  \A q \in Stage :
              /\ q < s => stages[q].status = "completed"
              /\ q > s => stages[q].status = "pending"
  BY DEF Inductive, StagesInOrder, Frontier, DependenciesComplete, Stage

LEMMA ActiveIsFrontier ==
    ASSUME Inductive, NEW s \in Stage,
           stages[s].status \notin {"pending", "completed"}
    PROVE  Frontier(s)
  BY DEF Inductive, StagesInOrder, Frontier, DependenciesComplete, Stage

LEMMA NextReadyIsFrontier ==
    ASSUME Inductive, NEW s \in Stage, IsNextReady(run_status, stages, s)
    PROVE  Frontier(s)
<1>1. \A q \in Stage : stages[q].status \in StageStatus
  BY DEF Inductive, TypeOK, StageRecord
<1>2. \A q \in 1 .. (s - 1) : q \in Stage
  BY DEF Stage
<1>3. QED
  BY <1>1, <1>2 DEF IsNextReady, Frontier, DependenciesComplete, StageStatus

\* What a change at the frontier must respect to keep the run consistent.
StatusFits(run, x, s) ==
    /\ run = "failed" <=> x.status = "failed"
    /\ run = "rendered" <=> x.status = "completed" /\ s = NStages
    /\ run = "running" <=> x.status = "running"
    /\ run = "queued" <=> x.status = "queued"

LEMMA FrontierStep ==
    ASSUME Inductive, NEW s \in Stage, Frontier(s), NEW x \in StageRecord,
           stages' = [stages EXCEPT ![s] = x], Sound(x, now), now' = now,
           StatusFits(run_status', x, s)
    PROVE  /\ RunStatusMirrorsStages'
           /\ \A q \in Stage : Sound(stages'[q], now')
           /\ \A p, q \in Stage :
                 q < p /\ stages'[p].status # "pending"
                    => stages'[q].status = "completed"
           /\ \A q \in Stage :
                 stages[q].status = "completed" => stages'[q].status = "completed"
<1>1. \A q \in Stage : /\ q < s => stages[q].status = "completed"
                       /\ q > s => stages[q].status = "pending"
  BY AroundFrontier
<1>2. stages'[s] = x /\ \A q \in Stage : q # s => stages'[q] = stages[q]
  BY DEF Inductive, TypeOK
<1>3. \A q \in Stage : q # s => q < s \/ q > s
  BY DEF Stage
<1>4. \A q \in Stage : /\ q < s => stages'[q].status = "completed"
                       /\ q > s => stages'[q].status = "pending"
  BY <1>1, <1>2 DEF Stage
<1>5. RunStatusMirrorsStages'
  <2>1. (\A q \in Stage : stages'[q].status = "completed")
          <=> x.status = "completed" /\ s = NStages
    <3>1. NStages \in Stage /\ s <= NStages
      BY DEF Stage
    <3>2. s # NStages => NStages > s
      BY <3>1 DEF Stage
    <3>3. CASE s = NStages
      <4>1. \A q \in Stage : q # s => stages'[q].status = "completed"
        BY <1>3, <1>4, <3>3 DEF Stage
      <4>2. QED
        BY <1>2, <3>3, <4>1
    <3>4. CASE s # NStages
      <4>1. stages'[NStages].status = "pending"
        BY <1>4, <3>1, <3>2, <3>4
      <4>2. QED
        BY <3>1, <3>4, <4>1
    <3>5. QED
      BY <3>3, <3>4
  <2>2. (\E q \in Stage : stages'[q].status = "failed") <=> x.status = "failed"
    BY <1>2, <1>3, <1>4
  <2>3. (\E q \in Stage : stages'[q].status = "running") <=> x.status = "running"
    BY <1>2, <1>3, <1>4
  <2>4. (\E q \in Stage : stages'[q].status = "queued") <=> x.status = "queued"
    BY <1>2, <1>3, <1>4
  <2>5. QED
    BY <2>1, <2>2, <2>3, <2>4 DEF StatusFits, RunStatusMirrorsStages
<1>6. \A q \in Stage : Sound(stages'[q], now')
  BY <1>2 DEF Inductive
<1>7. \A p, q \in Stage : q < p /\ stages'[p].status # "pending"
                             => stages'[q].status = "completed"
  <2> SUFFICES ASSUME NEW p \in Stage, NEW q \in Stage, q < p,
                      stages'[p].status # "pending"
               PROVE  stages'[q].status = "completed"
    OBVIOUS
  <2>1. p <= s
    BY <1>4 DEF Stage
  <2>2. q < s
    BY <2>1 DEF Stage
  <2>3. QED
    BY <1>4, <2>2
<1>8. QED
  BY <1>2, <1>5, <1>6, <1>7 DEF Frontier

-----------------------------------------------------------------------------
(* The invariant is inductive.                                              *)

\* What the actions that change the manifest have in common: they change the
\* record at the frontier, or nothing.
Settled ==
    /\ RunStatusMirrorsStages'
    /\ \A q \in Stage : Sound(stages'[q], now')
    /\ \A p, q \in Stage :
          q < p /\ stages'[p].status # "pending" => stages'[q].status = "completed"
    /\ \A q \in Stage :
          stages[q].status = "completed" => stages'[q].status = "completed"

LEMMA NoChangeSettled ==
    ASSUME Inductive, UNCHANGED durable, now' = now
    PROVE  Settled
  BY DEF Inductive, durable, Settled, RunStatusMirrorsStages, StagesInOrder

LEMMA QueueNextReadySettled ==
    ASSUME Inductive, QueueNextReady, now' = now
    PROVE  /\ Settled
           /\ \A q \in Stage :
                 stages'[q].lease_generation = stages[q].lease_generation
<1>1. CASE UNCHANGED durable
  BY <1>1, NoChangeSettled DEF durable
<1>2. ASSUME NEW s \in Stage, IsNextReady(run_status, stages, s),
             stages' = [stages EXCEPT ![s] = AutoQueued(@)], run_status' = "queued"
      PROVE  /\ Settled
             /\ \A q \in Stage :
                   stages'[q].lease_generation = stages[q].lease_generation
  <2> DEFINE x == AutoQueued(stages[s])
  <2>1. stages[s] \in StageRecord /\ now \in Nat /\ Sound(stages[s], now)
    BY DEF Inductive, TypeOK
  <2>2. stages[s].status \in {"pending", "invalidated"} /\ Frontier(s)
    BY <1>2, NextReadyIsFrontier DEF IsNextReady
  <2>3. x \in StageRecord /\ Sound(x, now)
    BY <2>1, <2>2, AutoQueuedType, AutoQueuedSound
  <2>4. x.status = "queued" /\ x.lease_generation = stages[s].lease_generation
    BY <2>1 DEF AutoQueued, StageRecord
  <2>5. StatusFits(run_status', x, s)
    BY <1>2, <2>4 DEF StatusFits
  <2>6. stages' = [stages EXCEPT ![s] = x]
    BY <1>2
  <2>7. Settled
    BY <2>2, <2>3, <2>5, <2>6, FrontierStep DEF Settled
  <2>8. QED
    BY <2>4, <2>6, <2>7 DEF Inductive, TypeOK
<1>3. QED
  BY <1>1, <1>2 DEF QueueNextReady

\* The conjuncts about workers, when a worker moves without taking a claim.
LEMMA WorkerStep ==
    ASSUME Inductive, TypeOK', Settled, NEW w \in Process,
           \A v \in Process : v # w => worker'[v] = worker[v],
           \A q \in Stage :
              stages'[q].lease_generation = stages[q].lease_generation,
           worker'[w].pc = "found" =>
              DependenciesComplete(stages', worker'[w].stage),
           worker'[w].pc \in {"claimed", "running"} =>
              /\ Serving(w)
              /\ worker'[w].stage = worker[w].stage
              /\ worker'[w].lease_generation = worker[w].lease_generation
    PROVE  Inductive'
<1>1. \A v \in Process : worker[v].pc \in {"found", "claimed", "running"}
         => worker[v].stage \in Stage
  BY DEF Inductive, TypeOK
<1>2. LeasesAreExclusive'
  BY <1>1 DEF Inductive, LeasesAreExclusive, Serving
<1>3. \A v \in Process : worker'[v].pc = "found"
         => DependenciesComplete(stages', worker'[v].stage)
  BY <1>1 DEF Inductive, StagesInOrder, DependenciesComplete, Settled, Stage
<1>4. StagesInOrder'
  BY <1>3 DEF Settled, StagesInOrder
<1>5. QED
  BY <1>2, <1>4 DEF Inductive, Settled

LEMMA HolderIsRunning ==
    ASSUME Inductive, NEW w \in Process, worker[w].pc \in {"claimed", "running"},
           NEW t \in Nat, HoldsStage(w, t)
    PROVE  /\ worker[w].stage \in Stage
           /\ stages[worker[w].stage] \in StageRecord
           /\ stages[worker[w].stage].status = "running"
           /\ Frontier(worker[w].stage)
           /\ Sound(stages[worker[w].stage], now)
<1>1. worker[w].stage \in Stage
  BY DEF Inductive, TypeOK
<1>2. QED
  BY <1>1, ActiveIsFrontier DEF HoldsStage, HoldsLease, Inductive, TypeOK

LEMMA ClaimJobStep ==
    ASSUME Inductive, TypeOK', NEW w \in Process, ClaimJob(w)
    PROVE  Inductive'
<1> DEFINE s == worker[w].stage
           r == stages[s]
           a == Abandoned(r)
<1>1. s \in Stage /\ r \in StageRecord /\ now \in Nat /\ now' = now /\ Sound(r, now)
  BY DEF ClaimJob, Inductive, TypeOK
<1>2. DependenciesComplete(stages, s)
  BY DEF ClaimJob, Inductive, StagesInOrder
<1>3. a \in StageRecord /\ a.lease_generation = r.lease_generation
  BY <1>1, AbandonedType
<1>4. ASSUME NEW t \in Moments(w), IsClaimable(r, t), Grant(w, s, t)
      PROVE  Inductive'
  <2> DEFINE x == Claimed(a, Identity[w], t)
  <2>1. t \in Nat /\ t <= now
    BY MomentsAreTimes DEF Inductive
  <2>2. r.status \in {"queued", "running"} /\ Frontier(s)
    BY <1>1, <1>2, <1>4 DEF IsClaimable, Frontier
  <2>3. x \in StageRecord /\ Sound(x, now)
    BY <1>1, <1>3, <1>4, <2>1, <2>2, ClaimedType, ClaimedSound DEF Grant
  <2>4. x.status = "running" /\ x.lease_generation = r.lease_generation + 1
    BY <1>3 DEF Claimed, StageRecord
  <2>5. stages' = [stages EXCEPT ![s] = x] /\ run_status' = "running"
        /\ Proceed(w, "claimed", s, r.lease_generation + 1)
    BY <1>3, <1>4 DEF Grant
  <2>6. Settled
    BY <1>1, <2>2, <2>3, <2>4, <2>5, FrontierStep DEF Settled, StatusFits
  <2>7. /\ worker'[w] = [pc |-> "claimed", stage |-> s, since |-> now,
                         lease_generation |-> r.lease_generation + 1]
        /\ \A v \in Process : v # w => worker'[v] = worker[v]
    BY <2>5 DEF Proceed, Inductive, TypeOK
  <2>8. /\ stages'[s].lease_generation = r.lease_generation + 1
        /\ \A q \in Stage : q # s => stages'[q].lease_generation = stages[q].lease_generation
    BY <1>1, <2>4, <2>5 DEF Inductive, TypeOK
  <2>9. r.lease_generation \in Nat
        /\ \A v \in Process : worker[v].lease_generation \in Nat
    BY <1>1 DEF StageRecord, Inductive, TypeOK, WorkerState
  <2>10. \A v \in Process : worker[v].pc \in {"found", "claimed", "running"}
           => worker[v].stage \in Stage
    BY DEF Inductive, TypeOK
  <2>11. LeasesAreExclusive'
    <3>1. \A v \in Process : v # w /\ Serving(v)' =>
             /\ Serving(v)
             /\ worker'[v].stage = worker[v].stage
             /\ worker'[v].lease_generation = worker[v].lease_generation
             /\ worker[v].lease_generation <= stages[worker[v].stage].lease_generation
      BY <2>7 DEF Serving, Inductive, LeasesAreExclusive
    <3>2. \A v \in Process : v # w /\ Serving(v)' =>
             worker'[v].lease_generation <= stages'[worker'[v].stage].lease_generation
      <4> SUFFICES ASSUME NEW v \in Process, v # w, Serving(v)'
                   PROVE  worker'[v].lease_generation
                            <= stages'[worker'[v].stage].lease_generation
        OBVIOUS
      <4>1. worker[v].stage \in Stage
        BY <2>10, <3>1 DEF Serving
      <4>2. CASE worker[v].stage = s
        BY <2>8, <2>9, <3>1, <4>2
      <4>3. CASE worker[v].stage # s
        BY <2>8, <3>1, <4>1, <4>3
      <4>4. QED
        BY <4>2, <4>3
    <3>3. worker'[w].lease_generation <= stages'[worker'[w].stage].lease_generation
      BY <2>7, <2>8, <2>9
    <3>4. \A v \in Process : v # w /\ Serving(v)' /\ worker'[v].stage = s
             => worker'[v].lease_generation < worker'[w].lease_generation
      BY <2>7, <2>9, <3>1
    <3>5. ASSUME NEW u \in Process, NEW v \in Process, u # v, Serving(u)', Serving(v)',
                 worker'[u].stage = worker'[v].stage
          PROVE  worker'[u].lease_generation # worker'[v].lease_generation
      <4>1. CASE u = w
        BY <2>7, <2>9, <3>4, <3>5, <4>1
      <4>2. CASE v = w
        BY <2>7, <2>9, <3>4, <3>5, <4>2
      <4>3. CASE u # w /\ v # w
        BY <3>1, <3>5, <4>3 DEF Inductive, LeasesAreExclusive
      <4>4. QED
        BY <4>1, <4>2, <4>3
    <3>6. QED
      BY <3>2, <3>3, <3>5 DEF LeasesAreExclusive
  <2>12. \A v \in Process : worker'[v].pc = "found"
           => DependenciesComplete(stages', worker'[v].stage)
    BY <2>6, <2>7, <2>10 DEF Inductive, StagesInOrder, DependenciesComplete, Settled, Stage
  <2>13. StagesInOrder'
    BY <2>6, <2>12 DEF Settled, StagesInOrder
  <2>14. QED
    BY <2>6, <2>11, <2>13 DEF Inductive, Settled
<1>5. ASSUME NEW t \in Moments(w), IsClaimable(r, t), Retire(w, s)
      PROVE  Inductive'
  <2> DEFINE x == Exhausted(a)
  <2>1. r.status \in {"queued", "running"} /\ Frontier(s)
    BY <1>1, <1>2, <1>5 DEF IsClaimable, Frontier
  <2>2. x \in StageRecord /\ Sound(x, now)
    BY <1>1, <1>3, <2>1, ExhaustedType, ExhaustedSound
  <2>3. x.status = "failed" /\ x.lease_generation = r.lease_generation
    BY <1>3 DEF Exhausted, StageRecord
  <2>4. stages' = [stages EXCEPT ![s] = x] /\ run_status' = "failed" /\ Rest(w)
    BY <1>5 DEF Retire
  <2>5. Settled
    BY <1>1, <2>1, <2>2, <2>3, <2>4, FrontierStep DEF Settled, StatusFits
  <2>6. \A q \in Stage : stages'[q].lease_generation = stages[q].lease_generation
    BY <1>1, <2>3, <2>4 DEF Inductive, TypeOK
  <2>7. worker'[w] = Idle /\ \A v \in Process : v # w => worker'[v] = worker[v]
    BY <2>4 DEF Rest, Inductive, TypeOK
  <2>8. QED
    BY <2>5, <2>6, <2>7, WorkerStep DEF Idle
<1>6. ASSUME Rest(w), UNCHANGED durable
      PROVE  Inductive'
  <2>1. worker'[w] = Idle /\ \A v \in Process : v # w => worker'[v] = worker[v]
    BY <1>6 DEF Rest, Inductive, TypeOK
  <2>2. QED
    BY <1>1, <1>6, <2>1, NoChangeSettled, WorkerStep DEF Idle, durable
<1>7. QED
  BY <1>4, <1>5, <1>6 DEF ClaimJob

LEMMA MovedOnly ==
    ASSUME Inductive, NEW w \in Process, NEW x,
           worker' = [worker EXCEPT ![w] = x]
    PROVE  worker'[w] = x /\ \A v \in Process : v # w => worker'[v] = worker[v]
  BY DEF Inductive, TypeOK

LEMMA CompleteStageStep ==
    ASSUME Inductive, TypeOK', NEW w \in Process, CompleteStage(w)
    PROVE  Inductive'
<1> DEFINE s == worker[w].stage
           x == Completed(stages[s])
<1>1. now' = now /\ now \in Nat /\ worker[w].pc = "running"
  BY DEF CompleteStage, Inductive, TypeOK
<1>2. worker'[w].pc = "returned" /\ \A v \in Process : v # w => worker'[v] = worker[v]
  <2>1. worker' = [worker EXCEPT
                     ![w] = [pc |-> "returned", stage |-> worker[w].stage, since |-> now,
                             lease_generation |-> worker[w].lease_generation]]
    BY DEF CompleteStage, Goto, Proceed
  <2>2. /\ worker'[w] = [pc |-> "returned", stage |-> worker[w].stage, since |-> now,
                         lease_generation |-> worker[w].lease_generation]
        /\ \A v \in Process : v # w => worker'[v] = worker[v]
    BY <2>1, MovedOnly
  <2>3. QED
    BY <2>2
<1>3. ASSUME NEW t \in Moments(w), HoldsStage(w, t),
             stages' = [stages EXCEPT ![s] = Completed(@)],
             run_status' = StageRunStatus(s)
      PROVE  Inductive'
  <2>1. t \in Nat
    BY MomentsAreTimes DEF Inductive
  <2>2. s \in Stage /\ stages[s] \in StageRecord /\ stages[s].status = "running"
        /\ Frontier(s) /\ Sound(stages[s], now)
    BY <1>1, <1>3, <2>1, HolderIsRunning
  <2>3. x \in StageRecord /\ Sound(x, now)
    BY <1>1, <2>2, CompletedType, CompletedSound
  <2>4. x.status = "completed" /\ x.lease_generation = stages[s].lease_generation
    BY <2>2 DEF Completed, StageRecord
  <2>5. StatusFits(run_status', x, s)
    BY <1>3, <2>4 DEF StatusFits, StageRunStatus
  <2>6. stages' = [stages EXCEPT ![s] = x]
    BY <1>3
  <2>7. Settled
    BY <1>1, <2>2, <2>3, <2>5, <2>6, FrontierStep DEF Settled
  <2>8. \A q \in Stage : stages'[q].lease_generation = stages[q].lease_generation
    BY <2>2, <2>4, <2>6 DEF Inductive, TypeOK
  <2>9. QED
    BY <1>2, <2>7, <2>8, WorkerStep
<1>4. ASSUME UNCHANGED durable
      PROVE  Inductive'
  BY <1>1, <1>2, <1>4, NoChangeSettled, WorkerStep DEF durable
<1>5. QED
  BY <1>3, <1>4 DEF CompleteStage

LEMMA FailStageStep ==
    ASSUME Inductive, TypeOK', NEW w \in Process, FailStage(w)
    PROVE  Inductive'
<1> DEFINE s == worker[w].stage
<1>1. now' = now /\ now \in Nat /\ worker[w].pc = "running"
  BY DEF FailStage, Inductive, TypeOK
<1>2. worker'[w].pc = "returned" /\ \A v \in Process : v # w => worker'[v] = worker[v]
  <2>1. worker' = [worker EXCEPT
                     ![w] = [pc |-> "returned", stage |-> worker[w].stage, since |-> now,
                             lease_generation |-> worker[w].lease_generation]]
    BY DEF FailStage, Goto, Proceed
  <2>2. /\ worker'[w] = [pc |-> "returned", stage |-> worker[w].stage, since |-> now,
                         lease_generation |-> worker[w].lease_generation]
        /\ \A v \in Process : v # w => worker'[v] = worker[v]
    BY <2>1, MovedOnly
  <2>3. QED
    BY <2>2
<1>3. ASSUME NEW t \in Moments(w), NEW b \in BOOLEAN, HoldsStage(w, t),
             stages' = [stages EXCEPT ![s] = FailedRecord(@, b, t)],
             run_status' = IF CanRetry(stages[s], b) THEN "queued" ELSE "failed"
      PROVE  Inductive'
  <2> DEFINE x == FailedRecord(stages[s], b, t)
  <2>1. t \in Nat /\ t <= now
    BY MomentsAreTimes DEF Inductive
  <2>2. s \in Stage /\ stages[s] \in StageRecord /\ stages[s].status = "running"
        /\ Frontier(s) /\ Sound(stages[s], now)
    BY <1>1, <1>3, <2>1, HolderIsRunning
  <2>3. x \in StageRecord /\ Sound(x, now)
    BY <1>1, <2>1, <2>2, FailedRecordType, FailedSound
  <2>4. /\ x.status = IF CanRetry(stages[s], b) THEN "queued" ELSE "failed"
        /\ x.lease_generation = stages[s].lease_generation
    BY <2>2 DEF FailedRecord, StageRecord
  <2>5. StatusFits(run_status', x, s)
    BY <1>3, <2>4 DEF StatusFits
  <2>6. stages' = [stages EXCEPT ![s] = x]
    BY <1>3
  <2>7. Settled
    BY <1>1, <2>2, <2>3, <2>5, <2>6, FrontierStep DEF Settled
  <2>8. \A q \in Stage : stages'[q].lease_generation = stages[q].lease_generation
    BY <2>2, <2>4, <2>6 DEF Inductive, TypeOK
  <2>9. QED
    BY <1>2, <2>7, <2>8, WorkerStep
<1>4. ASSUME UNCHANGED durable
      PROVE  Inductive'
  BY <1>1, <1>2, <1>4, NoChangeSettled, WorkerStep DEF durable
<1>5. QED
  BY <1>3, <1>4 DEF FailStage

LEMMA RenewLeaseStep ==
    ASSUME Inductive, TypeOK', NEW w \in Process, RenewLease(w)
    PROVE  Inductive'
<1> DEFINE s == worker[w].stage
<1>1. now' = now /\ now \in Nat /\ worker' = worker /\ run_status' = run_status
      /\ worker[w].pc \in {"claimed", "running"}
  BY DEF RenewLease, Serving, Inductive, TypeOK
<1>2. PICK t \in Nat : /\ t <= now
                       /\ HoldsStage(w, t)
                       /\ stages' = [stages EXCEPT ![s] = Renewed(@, t)]
  <2>1. stages[s].lease_expires_at \in Int
    <3>1. s \in Stage /\ stages[s] \in StageRecord
      BY <1>1 DEF Inductive, TypeOK
    <3>2. QED
      BY <3>1 DEF StageRecord, Time, None
  <2>2. \A t \in (stages[s].lease_expires_at - LeaseTicks + RenewTicks) .. now : t <= now
    BY <1>1, <2>1
  <2>3. QED
    BY <2>2 DEF RenewLease
<1> DEFINE x == Renewed(stages[s], t)
<1>3. s \in Stage /\ stages[s] \in StageRecord /\ stages[s].status = "running"
      /\ Frontier(s) /\ Sound(stages[s], now)
  BY <1>1, <1>2, HolderIsRunning
<1>4. x \in StageRecord /\ Sound(x, now)
  BY <1>1, <1>2, <1>3, RenewedType, RenewedSound
<1>5. x.status = "running" /\ x.lease_generation = stages[s].lease_generation
  BY <1>3 DEF Renewed, StageRecord
<1>6. run_status = "running"
  BY <1>3 DEF Inductive, RunStatusMirrorsStages
<1>7. StatusFits(run_status', x, s)
  BY <1>1, <1>5, <1>6 DEF StatusFits
<1>8. Settled
  BY <1>1, <1>2, <1>3, <1>4, <1>7, FrontierStep DEF Settled
<1>9. \A q \in Stage : stages'[q].lease_generation = stages[q].lease_generation
  BY <1>2, <1>3, <1>5 DEF Inductive, TypeOK
<1>10. worker'[w].pc # "found" /\ Serving(w)
  BY <1>1 DEF Serving
<1>11. QED
  BY <1>1, <1>8, <1>9, <1>10, WorkerStep

\* Time passes: deadlines come closer, nothing else changes.
LEMMA TickStep ==
    ASSUME Inductive, TypeOK', Tick
    PROVE  Inductive'
<1>1. now \in Nat /\ now' = now + 1 /\ UNCHANGED << run_status, stages, worker >>
  BY DEF Tick, durable, Inductive, TypeOK
<1>2. \A s \in Stage : Sound(stages[s], now) => Sound(stages[s], now + 1)
  BY <1>1 DEF Sound, WithinReach
<1>3. \A s \in Stage : Sound(stages'[s], now')
  BY <1>1, <1>2 DEF Inductive
<1>4. StagesInOrder' /\ RunStatusMirrorsStages'
  BY <1>1 DEF Inductive, StagesInOrder, RunStatusMirrorsStages
<1>5. LeasesAreExclusive'
  BY <1>1 DEF Inductive, LeasesAreExclusive, Serving
<1>6. QED
  BY <1>3, <1>4, <1>5 DEF Inductive

LEMMA InductiveStep ==
    ASSUME Inductive, [Next]_vars
    PROVE  Inductive'
<1>0. TypeOK'
  BY TypeStep DEF Inductive
<1>1. ASSUME NEW w \in Process, AdvanceRun(w)
      PROVE  Inductive'
  <2>1. worker'[w].pc = "scanning" /\ \A v \in Process : v # w => worker'[v] = worker[v]
    BY <1>1 DEF AdvanceRun, Inductive, TypeOK, WorkerState
  <2>2. QED
    BY <1>0, <1>1, <2>1, QueueNextReadySettled, WorkerStep DEF AdvanceRun
<1>2. ASSUME NEW w \in Process, FindJob(w)
      PROVE  Inductive'
  <2>1. UNCHANGED durable /\ now' = now
    BY <1>2 DEF FindJob
  <2>2. ASSUME NEW s \in Stage, DependenciesComplete(stages, s),
               Proceed(w, "found", s, 0)
        PROVE  Inductive'
    <3>1. worker'[w] = [pc |-> "found", stage |-> s, lease_generation |-> 0,
                        since |-> now]
          /\ \A v \in Process : v # w => worker'[v] = worker[v]
      BY <2>2, MovedOnly DEF Proceed
    <3>2. stages' = stages
      BY <2>1 DEF durable
    <3>3. QED
      BY <1>0, <2>1, <2>2, <3>1, <3>2, NoChangeSettled, WorkerStep
  <2>3. ASSUME Rest(w)
        PROVE  Inductive'
    <3>1. worker'[w] = Idle /\ \A v \in Process : v # w => worker'[v] = worker[v]
      BY <2>3, MovedOnly DEF Rest
    <3>2. QED
      BY <1>0, <2>1, <3>1, NoChangeSettled, WorkerStep DEF Idle, durable
  <2>4. QED
    BY <1>2, <2>2, <2>3 DEF FindJob
<1>3. ASSUME NEW w \in Process, ClaimJob(w)
      PROVE  Inductive'
  BY <1>0, <1>3, ClaimJobStep
<1>4. ASSUME NEW w \in Process, BeginStage(w)
      PROVE  Inductive'
  <2>1. UNCHANGED durable /\ now' = now /\ Serving(w)
    BY <1>4 DEF BeginStage, Serving
  <2>2. PICK pc \in {"running", "returned"} :
           Proceed(w, pc, worker[w].stage, worker[w].lease_generation)
    BY <1>4 DEF BeginStage, Goto
  <2>3. worker'[w] = [pc |-> pc, stage |-> worker[w].stage, since |-> now,
                      lease_generation |-> worker[w].lease_generation]
        /\ \A v \in Process : v # w => worker'[v] = worker[v]
    BY <2>2, MovedOnly DEF Proceed
  <2>4. QED
    BY <1>0, <2>1, <2>3, NoChangeSettled, WorkerStep DEF durable
<1>5. ASSUME NEW w \in Process, CompleteStage(w)
      PROVE  Inductive'
  BY <1>0, <1>5, CompleteStageStep
<1>6. ASSUME NEW w \in Process, FailStage(w)
      PROVE  Inductive'
  BY <1>0, <1>6, FailStageStep
<1>7. ASSUME NEW w \in Process, AdvanceAfter(w)
      PROVE  Inductive'
  <2>1. worker'[w] = Idle /\ \A v \in Process : v # w => worker'[v] = worker[v]
    BY <1>7, MovedOnly DEF AdvanceAfter, Rest
  <2>2. Settled /\ \A q \in Stage :
                      stages'[q].lease_generation = stages[q].lease_generation
    BY <1>7, QueueNextReadySettled, NoChangeSettled DEF AdvanceAfter, durable
  <2>3. QED
    BY <1>0, <2>1, <2>2, WorkerStep DEF Idle
<1>8. ASSUME NEW w \in Process, RenewLease(w)
      PROVE  Inductive'
  BY <1>0, <1>8, RenewLeaseStep
<1>9. ASSUME NEW w \in Process, Abandon(w)
      PROVE  Inductive'
  <2>1. worker'[w] = Idle /\ \A v \in Process : v # w => worker'[v] = worker[v]
    BY <1>9, MovedOnly DEF Abandon, Rest
  <2>2. QED
    BY <1>0, <1>9, <2>1, NoChangeSettled, WorkerStep DEF Abandon, Idle, durable
<1>10. ASSUME Tick
       PROVE  Inductive'
  BY <1>0, <1>10, TickStep
<1>11. ASSUME UNCHANGED vars
       PROVE  Inductive'
  BY <1>0, <1>11 DEF vars, Inductive, StagesInOrder, RunStatusMirrorsStages,
     LeasesAreExclusive, Serving
<1>12. QED
  BY <1>1, <1>2, <1>3, <1>4, <1>5, <1>6, <1>7, <1>8, <1>9, <1>10, <1>11
     DEF Next, Step

LEMMA InductiveInvariant == Spec => []Inductive
<1>1. Init => Inductive
  <2> SUFFICES ASSUME Init PROVE Inductive
    OBVIOUS
  <2>1. << >> \in Seq(Attempt) /\ Len(<< >>) = 0
    OBVIOUS
  <2>2. NewRecord \in StageRecord
    BY <2>1 DEF NewRecord, StageRecord, StageStatus, Time, None
  <2>3. TypeOK
    BY <2>2 DEF Init, TypeOK, RunStatus, Idle, WorkerState, Phase, NoStage
  <2>4. \A s \in Stage : stages[s] = NewRecord
    BY DEF Init
  <2>5. Sound(NewRecord, now)
    BY <2>1 DEF NewRecord, Sound, Ledger, Bounded, WithinReach
  <2>6. Stage # {}
    BY DEF Stage
  <2>7. RunStatusMirrorsStages
    BY <2>4, <2>6 DEF Init, RunStatusMirrorsStages, NewRecord
  <2>8. StagesInOrder /\ LeasesAreExclusive
    BY <2>4 DEF Init, StagesInOrder, LeasesAreExclusive, Serving, Idle, NewRecord
  <2>9. QED
    BY <2>3, <2>4, <2>5, <2>7, <2>8 DEF Inductive
<1>2. Inductive /\ [Next]_vars => Inductive'
  BY InductiveStep
<1>3. QED
  BY <1>1, <1>2, PTL DEF Spec

-----------------------------------------------------------------------------
(* The theorems about states.                                               *)

\* No stage starts before its predecessors are complete, and at most one stage
\* of a run is active (_next_ready_stage, _dependencies_complete, claim_job).
THEOREM OrderTheorem == Spec => []StagesInOrder
<1>1. Inductive => StagesInOrder
  BY DEF Inductive
<1>2. QED
  BY <1>1, InductiveInvariant, PTL

\* The reported run status always agrees with the stages.
THEOREM RunStatusTheorem == Spec => []RunStatusMirrorsStages
<1>1. Inductive => RunStatusMirrorsStages
  BY DEF Inductive
<1>2. QED
  BY <1>1, InductiveInvariant, PTL

\* Every claim has exactly one ledger entry, closed unless the stage is running.
THEOREM LedgerTheorem == Spec => []AttemptLedger
<1>1. Inductive => AttemptLedger
  BY DEF Inductive, Sound, AttemptLedger
<1>2. QED
  BY <1>1, InductiveInvariant, PTL

\* Fencing: among any number of workers that believe they own a stage, the
\* tokens are distinct, so at most one holds the current token.
THEOREM FencingTheorem == Spec => []LeasesAreExclusive
<1>1. Inductive => LeasesAreExclusive
  BY DEF Inductive
<1>2. QED
  BY <1>1, InductiveInvariant, PTL

\* Attempts never exceed the allowance and queued work has one left.
THEOREM BoundedTheorem == Spec => []AttemptsBounded
<1>1. Inductive => AttemptsBounded
  BY DEF Inductive, Sound, AttemptsBounded
<1>2. QED
  BY <1>1, InductiveInvariant, PTL

\* An active stage becomes claimable after at most one lease or one backoff.
THEOREM ReachTheorem == Spec => []NeverStranded
<1>1. Inductive => NeverStranded
  BY DEF Inductive, Sound, NeverStranded
<1>2. QED
  BY <1>1, InductiveInvariant, PTL

-----------------------------------------------------------------------------
(* The theorems about steps.                                                *)

\* Every change of the manifest replaces the record of a stage that is neither
\* complete nor failed, in a run that is neither rendered nor failed.
Live(s) ==
    /\ Frontier(s)
    /\ stages[s].status # "failed"

LEMMA LiveRun ==
    ASSUME Inductive, NEW s \in Stage, Live(s)
    PROVE  run_status \notin {"rendered", "failed"}
<1>1. \A q \in Stage : q # s => stages[q].status \in {"completed", "pending"}
  BY AroundFrontier DEF Live, Stage
<1>2. QED
  BY <1>1 DEF Live, Frontier, Inductive, RunStatusMirrorsStages

Change(s) == Live(s) /\ \E x : stages' = [stages EXCEPT ![s] = x]

LEMMA StepChanges ==
    ASSUME Inductive, [Next]_vars
    PROVE  UNCHANGED durable \/ \E s \in Stage : Change(s)
<1>1. QueueNextReady => UNCHANGED durable \/ \E s \in Stage : Change(s)
  BY NextReadyIsFrontier DEF QueueNextReady, Change, Live, IsNextReady
<1>2. ASSUME NEW w \in Process, ClaimJob(w)
      PROVE  UNCHANGED durable \/ \E s \in Stage : Change(s)
  <2> DEFINE s == worker[w].stage
  <2>1. s \in Stage /\ DependenciesComplete(stages, s)
    BY <1>2 DEF ClaimJob, Inductive, TypeOK, StagesInOrder
  <2>2. ASSUME NEW t, IsClaimable(stages[s], t)
        PROVE  Live(s)
    BY <2>1, <2>2 DEF IsClaimable, Live, Frontier
  <2>3. QED
    BY <1>2, <2>1, <2>2 DEF ClaimJob, Grant, Retire, Change
<1>3. ASSUME NEW w \in Process, worker[w].pc \in {"claimed", "running"},
             NEW t \in Nat, HoldsStage(w, t)
      PROVE  worker[w].stage \in Stage /\ Live(worker[w].stage)
  BY <1>3, HolderIsRunning DEF Live
<1>4. ASSUME NEW w \in Process, CompleteStage(w)
      PROVE  UNCHANGED durable \/ \E s \in Stage : Change(s)
  BY <1>3, <1>4, MomentsAreTimes DEF CompleteStage, Change, Inductive
<1>5. ASSUME NEW w \in Process, FailStage(w)
      PROVE  UNCHANGED durable \/ \E s \in Stage : Change(s)
  BY <1>3, <1>5, MomentsAreTimes DEF FailStage, Change, Inductive
<1>6. ASSUME NEW w \in Process, RenewLease(w)
      PROVE  UNCHANGED durable \/ \E s \in Stage : Change(s)
  BY <1>3, <1>6 DEF RenewLease, Serving, Change
<1>7. QED
  BY <1>1, <1>2, <1>4, <1>5, <1>6
     DEF Next, Step, vars, durable, AdvanceRun, FindJob, BeginStage, AdvanceAfter,
         Abandon, Tick

\* Completed stages and failed runs are final: completed work is never redone.
THEOREM FinalityTheorem == Spec => OutcomesAreFinal
<1>1. ASSUME Inductive, [Next]_vars
      PROVE  [OutcomesKept]_vars
  <2>1. CASE UNCHANGED durable
    BY <2>1 DEF OutcomesKept, durable
  <2>2. ASSUME NEW s \in Stage, Change(s)
        PROVE  OutcomesKept
    <3>1. stages[s].status \notin {"completed", "failed"}
      BY <2>2 DEF Change, Live, Frontier
    <3>2. \A q \in Stage : q # s => stages'[q] = stages[q]
      BY <1>1, <2>2 DEF Change, Inductive, TypeOK
    <3>3. run_status \notin {"rendered", "failed"}
      BY <1>1, <2>2, LiveRun DEF Change
    <3>4. QED
      BY <3>1, <3>2, <3>3 DEF OutcomesKept
  <2>3. QED
    BY <1>1, <2>1, <2>2, StepChanges
<1>2. QED
  BY <1>1, InductiveInvariant, PTL DEF Spec, OutcomesAreFinal

-----------------------------------------------------------------------------
(* The worker protocol implements Pipeline.                                 *)

Delivered == {s \in Stage : stages[s].status = "completed"}
Active == {s \in Stage : stages[s].status = "running"}
Tries == [s \in Stage |-> stages[s].attempt_count]

\* How a change at the frontier looks through the refinement mapping.
LEMMA FrontierMapped ==
    ASSUME Inductive, NEW s \in Stage, Frontier(s), NEW x \in StageRecord,
           stages' = [stages EXCEPT ![s] = x]
    PROVE  /\ Delivered = 1 .. (s - 1)
           /\ Active = IF stages[s].status = "running" THEN {s} ELSE {}
           /\ Delivered' = IF x.status = "completed" THEN Delivered \cup {s} ELSE Delivered
           /\ Active' = IF x.status = "running" THEN {s} ELSE {}
           /\ Tries' = [Tries EXCEPT ![s] = x.attempt_count]
<1>1. \A q \in Stage : /\ q < s => stages[q].status = "completed"
                       /\ q > s => stages[q].status = "pending"
  BY AroundFrontier
<1>2. stages'[s] = x /\ \A q \in Stage : q # s => stages'[q] = stages[q]
  BY DEF Inductive, TypeOK
<1>3. s \in Nat /\ \A q \in Stage : q \in Nat /\ (q = s \/ q < s \/ q > s)
  BY DEF Stage
<1>4. \A q : q \in 1 .. (s - 1) <=> (q \in Stage /\ q < s)
  BY DEF Stage
<1>5. Delivered = 1 .. (s - 1)
  <2>1. \A q \in Stage : stages[q].status = "completed" <=> q < s
    BY <1>1, <1>3 DEF Frontier
  <2>2. QED
    BY <1>4, <2>1 DEF Delivered
<1>6. Active = IF stages[s].status = "running" THEN {s} ELSE {}
  BY <1>1, <1>3 DEF Active
<1>7. Delivered' = IF x.status = "completed" THEN Delivered \cup {s} ELSE Delivered
  BY <1>2 DEF Delivered, Frontier
<1>8. Active' = IF x.status = "running" THEN {s} ELSE {}
  BY <1>1, <1>2, <1>3 DEF Active
<1>9. Tries' = [Tries EXCEPT ![s] = x.attempt_count]
  <2>1. [Tries EXCEPT ![s] = x.attempt_count] =
           [q \in Stage |-> IF q = s THEN x.attempt_count ELSE stages[q].attempt_count]
    BY DEF Tries
  <2>2. Tries' = [q \in Stage |-> stages'[q].attempt_count]
    BY DEF Tries
  <2>3. \A q \in Stage : stages'[q].attempt_count =
           IF q = s THEN x.attempt_count ELSE stages[q].attempt_count
    BY <1>2
  <2>4. QED
    BY <2>1, <2>2, <2>3
<1>10. QED
  BY <1>5, <1>6, <1>7, <1>8, <1>9

Mapped == Promise!Next \/ UNCHANGED Promise!vars

LEMMA MappedStutter ==
    ASSUME Delivered' = Delivered, Active' = Active, Tries' = Tries,
           run_status' = "failed" <=> run_status = "failed"
    PROVE  UNCHANGED Promise!vars
<1>1. (run_status' = "failed") = (run_status = "failed")
  OBVIOUS
<1>2. QED
  BY <1>1 DEF Promise!vars, Delivered, Active, Tries

LEMMA MappedTry ==
    ASSUME NEW s \in Stage, run_status # "failed", run_status' # "failed",
           Delivered = 1 .. (s - 1), Active \subseteq {s}, Tries[s] < MaxAttempts,
           Delivered' = Delivered, Active' = {s},
           Tries' = [Tries EXCEPT ![s] = @ + 1]
    PROVE  Mapped
<1>1. Promise!Try(s)
  BY DEF Promise!Try, Delivered, Active, Tries
<1>2. QED
  BY <1>1 DEF Mapped, Promise!Next, Promise!Stage, Stage

LEMMA MappedRelease ==
    ASSUME NEW s \in Stage, run_status # "failed", run_status' # "failed",
           Active = {s}, Active' = {}, Tries[s] < MaxAttempts,
           Delivered' = Delivered, Tries' = Tries
    PROVE  Mapped
<1>1. Promise!Release(s)
  BY DEF Promise!Release, Delivered, Active, Tries
<1>2. QED
  BY <1>1 DEF Mapped, Promise!Next, Promise!Stage, Stage

LEMMA MappedDeliver ==
    ASSUME NEW s \in Stage, run_status # "failed", run_status' # "failed",
           Active = {s}, Active' = {}, Delivered' = Delivered \cup {s},
           Tries' = Tries
    PROVE  Mapped
<1>1. Promise!Deliver(s)
  BY DEF Promise!Deliver, Delivered, Active, Tries
<1>2. QED
  BY <1>1 DEF Mapped, Promise!Next, Promise!Stage, Stage

LEMMA MappedStop ==
    ASSUME NEW s \in Stage, run_status' = "failed", Active = {s}, Active' = {},
           Delivered' = Delivered, Tries' = Tries
    PROVE  Mapped
<1>1. Promise!Stop(s)
  BY DEF Promise!Stop, Delivered, Active, Tries
<1>2. QED
  BY <1>1 DEF Mapped, Promise!Next, Promise!Stage, Stage

\* A change that moves no stage into or out of completed, running and failed
\* and starts no attempt is a stutter of the pipeline.
LEMMA InvisibleChange ==
    ASSUME Inductive, NEW s \in Stage, Live(s), NEW x \in StageRecord,
           stages' = [stages EXCEPT ![s] = x],
           x.attempt_count = stages[s].attempt_count,
           x.status # "completed",
           x.status = "running" <=> stages[s].status = "running",
           run_status' # "failed"
    PROVE  UNCHANGED Promise!vars
<1>1. /\ Delivered' = Delivered /\ Active' = Active
      /\ Tries' = [Tries EXCEPT ![s] = stages[s].attempt_count]
  BY FrontierMapped DEF Live
<1>2. Tries' = Tries
  BY <1>1 DEF Tries
<1>3. run_status # "failed"
  BY LiveRun
<1>4. QED
  BY <1>1, <1>2, <1>3, MappedStutter

LEMMA DurableMapped ==
    ASSUME UNCHANGED durable
    PROVE  UNCHANGED Promise!vars
  BY MappedStutter DEF durable, Delivered, Active, Tries

LEMMA QueueNextReadyMapped ==
    ASSUME Inductive, QueueNextReady
    PROVE  UNCHANGED Promise!vars
<1>1. ASSUME NEW s \in Stage, IsNextReady(run_status, stages, s),
             stages' = [stages EXCEPT ![s] = AutoQueued(@)], run_status' = "queued"
      PROVE  UNCHANGED Promise!vars
  <2>1. stages[s] \in StageRecord
    BY DEF Inductive, TypeOK
  <2>2. AutoQueued(stages[s]) \in StageRecord
        /\ AutoQueued(stages[s]).status = "queued"
        /\ AutoQueued(stages[s]).attempt_count = stages[s].attempt_count
    BY <2>1, AutoQueuedType DEF AutoQueued, StageRecord
  <2>3. stages[s].status \in {"pending", "invalidated"} /\ Live(s)
    BY <1>1, NextReadyIsFrontier DEF IsNextReady, Live
  <2>4. QED
    BY <1>1, <2>2, <2>3, InvisibleChange
<1>2. QED
  BY <1>1, DurableMapped DEF QueueNextReady

LEMMA ClaimJobMapped ==
    ASSUME Inductive, NEW w \in Process, ClaimJob(w)
    PROVE  Mapped
<1> DEFINE s == worker[w].stage
           r == stages[s]
           a == Abandoned(r)
<1>1. s \in Stage /\ r \in StageRecord /\ Sound(r, now) /\ DependenciesComplete(stages, s)
  BY DEF ClaimJob, Inductive, TypeOK, StagesInOrder
<1>2. a \in StageRecord /\ a.attempt_count = r.attempt_count
      /\ a.max_attempts = r.max_attempts
  BY <1>1, AbandonedType
<1>3. Tries[s] = r.attempt_count /\ r.max_attempts = MaxAttempts
      /\ r.attempt_count \in Nat
  BY <1>1 DEF Tries, Sound, Bounded, StageRecord
<1>4. ASSUME NEW t \in Moments(w), IsClaimable(r, t), Grant(w, s, t)
      PROVE  Mapped
  <2> DEFINE x == Claimed(a, Identity[w], t)
  <2>1. t \in Nat
    BY MomentsAreTimes DEF Inductive
  <2>2. x \in StageRecord
    BY <1>2, <2>1, ClaimedType
  <2>3. x.status = "running" /\ x.attempt_count = r.attempt_count + 1
    BY <1>2 DEF Claimed, StageRecord
  <2>4. Live(s) /\ stages' = [stages EXCEPT ![s] = x] /\ run_status' = "running"
        /\ r.attempt_count < MaxAttempts
    BY <1>1, <1>2, <1>3, <1>4 DEF IsClaimable, Live, Frontier, Grant
  <2>5. /\ Delivered = 1 .. (s - 1) /\ Active \subseteq {s}
        /\ Delivered' = Delivered /\ Active' = {s}
        /\ Tries' = [Tries EXCEPT ![s] = r.attempt_count + 1]
    BY <1>1, <2>2, <2>3, <2>4, FrontierMapped DEF Live
  <2>6. run_status # "failed"
    BY <1>1, <2>4, LiveRun
  <2>7. QED
    BY <1>1, <1>3, <2>4, <2>5, <2>6, MappedTry
<1>5. ASSUME NEW t \in Moments(w), IsClaimable(r, t), Retire(w, s)
      PROVE  Mapped
  <2> DEFINE x == Exhausted(a)
  <2>1. x \in StageRecord /\ x.status = "failed" /\ x.attempt_count = r.attempt_count
    BY <1>2, ExhaustedType DEF Exhausted, StageRecord
  <2>2. stages' = [stages EXCEPT ![s] = x] /\ run_status' = "failed"
        /\ ~(r.attempt_count < r.max_attempts)
    BY <1>1, <1>2, <1>5 DEF Retire, StageRecord
  <2>3. r.status = "running" /\ Live(s)
    BY <1>1, <1>5, <2>2 DEF IsClaimable, Sound, Bounded, Live, Frontier
  <2>4. /\ Active = {s} /\ Delivered' = Delivered /\ Active' = {}
        /\ Tries' = [Tries EXCEPT ![s] = r.attempt_count]
    BY <1>1, <2>1, <2>2, <2>3, FrontierMapped DEF Live
  <2>5. Tries' = Tries
    BY <1>3, <2>4 DEF Tries
  <2>6. QED
    BY <1>1, <2>2, <2>4, <2>5, MappedStop
<1>6. QED
  BY <1>4, <1>5, DurableMapped DEF ClaimJob, Mapped

LEMMA CompleteStageMapped ==
    ASSUME Inductive, NEW w \in Process, CompleteStage(w)
    PROVE  Mapped
<1> DEFINE s == worker[w].stage
           x == Completed(stages[s])
<1>1. ASSUME NEW t \in Moments(w), HoldsStage(w, t),
             stages' = [stages EXCEPT ![s] = Completed(@)],
             run_status' = StageRunStatus(s)
      PROVE  Mapped
  <2>1. t \in Nat /\ worker[w].pc = "running"
    BY MomentsAreTimes DEF Inductive, CompleteStage
  <2>2. s \in Stage /\ stages[s] \in StageRecord /\ stages[s].status = "running"
        /\ Frontier(s)
    BY <1>1, <2>1, HolderIsRunning
  <2>3. x \in StageRecord /\ x.status = "completed"
        /\ x.attempt_count = stages[s].attempt_count
    BY <2>2, CompletedType DEF Completed, StageRecord
  <2>4. stages' = [stages EXCEPT ![s] = x]
    BY <1>1
  <2>5. /\ Active = {s} /\ Delivered' = Delivered \cup {s} /\ Active' = {}
        /\ Tries' = [Tries EXCEPT ![s] = stages[s].attempt_count]
    BY <2>2, <2>3, <2>4, FrontierMapped
  <2>6. Tries' = Tries
    BY <2>2, <2>5 DEF Tries
  <2>7. run_status # "failed" /\ run_status' # "failed"
    BY <1>1, <2>2, LiveRun DEF Live, StageRunStatus
  <2>8. QED
    BY <2>2, <2>5, <2>6, <2>7, MappedDeliver
<1>2. QED
  BY <1>1, DurableMapped DEF CompleteStage, Mapped

LEMMA FailStageMapped ==
    ASSUME Inductive, NEW w \in Process, FailStage(w)
    PROVE  Mapped
<1> DEFINE s == worker[w].stage
<1>1. ASSUME NEW t \in Moments(w), NEW b \in BOOLEAN, HoldsStage(w, t),
             stages' = [stages EXCEPT ![s] = FailedRecord(@, b, t)],
             run_status' = IF CanRetry(stages[s], b) THEN "queued" ELSE "failed"
      PROVE  Mapped
  <2> DEFINE x == FailedRecord(stages[s], b, t)
  <2>1. t \in Nat /\ worker[w].pc = "running"
    BY MomentsAreTimes DEF Inductive, FailStage
  <2>2. s \in Stage /\ stages[s] \in StageRecord /\ stages[s].status = "running"
        /\ Frontier(s) /\ Sound(stages[s], now)
    BY <1>1, <2>1, HolderIsRunning
  <2>3. x \in StageRecord /\ x.attempt_count = stages[s].attempt_count
        /\ x.status = IF CanRetry(stages[s], b) THEN "queued" ELSE "failed"
    <3>1. x \in StageRecord
      BY <2>1, <2>2, FailedRecordType
    <3>2. QED
      BY <2>2, <3>1 DEF FailedRecord, StageRecord
  <2>4. stages' = [stages EXCEPT ![s] = x] /\ x.status \notin {"completed", "running"}
    BY <1>1, <2>3
  <2>5. /\ Active = {s} /\ Delivered' = Delivered /\ Active' = {}
        /\ Tries' = [Tries EXCEPT ![s] = stages[s].attempt_count]
    BY <2>2, <2>3, <2>4, FrontierMapped
  <2>6. Tries' = Tries /\ Tries[s] = stages[s].attempt_count
    BY <2>2, <2>5 DEF Tries
  <2>7. run_status # "failed"
    BY <2>2, LiveRun DEF Live
  <2>8. CASE CanRetry(stages[s], b)
    <3>1. stages[s].attempt_count < MaxAttempts
      BY <2>2, <2>8 DEF CanRetry, Sound, Bounded
    <3>2. QED
      BY <1>1, <2>2, <2>5, <2>6, <2>7, <2>8, <3>1, MappedRelease
  <2>9. CASE ~CanRetry(stages[s], b)
    <3>1. QED
      BY <1>1, <2>2, <2>5, <2>6, <2>9, MappedStop
  <2>10. QED
    BY <2>8, <2>9
<1>2. QED
  BY <1>1, DurableMapped DEF FailStage, Mapped

LEMMA RenewLeaseMapped ==
    ASSUME Inductive, NEW w \in Process, RenewLease(w)
    PROVE  UNCHANGED Promise!vars
<1> DEFINE s == worker[w].stage
<1>1. PICK t \in Nat : HoldsStage(w, t) /\ stages' = [stages EXCEPT ![s] = Renewed(@, t)]
  BY DEF RenewLease
<1>2. worker[w].pc \in {"claimed", "running"} /\ run_status' = run_status
  BY DEF RenewLease, Serving
<1>3. s \in Stage /\ stages[s] \in StageRecord /\ stages[s].status = "running"
      /\ Frontier(s)
  BY <1>1, <1>2, HolderIsRunning
<1>4. Renewed(stages[s], t) \in StageRecord
      /\ Renewed(stages[s], t).status = "running"
      /\ Renewed(stages[s], t).attempt_count = stages[s].attempt_count
  BY <1>3, RenewedType DEF Renewed, StageRecord
<1>5. Live(s) /\ run_status # "failed"
  BY <1>3, LiveRun DEF Live
<1>6. QED
  BY <1>1, <1>2, <1>3, <1>4, <1>5, InvisibleChange

\* The worker protocol implements the pipeline it promises.
THEOREM RefinementTheorem == Spec => ImplementsPipeline
<1>1. Init => Promise!Init
  BY DEF Init, NewRecord, Promise!Init, Promise!Stage, Stage
<1>2. ASSUME Inductive, [Next]_vars
      PROVE  [Promise!Next]_(Promise!vars)
  <2>1. ASSUME NEW w \in Process, Step(w)
        PROVE  Mapped
    BY <1>2, <2>1, QueueNextReadyMapped, ClaimJobMapped, CompleteStageMapped,
       FailStageMapped, DurableMapped
       DEF Step, Mapped, AdvanceRun, FindJob, BeginStage, AdvanceAfter
  <2>2. ASSUME NEW w \in Process, RenewLease(w)
        PROVE  Mapped
    BY <1>2, <2>2, RenewLeaseMapped DEF Mapped
  <2>3. ASSUME UNCHANGED durable
        PROVE  Mapped
    BY <2>3, DurableMapped DEF Mapped
  <2>4. Mapped
    BY <1>2, <2>1, <2>2, <2>3 DEF Next, Abandon, Tick, vars, durable
  <2>5. QED
    BY <2>4 DEF Mapped
<1>3. QED
  BY <1>1, <1>2, InductiveInvariant, PTL DEF Spec, ImplementsPipeline, Promise!Spec

-----------------------------------------------------------------------------
(* Only its owner ends an attempt with a result.                            *)

\* Reclaiming marks the open attempt as expired, whatever is appended after it.
LEMMA ReclaimExpires ==
    ASSUME NEW r \in StageRecord, Ledger(r), NEW n \in Nat, n = Len(r.attempts),
           n > 0, r.attempts[n].status = "running", NEW w \in Worker, NEW t \in Nat
    PROVE  /\ Claimed(Abandoned(r), w, t).attempts[n].status = "lease_expired"
           /\ Exhausted(Abandoned(r)).attempts[n].status = "lease_expired"
<1> DEFINE a == Abandoned(r)
           entry == [status |-> "running", lease_generation |-> a.lease_generation + 1]
<1>1. r.attempts \in Seq(Attempt) /\ n \in 1 .. Len(r.attempts) /\ r.attempts # << >>
  BY DEF StageRecord
<1>2. r.status = "running"
  BY <1>1 DEF Ledger
<1>3. a.attempts = Closed(r.attempts, "lease_expired")
  BY <1>1, <1>2 DEF Abandoned, StageRecord
<1>4. a.attempts \in Seq(Attempt) /\ Len(a.attempts) = n
      /\ a.attempts[n].status = "lease_expired"
  <2> DEFINE c == Closed(r.attempts, "lease_expired")
  <2>1. /\ c \in Seq(Attempt) /\ Len(c) = Len(r.attempts)
        /\ \A i \in 1 .. Len(r.attempts) :
              c[i].status = IF i = Len(r.attempts) THEN "lease_expired"
                            ELSE r.attempts[i].status
    BY <1>1, ClosedHistory
  <2> HIDE DEF c
  <2>2. c[n].status = "lease_expired"
    BY <1>1, <2>1
  <2>3. a.attempts = c
    BY <1>3 DEF c
  <2>4. QED
    BY <2>1, <2>2, <2>3
<1>5. a \in StageRecord
  BY AbandonedType
<1>6. Claimed(a, w, t).attempts = Append(a.attempts, entry)
      /\ Exhausted(a).attempts = a.attempts
  BY <1>5 DEF Claimed, Exhausted, StageRecord
<1>7. QED
  BY <1>1, <1>4, <1>6

LEMMA OwnerStep ==
    ASSUME Inductive, [Next]_vars, NEW s \in Stage,
           Len(stages[s].attempts) > 0,
           stages[s].attempts[Len(stages[s].attempts)].status = "running",
           stages'[s].attempts[Len(stages[s].attempts)].status \in {"completed", "failed"}
    PROVE  \E w \in Process :
              /\ worker[w].pc = "running" /\ worker'[w].pc = "returned"
              /\ worker[w].stage = s
              /\ worker[w].lease_generation =
                    stages[s].attempts[Len(stages[s].attempts)].lease_generation
<1> DEFINE r == stages[s]
           n == Len(r.attempts)
<1>1. r \in StageRecord /\ Ledger(r) /\ n \in Nat /\ n > 0 /\ n \in 1 .. n
  BY DEF Inductive, TypeOK, Sound, StageRecord
<1>2. stages'[s].attempts # r.attempts
  BY <1>1
<1>3. ~ UNCHANGED durable
  BY <1>2 DEF durable
<1>4. ~ QueueNextReady
  <2>1. ASSUME NEW q \in Stage, stages' = [stages EXCEPT ![q] = AutoQueued(@)]
        PROVE  stages'[s].attempts = r.attempts
    BY <1>1, <2>1 DEF AutoQueued, Inductive, TypeOK, StageRecord
  <2>2. QED
    BY <1>2, <1>3, <2>1 DEF QueueNextReady
<1>5. ~ \E w \in Process : ClaimJob(w)
  <2> SUFFICES ASSUME NEW w \in Process, ClaimJob(w) PROVE FALSE
    OBVIOUS
  <2>1. worker[w].stage \in Stage
    BY DEF ClaimJob, Inductive, TypeOK
  <2>2. PICK t \in Moments(w) : \/ Grant(w, worker[w].stage, t)
                                \/ Retire(w, worker[w].stage)
    BY <1>3 DEF ClaimJob
  <2>3. t \in Nat
    BY MomentsAreTimes DEF Inductive
  <2>4. CASE worker[w].stage # s
    BY <1>2, <2>1, <2>2, <2>4 DEF Grant, Retire, Inductive, TypeOK
  <2>5. CASE worker[w].stage = s
    <3>1. \/ stages'[s] = Claimed(Abandoned(r), Identity[w], t)
          \/ stages'[s] = Exhausted(Abandoned(r))
      BY <2>1, <2>2, <2>5 DEF Grant, Retire, Inductive, TypeOK
    <3>2. stages'[s].attempts[n].status = "lease_expired"
      BY <1>1, <2>3, <3>1, ReclaimExpires
    <3>3. QED
      BY <3>2
  <2>6. QED
    BY <2>4, <2>5
<1>6. ~ \E w \in Process : RenewLease(w)
  <2> SUFFICES ASSUME NEW w \in Process, RenewLease(w) PROVE FALSE
    OBVIOUS
  <2>1. PICK t \in Nat : stages' = [stages EXCEPT ![worker[w].stage] = Renewed(@, t)]
    BY DEF RenewLease
  <2>2. stages'[s].attempts = r.attempts
    BY <1>1, <2>1 DEF Renewed, Inductive, TypeOK, StageRecord
  <2>3. QED
    BY <1>2, <2>2
<1>7. PICK w \in Process : CompleteStage(w) \/ FailStage(w)
  BY <1>3, <1>4, <1>5, <1>6
     DEF Next, Step, vars, durable, AdvanceRun, FindJob, BeginStage, AdvanceAfter,
         Abandon, Tick
<1>8. /\ worker[w].pc = "running"
      /\ worker[w].stage \in Stage
      /\ Goto(w, "returned")
  BY <1>7 DEF CompleteStage, FailStage, Inductive, TypeOK
<1>9. worker'[w].pc = "returned"
  <2>1. worker'[w] = [pc |-> "returned", stage |-> worker[w].stage, since |-> now,
                      lease_generation |-> worker[w].lease_generation]
    BY <1>8, MovedOnly DEF Goto, Proceed
  <2>2. QED
    BY <2>1
<1>10. PICK t \in Moments(w) :
          /\ HoldsStage(w, t)
          /\ \A q \in Stage : q # worker[w].stage => stages'[q] = stages[q]
  BY <1>3, <1>7 DEF CompleteStage, FailStage, Inductive, TypeOK
<1>11. worker[w].stage = s
  BY <1>2, <1>10
<1>12. worker[w].lease_generation = r.lease_generation
  BY <1>10, <1>11 DEF HoldsStage, HoldsLease
<1>13. r.attempts[n].lease_generation = r.lease_generation
  BY <1>1 DEF Ledger
<1>14. QED
  BY <1>8, <1>9, <1>11, <1>12, <1>13

\* A worker that lost its lease never ends an attempt: results are published by
\* the worker to which the attempt was granted, or not at all.
THEOREM OwnershipTheorem == Spec => OwnerClosesAttempt
<1>1. ASSUME Inductive, [Next]_vars
      PROVE  [OwnerCloses]_vars
  BY <1>1, OwnerStep DEF OwnerCloses
<1>2. QED
  BY <1>1, InductiveInvariant, PTL DEF Spec, OwnerClosesAttempt

-----------------------------------------------------------------------------
(* What a step of the workers does from well-typed states alone, for the    *)
(* specifications in which others write the manifest too.                   *)

\* The records a worker makes of a record.
Transformed(r, x) ==
    \/ x = r
    \/ r.status \in {"pending", "invalidated"} /\ x = AutoQueued(r)
    \/ /\ r.status \in {"queued", "running"}
       /\ \/ \E i \in Worker, t \in Nat : x = Claimed(Abandoned(r), i, t)
          \/ x = Exhausted(Abandoned(r))
    \/ /\ r.status = "running"
       /\ \/ x = Completed(r)
          \/ \E b \in BOOLEAN, t \in Nat : x = FailedRecord(r, b, t)
          \/ \E t \in Nat : x = Renewed(r, t)

LEMMA QueueNextReadyTransforms ==
    ASSUME TypeOK, QueueNextReady, NEW s \in Stage
    PROVE  Transformed(stages[s], stages'[s])
<1>1. ASSUME NEW q \in Stage, IsNextReady(run_status, stages, q),
             stages' = [stages EXCEPT ![q] = AutoQueued(@)]
      PROVE  Transformed(stages[s], stages'[s])
  BY <1>1 DEF TypeOK, Transformed, IsNextReady
<1>2. QED
  BY <1>1 DEF QueueNextReady, Transformed, durable

LEMMA StepTransforms ==
    ASSUME TypeOK, [Next]_vars, NEW s \in Stage
    PROVE  Transformed(stages[s], stages'[s])
<1>1. UNCHANGED durable => Transformed(stages[s], stages'[s])
  BY DEF durable, Transformed
<1>2. ASSUME NEW w \in Process, NEW x, stages' = [stages EXCEPT ![worker[w].stage] = x],
             worker[w].stage = s => Transformed(stages[s], x)
      PROVE  Transformed(stages[s], stages'[s])
  BY <1>2 DEF TypeOK, Transformed
<1>3. ASSUME NEW w \in Process, ClaimJob(w)
      PROVE  Transformed(stages[s], stages'[s])
  <2> DEFINE a == Abandoned(stages[worker[w].stage])
  <2>1. ASSUME NEW t \in Moments(w), IsClaimable(stages[worker[w].stage], t)
        PROVE  /\ t \in Nat
               /\ stages[worker[w].stage].status \in {"queued", "running"}
    BY <2>1, MomentsAreTimes DEF IsClaimable
  <2>2. ASSUME NEW t \in Moments(w), IsClaimable(stages[worker[w].stage], t),
               stages' = [stages EXCEPT ![worker[w].stage] = Claimed(a, Identity[w], t)]
        PROVE  Transformed(stages[s], stages'[s])
    <3>1. Identity[w] \in Worker
      OBVIOUS
    <3>2. QED
      BY <1>2, <2>1, <2>2, <3>1 DEF Transformed
  <2>3. ASSUME NEW t \in Moments(w), IsClaimable(stages[worker[w].stage], t),
               stages' = [stages EXCEPT ![worker[w].stage] = Exhausted(a)]
        PROVE  Transformed(stages[s], stages'[s])
    BY <1>2, <2>1, <2>3 DEF Transformed
  <2>4. QED
    BY <1>1, <1>3, <2>2, <2>3 DEF ClaimJob, Grant, Retire
<1>4. ASSUME NEW w \in Process, CompleteStage(w)
      PROVE  Transformed(stages[s], stages'[s])
  <2>1. ASSUME NEW t \in Moments(w), HoldsStage(w, t),
               stages' = [stages EXCEPT ![worker[w].stage] = Completed(@)]
        PROVE  Transformed(stages[s], stages'[s])
    BY <1>2, <2>1 DEF Transformed, HoldsStage, HoldsLease
  <2>2. QED
    BY <1>1, <1>4, <2>1 DEF CompleteStage
<1>5. ASSUME NEW w \in Process, FailStage(w)
      PROVE  Transformed(stages[s], stages'[s])
  <2>1. ASSUME NEW t \in Moments(w), NEW b \in BOOLEAN, HoldsStage(w, t),
               stages' = [stages EXCEPT ![worker[w].stage] = FailedRecord(@, b, t)]
        PROVE  Transformed(stages[s], stages'[s])
    <3>1. t \in Nat
      BY <2>1, MomentsAreTimes
    <3>2. QED
      BY <1>2, <2>1, <3>1 DEF Transformed, HoldsStage, HoldsLease
  <2>2. QED
    BY <1>1, <1>5, <2>1 DEF FailStage
<1>6. ASSUME NEW w \in Process, RenewLease(w)
      PROVE  Transformed(stages[s], stages'[s])
  <2>1. ASSUME NEW t \in Nat, HoldsStage(w, t),
               stages' = [stages EXCEPT ![worker[w].stage] = Renewed(@, t)]
        PROVE  Transformed(stages[s], stages'[s])
    BY <1>2, <2>1 DEF Transformed, HoldsStage, HoldsLease
  <2>2. QED
    BY <1>6, <2>1 DEF RenewLease
<1>7. QED
  BY <1>1, <1>3, <1>4, <1>5, <1>6, QueueNextReadyTransforms
     DEF Next, Step, vars, durable, AdvanceRun, FindJob, BeginStage, AdvanceAfter,
         Abandon, Tick

\* The last attempt of a running stage is the one that is open.
Open(r) ==
    r.status = "running" =>
        r.attempts # << >> /\ r.attempts[Len(r.attempts)].status = "running"

\* A history is continued: entries are added, open ones closed.
Continues(a, b) ==
    /\ Len(a) <= Len(b)
    /\ \A i \in 1 .. Len(a) :
          /\ b[i].lease_generation = a[i].lease_generation
          /\ a[i].status # "running" => b[i] = a[i]

LEMMA ClosedContinues ==
    ASSUME NEW a \in Seq(Attempt), NEW how \in {"completed", "failed", "lease_expired"},
           a # << >>, a[Len(a)].status = "running"
    PROVE  Closed(a, how) \in Seq(Attempt) /\ Continues(a, Closed(a, how))
<1> DEFINE c == Closed(a, how)
<1>1. /\ c \in Seq(Attempt) /\ Len(c) = Len(a)
      /\ \A i \in 1 .. Len(a) :
            /\ c[i].lease_generation = a[i].lease_generation
            /\ c[i].status = IF i = Len(a) THEN how ELSE a[i].status
  BY ClosedHistory
<1>2. c = [a EXCEPT ![Len(a)] = [@ EXCEPT !.status = how]]
  BY DEF Closed
<1>3. \A i \in 1 .. Len(a) : i # Len(a) => c[i] = a[i]
  BY <1>2
<1>4. QED
  BY <1>1, <1>3 DEF Continues

LEMMA AppendedLast ==
    ASSUME NEW b \in Seq(Attempt), NEW entry \in Attempt
    PROVE  /\ Append(b, entry) # << >>
           /\ Append(b, entry)[Len(Append(b, entry))] = entry
<1>1. Len(Append(b, entry)) = Len(b) + 1 /\ Append(b, entry) \in Seq(Attempt)
  OBVIOUS
<1>2. QED
  BY <1>1

LEMMA AppendContinues ==
    ASSUME NEW a \in Seq(Attempt), NEW b \in Seq(Attempt), Continues(a, b),
           NEW entry \in Attempt
    PROVE  Append(b, entry) \in Seq(Attempt) /\ Continues(a, Append(b, entry))
  BY DEF Continues

LEMMA AbandonedContinues ==
    ASSUME NEW r \in StageRecord
    PROVE  /\ Abandoned(r) \in StageRecord
           /\ Continues(r.attempts, Abandoned(r).attempts)
<1>1. r.attempts \in Seq(Attempt)
  BY DEF StageRecord
<1>2. CASE Abandoned(r) = r
  BY <1>1, <1>2 DEF Continues
<1>3. CASE Abandoned(r) # r
  <2>1. r.attempts # << >> /\ r.attempts[Len(r.attempts)].status = "running"
    BY <1>3 DEF Abandoned
  <2>2. Abandoned(r).attempts = Closed(r.attempts, "lease_expired")
    BY <1>3 DEF Abandoned, StageRecord
  <2>3. QED
    BY <1>1, <2>1, <2>2, ClosedContinues, AbandonedType
<1>4. QED
  BY <1>2, <1>3

\* What a worker makes of a well-typed record whose open attempt is its last.
LEMMA TransformedRecord ==
    ASSUME NEW r \in StageRecord, NEW x, Transformed(r, x), Open(r)
    PROVE  /\ x \in StageRecord
           /\ Open(x)
           /\ Continues(r.attempts, x.attempts)
           /\ \/ x.lease_generation = r.lease_generation
              \/ x.lease_generation = r.lease_generation + 1
           /\ x.status = "running" =>
                 \/ r.status = "running" /\ x.lease_generation = r.lease_generation
                 \/ x.lease_generation = r.lease_generation + 1
<1>1. r.attempts \in Seq(Attempt) /\ r.lease_generation \in Nat
      /\ Continues(r.attempts, r.attempts)
  BY DEF StageRecord, Continues
<1>2. CASE x = r
  BY <1>1, <1>2
<1>3. CASE x = AutoQueued(r)
  <2>1. x.status = "queued" /\ x.attempts = r.attempts
        /\ x.lease_generation = r.lease_generation
    BY <1>3 DEF AutoQueued, StageRecord
  <2>2. QED
    BY <1>1, <1>3, <2>1, AutoQueuedType DEF Open
<1>4. ASSUME NEW i \in Worker, NEW t \in Nat, x = Claimed(Abandoned(r), i, t)
      PROVE  /\ x \in StageRecord /\ Open(x) /\ Continues(r.attempts, x.attempts)
             /\ x.lease_generation = r.lease_generation + 1
  <2> DEFINE a == Abandoned(r)
             entry == [status |-> "running", lease_generation |-> a.lease_generation + 1]
  <2>1. /\ a \in StageRecord /\ a.attempts \in Seq(Attempt)
        /\ a.lease_generation = r.lease_generation
        /\ Continues(r.attempts, a.attempts)
    BY AbandonedType, AbandonedContinues DEF StageRecord
  <2>2. /\ x.attempts = Append(a.attempts, entry) /\ x.status = "running"
        /\ x.lease_generation = a.lease_generation + 1
    BY <1>4, <2>1 DEF Claimed, StageRecord
  <2>3. entry \in Attempt
    BY <1>1, <2>1 DEF Attempt
  <2> HIDE DEF entry
  <2>4. x \in StageRecord
    BY <1>4, <2>1, ClaimedType
  <2>5. Continues(r.attempts, x.attempts)
    BY <1>1, <2>1, <2>2, <2>3, AppendContinues
  <2>6. x.attempts # << >> /\ x.attempts[Len(x.attempts)] = entry
    BY <2>1, <2>2, <2>3, AppendedLast
  <2>7. QED
    BY <2>1, <2>2, <2>4, <2>5, <2>6 DEF Open, entry
<1>5. CASE x = Exhausted(Abandoned(r))
  <2> DEFINE a == Abandoned(r)
  <2>1. /\ a \in StageRecord /\ a.lease_generation = r.lease_generation
        /\ Continues(r.attempts, a.attempts)
    BY AbandonedType, AbandonedContinues
  <2>2. x.attempts = a.attempts /\ x.status = "failed"
        /\ x.lease_generation = a.lease_generation
    BY <1>5, <2>1 DEF Exhausted, StageRecord
  <2>3. QED
    BY <1>5, <2>1, <2>2, ExhaustedType DEF Open
<1>6. CASE r.status = "running" /\ x = Completed(r)
  <2>1. x.attempts = Closed(r.attempts, "completed") /\ x.status = "completed"
        /\ x.lease_generation = r.lease_generation
    BY <1>6 DEF Completed, StageRecord
  <2>2. QED
    BY <1>1, <1>6, <2>1, CompletedType, ClosedContinues DEF Open
<1>7. ASSUME NEW b \in BOOLEAN, NEW t \in Nat, r.status = "running",
             x = FailedRecord(r, b, t)
      PROVE  /\ x \in StageRecord /\ Open(x) /\ Continues(r.attempts, x.attempts)
             /\ x.lease_generation = r.lease_generation /\ x.status # "running"
  <2>1. x.attempts = Closed(r.attempts, "failed") /\ x.status # "running"
        /\ x.lease_generation = r.lease_generation
    BY <1>7 DEF FailedRecord, StageRecord
  <2>2. QED
    BY <1>1, <1>7, <2>1, FailedRecordType, ClosedContinues DEF Open
<1>8. ASSUME NEW t \in Nat, r.status = "running", x = Renewed(r, t)
      PROVE  /\ x \in StageRecord /\ Open(x) /\ Continues(r.attempts, x.attempts)
             /\ x.lease_generation = r.lease_generation
  <2>1. x.attempts = r.attempts /\ x.status = "running"
        /\ x.lease_generation = r.lease_generation
    BY <1>8 DEF Renewed, StageRecord
  <2>2. QED
    BY <1>1, <1>8, <2>1, RenewedType DEF Open
<1>9. QED
  BY <1>2, <1>3, <1>4, <1>5, <1>6, <1>7, <1>8 DEF Transformed

-----------------------------------------------------------------------------
(* Fencing does not depend on what others do to the records.                *)

\* A worker enters the execution of its stage with a claim and begin_stage, and
\* carries its token unchanged.
LEMMA ServingComesFromAClaim ==
    ASSUME TypeOK, [Next]_vars, NEW w \in Process, Serving(w)'
    PROVE  \/ /\ Serving(w)
              /\ worker'[w].stage = worker[w].stage
              /\ worker'[w].lease_generation = worker[w].lease_generation
           \/ /\ worker[w].pc = "found"
              /\ \A v \in Process : v # w => worker'[v] = worker[v]
              /\ worker'[w].stage = worker[w].stage
              /\ worker'[w].pc = "claimed"
              /\ worker'[w].lease_generation =
                    stages[worker[w].stage].lease_generation + 1
              /\ stages'[worker[w].stage].lease_generation =
                    stages[worker[w].stage].lease_generation + 1
<1> USE DEF Serving
<1>1. CASE worker'[w] = worker[w]
  BY <1>1
<1>2. ASSUME NEW v \in Process, Rest(v)
      PROVE  worker'[v].pc = "idle" /\ \A u \in Process : u # v => worker'[u] = worker[u]
  BY <1>2 DEF Rest, Idle, TypeOK
<1>3. ASSUME NEW v \in Process, NEW pc, NEW s, NEW g, Proceed(v, pc, s, g)
      PROVE  /\ worker'[v].pc = pc /\ worker'[v].stage = s
             /\ worker'[v].lease_generation = g
             /\ \A u \in Process : u # v => worker'[u] = worker[u]
  BY <1>3 DEF Proceed, TypeOK
<1>4. ASSUME NEW v \in Process, AdvanceRun(v)
      PROVE  worker'[v].pc = "scanning" /\ \A u \in Process : u # v => worker'[u] = worker[u]
  BY <1>4 DEF AdvanceRun, TypeOK, WorkerState
<1>5. ASSUME NEW v \in Process, FindJob(v)
      PROVE  /\ worker'[v].pc \in {"idle", "found"}
             /\ \A u \in Process : u # v => worker'[u] = worker[u]
  BY <1>2, <1>3, <1>5 DEF FindJob
<1>6. ASSUME NEW v \in Process, NEW t, Grant(v, worker[v].stage, t), worker[v].pc = "found"
      PROVE  /\ worker'[v].pc = "claimed" /\ worker'[v].stage = worker[v].stage
             /\ worker'[v].lease_generation = stages[worker[v].stage].lease_generation + 1
             /\ stages'[worker[v].stage].lease_generation =
                   stages[worker[v].stage].lease_generation + 1
             /\ \A u \in Process : u # v => worker'[u] = worker[u]
  <2> DEFINE r == stages[worker[v].stage]
             a == Abandoned(r)
  <2>1. worker[v].stage \in Stage /\ r \in StageRecord
    BY <1>6 DEF TypeOK
  <2>2. a \in StageRecord /\ a.lease_generation = r.lease_generation
    BY <2>1, AbandonedType
  <2>3. Claimed(a, Identity[v], t).lease_generation = a.lease_generation + 1
    BY <2>2 DEF Claimed, StageRecord
  <2>4. stages'[worker[v].stage] = Claimed(a, Identity[v], t)
    BY <1>6, <2>1 DEF Grant, TypeOK
  <2>5. QED
    BY <1>3, <1>6, <2>2, <2>3, <2>4 DEF Grant
<1>7. ASSUME NEW v \in Process, ClaimJob(v)
      PROVE  \/ \E t : Grant(v, worker[v].stage, t) /\ worker[v].pc = "found"
             \/ Rest(v)
  BY <1>7 DEF ClaimJob, Retire
<1>8. ASSUME NEW v \in Process, BeginStage(v) \/ CompleteStage(v) \/ FailStage(v)
      PROVE  /\ Serving(v)
             /\ worker'[v].stage = worker[v].stage
             /\ worker'[v].lease_generation = worker[v].lease_generation
             /\ \A u \in Process : u # v => worker'[u] = worker[u]
  <2>1. PICK pc : Proceed(v, pc, worker[v].stage, worker[v].lease_generation)
    BY <1>8 DEF BeginStage, CompleteStage, FailStage, Goto
  <2>2. QED
    BY <1>3, <1>8, <2>1 DEF BeginStage, CompleteStage, FailStage
<1>9. ASSUME NEW v \in Process, AdvanceAfter(v) \/ Abandon(v)
       PROVE  Rest(v)
  BY <1>9 DEF AdvanceAfter, Abandon
<1>10. QED
  BY <1>1, <1>2, <1>4, <1>5, <1>6, <1>7, <1>8, <1>9
     DEF Next, Step, RenewLease, Tick, vars

LEMMA ExecutionBegins ==
    ASSUME TypeOK, [Next]_vars, NEW w \in Process,
           worker[w].pc # "running", worker'[w].pc = "running"
    PROVE  BeginStage(w)
<1>1. ASSUME NEW v \in Process, Rest(v)
      PROVE  worker'[v].pc = "idle" /\ \A u \in Process : u # v => worker'[u] = worker[u]
  BY <1>1 DEF Rest, Idle, TypeOK
<1>2. ASSUME NEW v \in Process, NEW pc, NEW s, NEW g, Proceed(v, pc, s, g)
      PROVE  worker'[v].pc = pc /\ \A u \in Process : u # v => worker'[u] = worker[u]
  BY <1>2 DEF Proceed, TypeOK
<1>3. ASSUME NEW v \in Process, Step(v), ~BeginStage(v)
      PROVE  /\ worker'[v].pc # "running"
             /\ \A u \in Process : u # v => worker'[u] = worker[u]
  <2>1. CASE AdvanceRun(v)
    BY <2>1 DEF AdvanceRun, TypeOK, WorkerState
  <2>2. CASE FindJob(v)
    BY <2>2, <1>1, <1>2 DEF FindJob
  <2>3. CASE ClaimJob(v)
    BY <2>3, <1>1, <1>2 DEF ClaimJob, Grant, Retire
  <2>4. CASE CompleteStage(v) \/ FailStage(v)
    BY <2>4, <1>2 DEF CompleteStage, FailStage, Goto
  <2>5. CASE AdvanceAfter(v)
    BY <2>5, <1>1 DEF AdvanceAfter
  <2>6. QED
    BY <1>3, <2>1, <2>2, <2>3, <2>4, <2>5 DEF Step
<1>4. ASSUME NEW v \in Process, BeginStage(v)
      PROVE  \A u \in Process : u # v => worker'[u] = worker[u]
  BY <1>2, <1>4 DEF BeginStage, Goto
<1>5. ASSUME NEW v \in Process, Abandon(v)
      PROVE  /\ worker'[v].pc # "running"
             /\ \A u \in Process : u # v => worker'[u] = worker[u]
  BY <1>1, <1>5 DEF Abandon
<1>6. QED
  BY <1>3, <1>4, <1>5 DEF Next, RenewLease, Tick, vars

\* The tokens stay exclusive, although others requeue stages meanwhile.
LEMMA FencingStep ==
    ASSUME TypeOK, LeasesAreExclusive, \A s \in Stage : Open(stages[s]), [Next]_vars
    PROVE  LeasesAreExclusive'
<1>1. \A s \in Stage : /\ stages[s].lease_generation \in Nat
                       /\ \/ stages'[s].lease_generation = stages[s].lease_generation
                          \/ stages'[s].lease_generation = stages[s].lease_generation + 1
  <2> SUFFICES ASSUME NEW s \in Stage
               PROVE  /\ stages[s].lease_generation \in Nat
                      /\ \/ stages'[s].lease_generation = stages[s].lease_generation
                         \/ stages'[s].lease_generation = stages[s].lease_generation + 1
    OBVIOUS
  <2>1. stages[s] \in StageRecord /\ Transformed(stages[s], stages'[s])
    BY StepTransforms DEF TypeOK
  <2>2. stages[s].lease_generation \in Nat
    BY <2>1 DEF StageRecord
  <2>3. QED
    BY <2>1, <2>2, TransformedRecord
<1>2. \A v \in Process : /\ Serving(v) \/ worker[v].pc = "found" => worker[v].stage \in Stage
                         /\ worker[v].lease_generation \in Nat
  BY DEF TypeOK, WorkerState, Serving
<1> DEFINE token(v) == worker[v].lease_generation
           record(v) == stages[worker[v].stage].lease_generation
           Kept(v) == /\ Serving(v) /\ worker'[v].stage = worker[v].stage
                      /\ worker'[v].lease_generation = token(v)
           Fresh(v) == /\ worker[v].stage \in Stage
                       /\ worker'[v].stage = worker[v].stage
                       /\ worker'[v].lease_generation = record(v) + 1
                       /\ stages'[worker[v].stage].lease_generation = record(v) + 1
                       /\ \A u \in Process : u # v => worker'[u] = worker[u]
<1>3. \A v \in Process : Serving(v)' => Kept(v) \/ Fresh(v)
  BY <1>2, ServingComesFromAClaim
<1>4. \A v \in Process : Serving(v) => token(v) <= record(v)
  BY DEF LeasesAreExclusive
<1>5. ASSUME NEW v \in Process, Serving(v)'
      PROVE  worker'[v].lease_generation <= stages'[worker'[v].stage].lease_generation
  <2>1. CASE Kept(v)
    <3>1. worker[v].stage \in Stage /\ token(v) \in Nat /\ token(v) <= record(v)
      BY <1>2, <1>4, <2>1
    <3>2. record(v) <= stages'[worker[v].stage].lease_generation /\ record(v) \in Nat
          /\ stages'[worker[v].stage].lease_generation \in Nat
      BY <1>1, <3>1
    <3>3. QED
      BY <2>1, <3>1, <3>2
  <2>2. CASE Fresh(v)
    BY <1>1, <2>2
  <2>3. QED
    BY <1>3, <1>5, <2>1, <2>2
<1>6. ASSUME NEW u \in Process, NEW v \in Process, u # v, Serving(u)', Serving(v)',
             worker'[u].stage = worker'[v].stage
      PROVE  worker'[u].lease_generation # worker'[v].lease_generation
  <2>1. ASSUME NEW a \in Process, NEW b \in Process, a # b, Fresh(a), Serving(b)',
               worker'[a].stage = worker'[b].stage
        PROVE  worker'[b].lease_generation < worker'[a].lease_generation
    <3>1. worker'[b] = worker[b]
      BY <2>1
    <3>2. Serving(b)
      BY <2>1, <3>1 DEF Serving
    <3>3. token(b) <= record(b) /\ worker[b].stage = worker[a].stage
          /\ token(b) \in Nat /\ record(a) \in Nat
      BY <1>1, <1>2, <1>4, <2>1, <3>1, <3>2
    <3>4. QED
      BY <2>1, <3>1, <3>3
  <2>2. CASE Fresh(u)
    <3>1. worker'[v].lease_generation < worker'[u].lease_generation
      BY <1>6, <2>1, <2>2
    <3>2. Kept(v) \/ Fresh(v)
      BY <1>3, <1>6
    <3>3. worker'[v].lease_generation \in Nat
      BY <1>1, <1>2, <3>2
    <3>4. QED
      BY <3>1, <3>3
  <2>3. CASE Fresh(v)
    <3>1. worker'[u].lease_generation < worker'[v].lease_generation
      BY <1>6, <2>1, <2>3
    <3>2. Kept(u) \/ Fresh(u)
      BY <1>3, <1>6
    <3>3. worker'[u].lease_generation \in Nat
      BY <1>1, <1>2, <3>2
    <3>4. QED
      BY <3>1, <3>3
  <2>4. CASE Kept(u) /\ Kept(v)
    BY <1>6, <2>4 DEF LeasesAreExclusive
  <2>5. QED
    BY <1>3, <1>6, <2>2, <2>3, <2>4
<1>7. QED
  BY <1>5, <1>6 DEF LeasesAreExclusive

\* The worker that executes its stage under the token of the record.
Executes(w) ==
    /\ worker[w].pc = "running"
    /\ stages[worker[w].stage].status = "running"
    /\ stages[worker[w].stage].lease_generation = worker[w].lease_generation

\* Nobody comes to execute a stage otherwise than by begin_stage.
LEMMA ExecutionComesFromBegin ==
    ASSUME TypeOK, LeasesAreExclusive, \A s \in Stage : Open(stages[s]), [Next]_vars,
           NEW w \in Process, Executes(w)'
    PROVE  /\ worker'[w].stage = worker[w].stage
           /\ Executes(w) \/ BeginStage(w)
<1>1. Serving(w) /\ worker'[w].stage = worker[w].stage
      /\ worker'[w].lease_generation = worker[w].lease_generation
  BY ServingComesFromAClaim DEF Executes, Serving
<1> DEFINE s == worker[w].stage
<1>2. s \in Stage /\ stages[s] \in StageRecord /\ Transformed(stages[s], stages'[s])
  BY <1>1, StepTransforms DEF TypeOK, Serving
<1>3. worker[w].lease_generation <= stages[s].lease_generation
      /\ worker[w].lease_generation \in Nat /\ stages[s].lease_generation \in Nat
  BY <1>1, <1>2 DEF LeasesAreExclusive, TypeOK, WorkerState, StageRecord
<1>4. stages'[s].status = "running"
      /\ stages'[s].lease_generation = worker[w].lease_generation
  BY <1>1 DEF Executes
<1>5. \/ /\ stages[s].status = "running"
         /\ stages'[s].lease_generation = stages[s].lease_generation
      \/ stages'[s].lease_generation = stages[s].lease_generation + 1
  BY <1>2, <1>4, TransformedRecord
<1>6. stages[s].status = "running"
      /\ stages[s].lease_generation = worker[w].lease_generation
  BY <1>3, <1>4, <1>5
<1>7. worker[w].pc # "running" => BeginStage(w)
  BY ExecutionBegins DEF Executes
<1>8. QED
  BY <1>1, <1>6, <1>7 DEF Executes

=============================================================================
