------------------------------- MODULE Workers -------------------------------
(***************************************************************************)
(* Worker processes serving one run, src/dub_mvp/worker.py with the stage  *)
(* execution of LocalJobRunner in src/dub_mvp/runner.py.                   *)
(*                                                                         *)
(* Each action is one critical section under the manifest lock together    *)
(* with the unlocked reads around it.  Between two actions of a worker any *)
(* other worker may act, time may pass and the worker may stop for good.   *)
(*                                                                         *)
(* Every guarded operation of the code reads the clock first and takes the *)
(* lock afterwards, so the moment it compares with a deadline may be old:  *)
(* Moments(w) are the times it can have read since its previous step.      *)
(***************************************************************************)
EXTENDS Manifest

CONSTANTS
    Process,      \* worker processes
    Identity,     \* the identity each claims under: DEFAULT_WORKER_ID, which
                  \* two containers or a restarted process may share
    RenewTicks,   \* LeaseKeeper.interval
    MaxRunTicks,  \* bound: a stage executes at most this long and is renewed
                  \* no later than that
    MaxTime,      \* bound: the clock stops here
    Reliable      \* the processes that keep running, for liveness only

ASSUME WorkersAssumption ==
    /\ RenewTicks \in Nat \ {0}
    /\ MaxRunTicks \in Nat
    /\ MaxTime \in Nat
    /\ Identity \in [Process -> Worker]
    /\ Reliable \subseteq Process

VARIABLES
    run_status,   \* RunManifest.status
    stages,       \* RunManifest.stages
    now,          \* the wall clock
    worker        \* the control state of each worker's serving thread

durable == << run_status, stages >>
vars == << run_status, stages, now, worker >>

Phase == {"idle", "scanning", "found", "claimed", "running", "returned"}

WorkerState ==
    [pc : Phase, stage : Stage \cup {NoStage}, lease_generation : Nat, since : Nat]

TypeOK ==
    /\ run_status \in RunStatus
    /\ stages \in [Stage -> StageRecord]
    /\ now \in Nat
    /\ worker \in [Process -> WorkerState]
    /\ \A w \in Process :
          worker[w].pc \notin {"idle", "scanning"} => worker[w].stage \in Stage

Idle == [pc |-> "idle", stage |-> NoStage, lease_generation |-> 0, since |-> 0]

Init ==
    /\ run_status = "created"
    /\ stages = [s \in Stage |-> NewRecord]
    /\ now = 0
    /\ worker = [w \in Process |-> Idle]

Moments(w) == worker[w].since .. now

\* The worker is inside `with LeaseKeeper(...)`.
Serving(w) == worker[w].pc \in {"claimed", "running"}

HoldsStage(w, t) ==
    HoldsLease(stages[worker[w].stage], Identity[w], worker[w].lease_generation, t)

Proceed(w, pc, s, g) ==
    worker' = [worker EXCEPT ![w] = [pc |-> pc, stage |-> s,
                                     lease_generation |-> g, since |-> now]]

Goto(w, pc) == Proceed(w, pc, worker[w].stage, worker[w].lease_generation)

Rest(w) == worker' = [worker EXCEPT ![w] = Idle]

-----------------------------------------------------------------------------

\* queue_next_ready_stage: the candidate of the unlocked snapshot is derived
\* again under the lock, so only what holds there matters.
QueueNextReady ==
    \/ \E s \in Stage :
          /\ IsNextReady(run_status, stages, s)
          /\ stages' = [stages EXCEPT ![s] = AutoQueued(@)]
          /\ run_status' = "queued"
    \/ /\ \A s \in Stage : ~IsNextReady(run_status, stages, s)
       /\ UNCHANGED durable

\* _scan_run, up to the reload.
AdvanceRun(w) ==
    /\ worker[w].pc = "idle"
    /\ QueueNextReady
    /\ worker' = [worker EXCEPT ![w].pc = "scanning"]
    /\ UNCHANGED now

\* _scan_run after the reload.  The scan's own moment is older than the one
\* claim_job takes and decides nothing that the claim does not decide again.
\* At most one stage has its dependencies complete without being complete.
FindJob(w) ==
    /\ worker[w].pc = "scanning"
    /\ \/ \E s \in Stage :
             /\ DependenciesComplete(stages, s)
             /\ IsClaimable(stages[s], now)
             /\ Proceed(w, "found", s, 0)
       \/ /\ \A s \in Stage :
                ~(DependenciesComplete(stages, s) /\ IsClaimable(stages[s], now))
          /\ Rest(w)
    /\ UNCHANGED << durable, now >>

\* claim_job: an expired attempt is closed first, then the stage is either
\* retired or granted under the next generation.
Grant(w, s, t) ==
    LET r == Abandoned(stages[s]) IN
    /\ r.attempt_count < r.max_attempts
    /\ stages' = [stages EXCEPT ![s] = Claimed(r, Identity[w], t)]
    /\ run_status' = "running"
    /\ Proceed(w, "claimed", s, r.lease_generation + 1)

\* Slip: a stage without attempts left is passed over instead of failed.
RetireQuietly(w, s) ==
    LET r == Abandoned(stages[s]) IN
    /\ r.attempt_count >= r.max_attempts
    /\ UNCHANGED durable
    /\ Rest(w)

Retire(w, s) ==
    LET r == Abandoned(stages[s]) IN
    /\ r.attempt_count >= r.max_attempts
    /\ stages' = [stages EXCEPT ![s] = Exhausted(r)]
    /\ run_status' = "failed"
    /\ Rest(w)

ClaimJob(w) ==
    LET s == worker[w].stage IN
    /\ worker[w].pc = "found"
    /\ \E t \in Moments(w) :
          \/ /\ IsClaimable(stages[s], t)
             /\ Grant(w, s, t) \/ Retire(w, s)
          \/ /\ ~IsClaimable(stages[s], t)
             /\ Rest(w)
             /\ UNCHANGED durable
    /\ UNCHANGED now

\* begin_stage under a lease: the stage is RUNNING already, only the lease is
\* checked.
BeginStage(w) ==
    /\ worker[w].pc = "claimed"
    /\ \E t \in Moments(w) :
          Goto(w, IF HoldsStage(w, t) THEN "running" ELSE "returned")
    /\ UNCHANGED << durable, now >>

\* The stage's work succeeded: complete_stage.
CompleteStage(w) ==
    LET s == worker[w].stage IN
    /\ worker[w].pc = "running"
    /\ \E t \in Moments(w) :
          \/ /\ HoldsStage(w, t)
             /\ stages' = [stages EXCEPT ![s] = Completed(@)]
             /\ run_status' = StageRunStatus(s)
          \/ /\ ~HoldsStage(w, t)
             /\ UNCHANGED durable
    /\ Goto(w, "returned")
    /\ UNCHANGED now

\* The stage's work raised: fail_stage, as a transient fault of the pipeline
\* or as a terminal one (retryable = False, or an unexpected exception).
FailStage(w) ==
    LET s == worker[w].stage IN
    /\ worker[w].pc = "running"
    /\ \E t \in Moments(w), retryable \in BOOLEAN :
          \/ /\ HoldsStage(w, t)
             /\ stages' = [stages EXCEPT ![s] = FailedRecord(@, retryable, t)]
             /\ run_status' =
                   IF CanRetry(stages[s], retryable) THEN "queued" ELSE "failed"
          \/ /\ ~HoldsStage(w, t)
             /\ UNCHANGED durable
    /\ Goto(w, "returned")
    /\ UNCHANGED now

\* run_worker_once after the stage returned.
AdvanceAfter(w) ==
    /\ worker[w].pc = "returned"
    /\ IF stages[worker[w].stage].status = "completed"
       THEN QueueNextReady ELSE UNCHANGED durable
    /\ Rest(w)
    /\ UNCHANGED now

\* LeaseKeeper._run: it may come late or miss a turn, and once refused it ends.
RenewLease(w) ==
    LET s == worker[w].stage IN
    /\ Serving(w)
    /\ \E t \in (stages[s].lease_expires_at - LeaseTicks + RenewTicks) .. now :
          /\ t \in Nat
          /\ t <= worker[w].since + MaxRunTicks
          /\ HoldsStage(w, t)
          /\ stages' = [stages EXCEPT ![s] = Renewed(@, t)]
    /\ UNCHANGED << run_status, now, worker >>

\* The process dies and is restarted, possibly under the same identity, or the
\* outcome of the stage cannot be written and the lease is left to expire.
Abandon(w) ==
    /\ Serving(w)
    /\ Rest(w)
    /\ UNCHANGED << durable, now >>

\* Time is observed through deadlines only, so it passes while one lies ahead.
Tick ==
    /\ now < MaxTime
    /\ \E s \in Stage : \/ stages[s].next_retry_at > now
                        \/ stages[s].lease_expires_at > now
    /\ now' = now + 1
    /\ UNCHANGED << durable, worker >>

Step(w) ==
    \/ AdvanceRun(w) \/ FindJob(w) \/ ClaimJob(w) \/ BeginStage(w)
    \/ CompleteStage(w) \/ FailStage(w) \/ AdvanceAfter(w)

Next ==
    \/ \E w \in Process : Step(w) \/ RenewLease(w) \/ Abandon(w)
    \/ Tick

Spec == Init /\ [][Next]_vars

\* A reliable worker is restarted by its supervisor and its loop never exits;
\* nothing is assumed of the others, nor of any LeaseKeeper.
LiveSpec == Spec /\ WF_vars(Tick) /\ \A w \in Reliable : WF_vars(Step(w))

-----------------------------------------------------------------------------
(* The promise of Pipeline, read off the manifest.                         *)

Promise == INSTANCE Pipeline WITH
    delivered <- {s \in Stage : stages[s].status = "completed"},
    active    <- {s \in Stage : stages[s].status = "running"},
    tries     <- [s \in Stage |-> stages[s].attempt_count],
    stopped   <- run_status = "failed"

\* The worker protocol implements the promise: in order, exactly once, one at a
\* time, within the attempts allowed, and never after the run failed.
ImplementsPipeline == Promise!Spec

-----------------------------------------------------------------------------
(* Properties.                                                             *)

\* The stages before the current one are complete and those after it have not
\* been touched: no stage runs before its inputs exist and no two stages of a
\* run are active at once.  A job found by an unlocked scan is still next when
\* claim_job, which does not look at the dependencies again, claims it.
StagesInOrder ==
    /\ \A s, q \in Stage :
          q < s /\ stages[s].status # "pending" => stages[q].status = "completed"
    /\ \A w \in Process :
          worker[w].pc = "found" => DependenciesComplete(stages, worker[w].stage)

\* The run status that the API and the status page report says what the stages
\* are doing: failed exactly when a stage failed, rendered exactly when all are
\* complete, running or queued exactly when one is.
RunStatusMirrorsStages ==
    /\ run_status = "failed" <=> \E s \in Stage : stages[s].status = "failed"
    /\ run_status = "rendered" <=> \A s \in Stage : stages[s].status = "completed"
    /\ run_status = "running" <=> \E s \in Stage : stages[s].status = "running"
    /\ run_status = "queued" <=> \E s \in Stage : stages[s].status = "queued"

\* The attempt ledger: one entry per claim, numbered by its fencing token, and
\* the only entry still open is that of a running stage, its last one.  A crash
\* leaves no second open entry behind, and a stage succeeds at most once.
Ledger(r) ==
    /\ Len(r.attempts) = r.attempt_count
    /\ r.lease_generation = r.attempt_count
    /\ \A i \in 1 .. Len(r.attempts) :
          /\ r.attempts[i].lease_generation = i
          /\ r.attempts[i].status = "running" <=>
                (r.status = "running" /\ i = Len(r.attempts))
          /\ r.attempts[i].status = "completed" <=>
                (r.status = "completed" /\ i = Len(r.attempts))

AttemptLedger == \A s \in Stage : Ledger(stages[s])

\* Fencing: two workers that both still believe to be executing a stage hold
\* different tokens, and none is ahead of the record, so at most one of them
\* can commit.
LeasesAreExclusive ==
    \A w, v \in Process :
        /\ Serving(w) =>
             worker[w].lease_generation <= stages[worker[w].stage].lease_generation
        /\ (w # v /\ Serving(w) /\ Serving(v) /\ worker[w].stage = worker[v].stage)
             => worker[w].lease_generation # worker[v].lease_generation

\* Retries are bounded: a stage never makes more attempts than it is allowed,
\* and work that waits for a worker always has an attempt left.
Bounded(r) ==
    /\ r.max_attempts = MaxAttempts
    /\ r.attempt_count <= r.max_attempts
    /\ r.status \in {"pending", "invalidated", "queued"}
          => r.attempt_count < r.max_attempts

AttemptsBounded == \A s \in Stage : Bounded(stages[s])

\* Work in the hands of a dead worker is never out of reach: an active stage
\* has a deadline, at most one lease or one backoff away, after which any
\* worker can claim it.
WithinReach(r, t) ==
    /\ r.status = "running" =>
          /\ r.worker_id \in Worker
          /\ r.lease_expires_at \in 0 .. (t + LeaseTicks)
    /\ r.status = "queued" =>
          r.next_retry_at \in {None} \cup (0 .. (t + BackoffCap))

NeverStranded == \A s \in Stage : WithinReach(stages[s], now)

\* An attempt that ends other than by reclamation is ended by the worker that
\* opened it, during that attempt: a stalled worker that lost its lease never
\* publishes over the one that reclaimed the stage.
OwnerCloses ==
    \A s \in Stage :
        LET n == Len(stages[s].attempts) IN
        (/\ n > 0
         /\ stages[s].attempts[n].status = "running"
         /\ stages'[s].attempts[n].status \in {"completed", "failed"})
        => \E w \in Process :
              /\ worker[w].pc = "running" /\ worker'[w].pc = "returned"
              /\ worker[w].stage = s
              /\ worker[w].lease_generation = stages[s].attempts[n].lease_generation

OwnerClosesAttempt == [][OwnerCloses]_vars

\* Completed work is never redone, and a failed run stays failed, whatever the
\* workers do on their own.
OutcomesKept ==
    /\ \A s \in Stage :
          stages[s].status \in {"completed", "failed"} => stages'[s] = stages[s]
    /\ run_status \in {"rendered", "failed"} => run_status' = run_status

OutcomesAreFinal == [][OutcomesKept]_vars

\* With one reliable worker every run ends rendered or failed, although other
\* workers may stop in the middle of a stage and stages may fail or be
\* abandoned at every attempt.
RunSettles == <>(run_status \in {"rendered", "failed"})

=============================================================================
