------------------------------ MODULE Manifest ------------------------------
(***************************************************************************)
(* The durable state of one run, src/dub_mvp/manifest.py, and the pure     *)
(* transformations that the locked read-modify-writes of manifest.py,      *)
(* worker.py and runner.py apply to it.  No variable lives here: the       *)
(* specifications that extend this module decide who applies what, when.   *)
(*                                                                         *)
(* Stages are numbered in the order of STAGE_ORDER; the clock counts       *)
(* ticks, so lease and backoff lengths are numbers of ticks.  Definitions  *)
(* marked "Slip" are plausible mistakes in the one that follows; nothing   *)
(* uses them but the mutation checks listed in PROJECT.json.  Timings,     *)
(* costs, outputs, error texts and the event list are left out: no guard   *)
(* of the code reads them.                                                 *)
(***************************************************************************)
EXTENDS Integers, Sequences

CONSTANTS
    Worker,       \* the identities a worker process may claim under
    NoWorker,     \* worker_id = None
    NStages,      \* the length of STAGE_ORDER
    MaxAttempts,  \* the default of StageRecord.max_attempts
    LeaseTicks,   \* DEFAULT_LEASE_SECONDS
    BackoffBase,  \* BASE_RETRY_BACKOFF_SECONDS
    BackoffCap    \* MAX_RETRY_BACKOFF_SECONDS

ASSUME ManifestAssumption ==
    /\ NoWorker \notin Worker
    /\ NStages \in Nat \ {0}
    /\ MaxAttempts \in Nat \ {0}
    /\ LeaseTicks \in Nat \ {0}
    /\ BackoffBase \in Nat
    /\ BackoffCap \in Nat

Stage == 1 .. NStages
NoStage == 0
None == -1          \* an absent time; the clock never shows it
Time == Nat \cup {None}

StageStatus ==
    {"pending", "queued", "running", "completed", "failed", "invalidated"}

\* INGESTED .. SYNTHESIZED differ only in the name of the stage just done.
RunStatus == {"created", "queued", "running", "advanced", "rendered", "failed"}

\* "lease_expired" is a FAILED attempt whose error_class is lease_expired.
Attempt ==
    [status : {"running", "completed", "failed", "lease_expired"},
     lease_generation : Nat]

StageRecord ==
    [status : StageStatus, attempt_count : Nat, max_attempts : Nat,
     retryable : BOOLEAN, next_retry_at : Time, lease_expires_at : Time,
     worker_id : Worker \cup {NoWorker}, lease_generation : Nat,
     attempts : Seq(Attempt)]

NewRecord ==
    [status |-> "pending", attempt_count |-> 0, max_attempts |-> MaxAttempts,
     retryable |-> TRUE, next_retry_at |-> None, lease_expires_at |-> None,
     worker_id |-> NoWorker, lease_generation |-> 0, attempts |-> << >>]

-----------------------------------------------------------------------------
(* Predicates.                                                             *)

\* Slip: failed work is offered again like queued work.
ClaimsFailed(r, t) ==
    \/ /\ r.status \in {"queued", "failed"}
       /\ r.next_retry_at = None \/ r.next_retry_at <= t
    \/ /\ r.status = "running"
       /\ r.lease_expires_at # None
       /\ r.lease_expires_at <= t

IsClaimable(r, t) ==
    \/ /\ r.status = "queued"
       /\ r.next_retry_at = None \/ r.next_retry_at <= t
    \/ /\ r.status = "running"
       /\ r.lease_expires_at # None
       /\ r.lease_expires_at <= t

\* Slip: the fencing token is not compared.
HoldsByName(r, w, g, t) ==
    /\ r.status = "running"
    /\ r.worker_id = w
    /\ r.lease_expires_at # None
    /\ r.lease_expires_at > t

HoldsLease(r, w, g, t) ==
    /\ r.status = "running"
    /\ r.worker_id = w
    /\ r.lease_generation = g
    /\ r.lease_expires_at # None
    /\ r.lease_expires_at > t

DependenciesComplete(st, s) == \A q \in 1 .. (s - 1) : st[q].status = "completed"

\* Slip: a stage needs a predecessor, so nothing starts by itself.
SuccessorsOnly(run, st, s) ==
    /\ run \notin {"failed", "rendered"}
    /\ \A q \in Stage : st[q].status \notin {"queued", "running", "failed"}
    /\ st[s].status \in {"pending", "invalidated"}
    /\ s > 1 /\ st[s - 1].status = "completed"

\* Slip: only the run status is consulted, not what the stages are doing.
ReadyByRunStatus(run, st, s) ==
    /\ run \notin {"failed", "rendered"}
    /\ st[s].status \in {"pending", "invalidated"}
    /\ \A q \in 1 .. (s - 1) : st[q].status \notin {"pending", "invalidated"}

IsNextReady(run, st, s) ==
    /\ run \notin {"failed", "rendered"}
    /\ \A q \in Stage : st[q].status \notin {"queued", "running", "failed"}
    /\ st[s].status \in {"pending", "invalidated"}
    /\ \A q \in 1 .. (s - 1) : st[q].status \notin {"pending", "invalidated"}
    /\ s > 1 => st[s - 1].status = "completed"

-----------------------------------------------------------------------------
(* Transformations of one stage record.                                    *)

Doubling(n) == BackoffBase * 2 ^ (n - 1)
RetryDelay(n) == IF Doubling(n) \in 0 .. BackoffCap THEN Doubling(n) ELSE BackoffCap

Closed(attempts, how) ==
    IF attempts = << >> THEN attempts
    ELSE [attempts EXCEPT ![Len(attempts)] = [@ EXCEPT !.status = how]]

AutoQueued(r) == [r EXCEPT !.status = "queued", !.next_retry_at = None]

\* Slip: the attempt of the dead worker stays open.
LeavesOpen(r) == r

Abandoned(r) ==
    IF r.status = "running" /\ r.attempts # << >>
       /\ r.attempts[Len(r.attempts)].status = "running"
    THEN [r EXCEPT !.attempts = Closed(@, "lease_expired")]
    ELSE r

\* The record whose attempts are used up, failed for good.
Exhausted(r) ==
    [r EXCEPT !.status = "failed", !.retryable = FALSE, !.next_retry_at = None,
              !.worker_id = NoWorker, !.lease_expires_at = None]

\* Slip: a claim takes no new fencing token.
ClaimedAgain(r, w, t) ==
    [r EXCEPT !.status = "running",
              !.attempt_count = @ + 1,
              !.lease_expires_at = t + LeaseTicks,
              !.worker_id = w,
              !.next_retry_at = None,
              !.attempts = Append(@, [status |-> "running",
                                      lease_generation |-> r.lease_generation])]

\* Slip: a claim sets no expiry.
ClaimedForever(r, w, t) ==
    [r EXCEPT !.status = "running",
              !.attempt_count = @ + 1,
              !.worker_id = w,
              !.lease_generation = @ + 1,
              !.next_retry_at = None,
              !.attempts = Append(@, [status |-> "running",
                                      lease_generation |-> r.lease_generation + 1])]

Claimed(r, w, t) ==
    [r EXCEPT !.status = "running",
              !.attempt_count = @ + 1,
              !.lease_expires_at = t + LeaseTicks,
              !.worker_id = w,
              !.lease_generation = @ + 1,
              !.next_retry_at = None,
              !.attempts = Append(@, [status |-> "running",
                                      lease_generation |-> r.lease_generation + 1])]

Renewed(r, t) == [r EXCEPT !.lease_expires_at = t + LeaseTicks]

Completed(r) ==
    [r EXCEPT !.status = "completed", !.lease_expires_at = None,
              !.worker_id = NoWorker, !.next_retry_at = None,
              !.attempts = Closed(@, "completed")]

\* Slip: the attempt limit is not consulted.
CanRetryForever(r, retryable) == retryable /\ r.retryable

CanRetry(r, retryable) ==
    retryable /\ r.retryable /\ r.attempt_count < r.max_attempts

FailedRecord(r, retryable, t) ==
    [r EXCEPT !.status = IF CanRetry(r, retryable) THEN "queued" ELSE "failed",
              !.retryable = @ /\ CanRetry(r, retryable),
              !.next_retry_at = IF CanRetry(r, retryable)
                                THEN t + RetryDelay(r.attempt_count) ELSE None,
              !.lease_expires_at = None, !.worker_id = NoWorker,
              !.attempts = Closed(@, "failed")]

\* Slip: the status of the stage is written as that of the run.
StageStatusForRun(s) == "completed"

\* Slip: the run is reported rendered one stage early.
RenderedEarly(s) == IF s + 1 >= NStages THEN "rendered" ELSE "advanced"

StageRunStatus(s) == IF s = NStages THEN "rendered" ELSE "advanced"

=============================================================================
