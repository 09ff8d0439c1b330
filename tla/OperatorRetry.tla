---------------------------- MODULE OperatorRetry ----------------------------
(***************************************************************************)
(* `dub-mvp retry`, src/dub_mvp/retry.py, against the workers of one run.  *)
(*                                                                         *)
(* The command lists the sidecars, invalidates the affected stages under   *)
(* the manifest lock, then the sidecars one by one without it, then queues *)
(* the first stage under the lock again.  Workers act between any two of   *)
(* these steps, and the command may be killed between them.                *)
(*                                                                         *)
(* All the sidecars by which a stage proves its files reusable are taken   *)
(* as one; the choice of utterances and the audit report are left out.     *)
(* One operator is modelled: a second request starts after the first.      *)
(***************************************************************************)
EXTENDS Workers

CONSTANTS
    RetryFrom,      \* the stages of RetryStage
    RetryAttempts,  \* OPERATOR_RETRY_ATTEMPTS
    MaxRequests     \* bound: requests made

ASSUME OperatorRetryAssumption ==
    /\ RetryFrom \subseteq Stage \ {1}
    /\ RetryAttempts \in Nat \ {0}
    /\ MaxRequests \in Nat

VARIABLES
    operator,  \* the command: where it is, from which stage, and the sidecars
               \* it listed and has still to invalidate
    requests,  \* how many were made
    outputs,   \* the stages whose paths RunManifest.outputs holds
    sidecar,   \* the proof beside the files of each stage
    task,      \* what the worker's execution of its stage has come to
    written,   \* history: stages redone since the command listed the sidecars
    owed       \* history: stages a request asked for, not redone since

files == << outputs, sidecar, task >>
history == << written, owed >>
retryVars == << vars, operator, requests, files, history >>

Ready == [pc |-> "ready", from |-> NoStage, listed |-> {}]

RetryInit ==
    /\ Init
    /\ operator = Ready
    /\ requests = 0
    /\ outputs = {}
    /\ sidecar = [s \in Stage |-> "none"]
    /\ task = [w \in Process |-> "none"]
    /\ written = {}
    /\ owed = {}

Affected(f) == f .. NStages

\* Slip: the proof of downstream stages is left alone.
SelectedByName(f) == {s \in {f} : sidecar[s] = "completed"}

\* _load_sidecars and _select_sidecars; invalid proof needs no invalidation.
Selected(f) == {s \in Affected(f) : sidecar[s] = "completed"}

AttemptsGranted(r) ==
    IF r.max_attempts >= r.attempt_count + RetryAttempts
    THEN r.max_attempts ELSE r.attempt_count + RetryAttempts

Invalidated(r) ==
    [r EXCEPT !.status = "invalidated", !.next_retry_at = None,
              !.lease_expires_at = None, !.worker_id = NoWorker]

\* Slip: the stage starts over from an empty record.
RestartedRecord(r, first) ==
    [NewRecord EXCEPT !.status = IF first THEN "queued" ELSE "pending"]

Requeued(r, first) ==
    [r EXCEPT !.status = IF first THEN "queued" ELSE "pending",
              !.retryable = TRUE, !.max_attempts = AttemptsGranted(r),
              !.next_retry_at = None, !.lease_expires_at = None,
              !.worker_id = NoWorker]

-----------------------------------------------------------------------------
(* The command.                                                            *)

\* retry_run up to phase one: the utterances come from the output of the stage
\* before, which only a render retry may lack, and the sidecars are listed.
RetryLoad(f) ==
    /\ operator.pc = "ready"
    /\ requests < MaxRequests
    /\ f = NStages \/ f - 1 \in outputs
    /\ operator' = [pc |-> "listed", from |-> f,
                    listed |-> Selected(f)]
    /\ requests' = requests + 1
    /\ written' = {}
    /\ UNCHANGED << vars, files, owed >>

\* _mark_retry_invalidated
RetryMark ==
    /\ operator.pc = "listed"
    /\ IF \E s \in Affected(operator.from) : stages[s].status = "running"
       THEN /\ operator' = Ready
            /\ UNCHANGED durable
       ELSE /\ stages' = [s \in Stage |-> IF s \in Affected(operator.from)
                                          THEN Invalidated(stages[s]) ELSE stages[s]]
            /\ run_status' = "queued"
            /\ operator' = [operator EXCEPT !.pc = "marked"]
    /\ UNCHANGED << now, worker, requests, files, history >>

\* One turn of the loop over the selected sidecars.  The metadata written is
\* the one read at listing time, whatever lies there now.
RetryInvalidate(s) ==
    /\ operator.pc = "marked"
    /\ s \in operator.listed
    /\ sidecar' = [sidecar EXCEPT ![s] = "invalid"]
    /\ operator' = [operator EXCEPT !.listed = @ \ {s}]
    /\ UNCHANGED << vars, requests, outputs, task, history >>

\* _queue_retry
RetryQueue ==
    LET f == operator.from IN
    /\ operator.pc = "marked"
    /\ operator.listed = {}
    /\ stages' = [s \in Stage |-> IF s \in Affected(f)
                                  THEN Requeued(stages[s], s = f) ELSE stages[s]]
    /\ outputs' = outputs \ Affected(f)
    /\ run_status' = "queued"
    /\ operator' = Ready
    /\ owed' = (owed \cup Affected(f)) \ written
    /\ UNCHANGED << now, worker, requests, sidecar, task, written >>

\* The command is killed between two steps.
RetryKilled ==
    /\ operator.pc # "ready"
    /\ operator' = Ready
    /\ UNCHANGED << vars, requests, files, history >>

Command ==
    \/ \E f \in RetryFrom : RetryLoad(f)
    \/ RetryMark
    \/ \E s \in Stage : RetryInvalidate(s)
    \/ RetryQueue

-----------------------------------------------------------------------------
(* The workers, with the files their stages read and write.                *)

command == << operator, requests >>

Becomes(w, t) == task' = [task EXCEPT ![w] = t]

\* begin_stage returns the manifest whose outputs become the stage's inputs.
Begin(w) ==
    LET s == worker[w].stage IN
    /\ BeginStage(w)
    /\ Becomes(w, IF worker'[w].pc # "running" THEN "none"
                  ELSE IF s = 1 \/ s - 1 \in outputs THEN "begun" ELSE "lacking")
    /\ UNCHANGED << command, outputs, sidecar, history >>

\* _execute: completed proof is reused, anything else is made again.  Nothing
\* asks whether the lease is still held.
Execute(w) ==
    LET s == worker[w].stage
        redone == IF sidecar[s] = "completed" THEN {} ELSE {s} IN
    /\ worker[w].pc = "running"
    /\ task[w] = "begun"
    /\ Becomes(w, "produced")
    /\ sidecar' = [sidecar EXCEPT ![s] = "completed"]
    /\ written' = written \cup redone
    /\ owed' = owed \ redone
    /\ UNCHANGED << vars, command, outputs >>

Complete(w) ==
    /\ task[w] = "produced"
    /\ CompleteStage(w)
    /\ outputs' = outputs \cup (IF stages' = stages THEN {} ELSE {worker[w].stage})
    /\ Becomes(w, "none")
    /\ UNCHANGED << command, sidecar, history >>

Fail(w) ==
    /\ FailStage(w)
    /\ Becomes(w, "none")
    /\ UNCHANGED << command, outputs, sidecar, history >>

Die(w) ==
    /\ Abandon(w)
    /\ Becomes(w, "none")
    /\ UNCHANGED << command, outputs, sidecar, history >>

\* What a worker does between stages.
Schedule(w) ==
    /\ AdvanceRun(w) \/ FindJob(w) \/ ClaimJob(w) \/ AdvanceAfter(w)
    /\ UNCHANGED << command, files, history >>

Renew(w) == RenewLease(w) /\ UNCHANGED << command, files, history >>

TimePasses == Tick /\ UNCHANGED << command, files, history >>

Serve(w) == Begin(w) \/ Execute(w) \/ Complete(w) \/ Fail(w) \/ Schedule(w)

RetryNext ==
    \/ Command \/ RetryKilled
    \/ \E w \in Process : Serve(w) \/ Renew(w) \/ Die(w)
    \/ TimePasses

RetrySpec == RetryInit /\ [][RetryNext]_retryVars

RetryLiveSpec ==
    RetrySpec /\ WF_retryVars(TimePasses) /\ \A w \in Reliable : WF_retryVars(Serve(w))

-----------------------------------------------------------------------------
(* Properties.                                                             *)

\* What the operator asked for is done: when the run is rendered again, every
\* stage from the requested one on has been made anew since the sidecars were
\* listed, although workers finish and rewrite files in the meantime.
RetryIsHonoured == run_status = "rendered" => owed = {}

\* Attempt history is preserved: entries are appended or the last one closed,
\* and none that is closed changes.
Preserved ==
    \A s \in Stage :
        LET a == stages[s].attempts
            b == stages'[s].attempts IN
        /\ Len(a) <= Len(b)
        /\ \A i \in 1 .. Len(a) :
              /\ b[i].lease_generation = a[i].lease_generation
              /\ a[i].status # "running" => b[i] = a[i]

HistoryIsPreserved == [][Preserved]_retryVars

\* docs/current-architecture.md:150 "Active RUNNING work is rejected without
\* changing the manifest" and, of phase one, :144 "marks the affected stages
\* INVALIDATED, fencing the worker": the command never changes a running stage.
ActiveWorkIsSpared ==
    [][Command => \A s \in Stage :
          stages[s].status = "running" => stages'[s] = stages[s]]_retryVars

\* A retry whose first stage has its inputs runs to an end again: from the
\* moment it is queued with nothing but waiting stages behind it, the run ends
\* rendered or failed, unless the operator intervenes once more (README.md,
\* section 3).
RetrySettles ==
    \A s \in Stage :
        (/\ stages[s].status = "queued"
         /\ DependenciesComplete(stages, s)
         /\ \A q \in (s + 1) .. NStages : stages[q].status = "pending")
            ~> (run_status \in {"rendered", "failed"} \/ operator.pc # "ready")

\* docs/current-architecture.md:97 "this is what closes the 'stage completed but
\* successor never queued' gap": once everything before a stage is complete, the
\* stage does not stay pending while the run is unfailed and the operator idle.
SuccessorIsQueued ==
    \A s \in Stage :
        (stages[s].status = "pending" /\ DependenciesComplete(stages, s))
            ~> (\/ stages[s].status # "pending"
                \/ run_status = "failed" \/ operator.pc # "ready")

=============================================================================
