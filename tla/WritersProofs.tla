---------------------------- MODULE WritersProofs ----------------------------
(* Theorems about the other writers of a run's manifest: the stage endpoint  *)
(* of the web process, the stage commands of the command line, and an        *)
(* operator's retries, against any number of workers, stages and requests.   *)
EXTENDS OperatorRetry, WebJobs, CliStage, WorkersProofs

USE ManifestAssumption, WorkersAssumption

-----------------------------------------------------------------------------
(* HTTP.  The attempts of one record, whoever queued the stage.             *)

OpenLedger(r) ==
    /\ Len(r.attempts) = r.attempt_count
    /\ r.lease_generation = r.attempt_count
    /\ \A i \in 1 .. r.attempt_count :
          r.attempts[i].status = "running" <=>
             (r.status = "running" /\ i = r.attempt_count)

\* A record with the counts and attempts of another, neither of them running.
LEMMA OpenLedgerMoves ==
    ASSUME NEW r \in StageRecord, OpenLedger(r), NEW x \in StageRecord,
           x.attempts = r.attempts, x.attempt_count = r.attempt_count,
           x.lease_generation = r.lease_generation,
           x.status = "running" <=> r.status = "running"
    PROVE  OpenLedger(x)
  BY DEF OpenLedger

\* Closing the open attempt of a running record.
LEMMA OpenLedgerCloses ==
    ASSUME NEW r \in StageRecord, OpenLedger(r), r.status = "running",
           NEW how \in {"completed", "failed", "lease_expired"},
           NEW x \in StageRecord, x.attempts = Closed(r.attempts, how),
           x.attempt_count = r.attempt_count,
           x.lease_generation = r.lease_generation, x.status # "running"
    PROVE  OpenLedger(x)
<1>1. r.attempts \in Seq(Attempt)
  BY DEF StageRecord
<1>2. /\ Len(x.attempts) = Len(r.attempts)
      /\ \A i \in 1 .. Len(r.attempts) :
            x.attempts[i].status =
               IF i = Len(r.attempts) THEN how ELSE r.attempts[i].status
  BY <1>1, ClosedHistory
<1>3. QED
  BY <1>2 DEF OpenLedger

\* Reclaiming leaves no attempt open, and the counts as they were.
LEMMA AbandonedCloses ==
    ASSUME NEW r \in StageRecord, OpenLedger(r), r.status \in {"queued", "running"}
    PROVE  LET a == Abandoned(r) IN
           /\ a \in StageRecord
           /\ Len(a.attempts) = r.attempt_count
           /\ a.lease_generation = r.attempt_count
           /\ a.attempt_count = r.attempt_count
           /\ \A i \in 1 .. r.attempt_count : a.attempts[i].status # "running"
<1> DEFINE a == Abandoned(r)
<1>1. r.attempts \in Seq(Attempt) /\ r.attempt_count \in Nat
  BY DEF StageRecord
<1>2. /\ a \in StageRecord
      /\ Len(a.attempts) = Len(r.attempts) /\ a.lease_generation = r.lease_generation
      /\ a.attempt_count = r.attempt_count
  BY AbandonedType
<1>3. CASE r.status = "running" /\ r.attempts # << >>
           /\ r.attempts[Len(r.attempts)].status = "running"
  <2>1. a.attempts = Closed(r.attempts, "lease_expired")
    BY <1>3 DEF Abandoned, StageRecord
  <2>2. QED
    BY <1>1, <1>2, <1>3, <2>1, ClosedHistory DEF OpenLedger
<1>4. CASE ~(r.status = "running" /\ r.attempts # << >>
             /\ r.attempts[Len(r.attempts)].status = "running")
  <2>1. a = r
    BY <1>4 DEF Abandoned
  <2>2. r.attempts # << >> => Len(r.attempts) \in 1 .. Len(r.attempts)
    BY <1>1
  <2>3. \A i \in 1 .. r.attempt_count : r.attempts # << >>
    BY <1>1 DEF OpenLedger
  <2>4. QED
    BY <1>1, <1>2, <1>4, <2>1, <2>2, <2>3 DEF OpenLedger
<1>5. QED
  BY <1>3, <1>4

LEMMA ClaimOpens ==
    ASSUME NEW r \in StageRecord, OpenLedger(r), r.status \in {"queued", "running"},
           NEW i \in Worker, NEW t \in Nat
    PROVE  OpenLedger(Claimed(Abandoned(r), i, t))
<1> DEFINE a == Abandoned(r)
           x == Claimed(a, i, t)
           n == r.attempt_count
           entry == [status |-> "running", lease_generation |-> a.lease_generation + 1]
<1>1. /\ a \in StageRecord /\ Len(a.attempts) = n /\ a.lease_generation = n
      /\ a.attempt_count = n /\ \A j \in 1 .. n : a.attempts[j].status # "running"
  BY AbandonedCloses
<1>2. a.attempts \in Seq(Attempt) /\ n \in Nat
  BY <1>1 DEF StageRecord
<1>3. /\ x.status = "running" /\ x.attempt_count = n + 1
      /\ x.lease_generation = n + 1 /\ x.attempts = Append(a.attempts, entry)
  BY <1>1 DEF Claimed, StageRecord
<1>4. entry \in Attempt
  BY <1>1, <1>2 DEF Attempt
<1>5. /\ Len(x.attempts) = n + 1 /\ x.attempts[n + 1] = entry
      /\ \A j \in 1 .. n : x.attempts[j] = a.attempts[j]
  BY <1>1, <1>2, <1>3, <1>4
<1>6. \A j \in 1 .. (n + 1) : j = n + 1 \/ (j \in 1 .. n /\ j # n + 1)
  BY <1>2
<1>7. QED
  BY <1>1, <1>3, <1>5, <1>6 DEF OpenLedger

\* Whatever a worker makes of a record, its attempts stay in order.
LEMMA TransformedLedger ==
    ASSUME NEW r \in StageRecord, NEW x \in StageRecord, Transformed(r, x), OpenLedger(r)
    PROVE  OpenLedger(x)
<1>1. CASE x = r
  BY <1>1
<1>2. CASE r.status \in {"pending", "invalidated"} /\ x = AutoQueued(r)
  BY <1>2, OpenLedgerMoves DEF AutoQueued, StageRecord
<1>3. ASSUME r.status \in {"queued", "running"}, x = Exhausted(Abandoned(r))
      PROVE  OpenLedger(x)
  <2>1. Abandoned(r) \in StageRecord
    BY AbandonedType
  <2>2. /\ x.attempts = Abandoned(r).attempts /\ x.status = "failed"
        /\ x.attempt_count = Abandoned(r).attempt_count
        /\ x.lease_generation = Abandoned(r).lease_generation
    BY <1>3, <2>1 DEF Exhausted, StageRecord
  <2>3. QED
    BY <1>3, <2>2, AbandonedCloses DEF OpenLedger
<1>4. CASE r.status = "running" /\ x = Completed(r)
  BY <1>4, OpenLedgerCloses DEF Completed, StageRecord
<1>5. ASSUME r.status = "running", NEW b \in BOOLEAN, NEW t \in Nat, x = FailedRecord(r, b, t)
      PROVE  OpenLedger(x)
  BY <1>5, OpenLedgerCloses DEF FailedRecord, StageRecord
<1>6. ASSUME r.status = "running", NEW t \in Nat, x = Renewed(r, t)
      PROVE  OpenLedger(x)
  BY <1>6, OpenLedgerMoves DEF Renewed, StageRecord
<1>7. QED
  BY <1>1, <1>2, <1>3, <1>4, <1>5, <1>6, ClaimOpens DEF Transformed

LEMMA WebQueuedRecord ==
    ASSUME NEW r \in StageRecord
    PROVE  /\ WebQueued(r) \in StageRecord
           /\ WebQueued(r).status = "queued"
           /\ WebQueued(r).attempts = r.attempts
           /\ WebQueued(r).attempt_count = r.attempt_count
           /\ WebQueued(r).lease_generation = r.lease_generation
  BY DEF WebQueued, StageRecord, StageStatus, Time, None

WebInductive == TypeOK /\ \A s \in Stage : OpenLedger(stages[s])

LEMMA QueueStepOverHttp ==
    ASSUME WebInductive, NEW q \in Stage, Queue(q), UNCHANGED << now, worker >>
    PROVE  WebInductive'
<1>1. CASE UNCHANGED durable
  BY <1>1 DEF WebInductive, TypeOK, durable
<1>2. CASE Queueable(stages[q]) /\ run_status' = "queued"
           /\ stages' = [stages EXCEPT ![q] = WebQueued(@)]
  <2>1. stages[q] \in StageRecord /\ OpenLedger(stages[q])
    BY DEF WebInductive, TypeOK
  <2>2. WebQueued(stages[q]) \in StageRecord
    BY <2>1, WebQueuedRecord
  <2>3. OpenLedger(WebQueued(stages[q]))
    BY <1>2, <2>1, <2>2, WebQueuedRecord, OpenLedgerMoves DEF Queueable
  <2>4. stages' \in [Stage -> StageRecord]
    BY <1>2, <2>2 DEF WebInductive, TypeOK
  <2>5. \A s \in Stage : stages'[s] = IF s = q THEN WebQueued(stages[q]) ELSE stages[s]
    BY <1>2 DEF WebInductive, TypeOK
  <2>6. TypeOK'
    BY <1>2, <2>4 DEF WebInductive, TypeOK, RunStatus
  <2>7. QED
    BY <2>3, <2>5, <2>6 DEF WebInductive
<1>3. QED
  BY <1>1, <1>2 DEF Queue

LEMMA WebInductiveStep ==
    ASSUME WebInductive, [WebNext]_webVars
    PROVE  WebInductive'
<1>1. CASE [Next]_vars
  <2>1. TypeOK'
    BY <1>1, TypeStep DEF WebInductive
  <2>2. ASSUME NEW s \in Stage
        PROVE  OpenLedger(stages'[s])
    <3>1. stages[s] \in StageRecord /\ stages'[s] \in StageRecord /\ OpenLedger(stages[s])
      BY <2>1 DEF WebInductive, TypeOK
    <3>2. Transformed(stages[s], stages'[s])
      BY <1>1, StepTransforms DEF WebInductive
    <3>3. QED
      BY <3>1, <3>2, TransformedLedger
  <2>3. QED
    BY <2>1, <2>2 DEF WebInductive
<1>2. CASE SubmitIngest
  <2>1. 1 \in Stage
    BY DEF Stage
  <2>2. QED
    BY <1>2, <2>1, QueueStepOverHttp DEF SubmitIngest
<1>3. ASSUME NEW s \in Stage \ {1}, RunStage(s)
      PROVE  WebInductive'
  BY <1>3, QueueStepOverHttp DEF RunStage
<1>4. \/ [Next]_vars \/ SubmitIngest
      \/ \E s \in Stage \ {1} : RunStage(s)
  BY DEF WebNext, WebServe, WebRenew, WebAbandon, WebTick, webVars, Next,
     AcceptUpload, RejectUpload, SaveRun, WebDies
<1>5. QED
  BY <1>1, <1>2, <1>3, <1>4

\* manifest.py and webapp.py: requests to the stage endpoint at any moment leave
\* one open attempt per running stage and none elsewhere, the attempt count
\* equal to the entries and to the token, for any number of workers and stages.
THEOREM OpenAttemptsTheorem == WebSpec => []OpenAttempts
<1>1. WebInit => WebInductive
  <2>1. NewRecord \in StageRecord /\ OpenLedger(NewRecord)
    BY DEF NewRecord, StageRecord, StageStatus, Time, None, OpenLedger
  <2>2. QED
    BY <2>1 DEF WebInit, WebInductive, Init, TypeOK, RunStatus, Idle, WorkerState, Phase
<1>2. WebInductive /\ [WebNext]_webVars => WebInductive'
  BY WebInductiveStep
<1>3. WebInductive => OpenAttempts
  BY DEF WebInductive, OpenAttempts, OpenLedger
<1>4. QED
  BY <1>1, <1>2, <1>3, PTL DEF WebSpec

-----------------------------------------------------------------------------
(* The command line.  The copy a command holds is the manifest for as long  *)
(* as its revision is current, and its stage carries the command's own open *)
(* attempt, which has no token.                                             *)

OwnAttempt(r) ==
    /\ r.attempts # << >>
    /\ r.attempts[Len(r.attempts)].status = "running"
    /\ r.attempts[Len(r.attempts)].lease_generation = 0

CliInductive ==
    /\ TypeOK
    /\ cli \in [pc : {"none", "loaded", "working"}, stage : Stage]
    /\ copy \in [Stage -> StageRecord]
    /\ current \in BOOLEAN
    /\ current /\ cli.pc # "none" => copy = stages
    /\ cli.pc = "working" => OwnAttempt(copy[cli.stage])

LEMMA CliRecords ==
    ASSUME NEW r \in StageRecord
    PROVE  /\ CliStarted(r) \in StageRecord /\ OwnAttempt(CliStarted(r))
           /\ CliCompleted(r) \in StageRecord
           /\ CliFailed(r) \in StageRecord
<1> DEFINE entry == [status |-> "running", lease_generation |-> 0]
<1>1. r.attempts \in Seq(Attempt) /\ entry \in Attempt
  BY DEF StageRecord, Attempt
<1>2. /\ Append(r.attempts, entry) \in Seq(Attempt)
      /\ Append(r.attempts, entry) # << >>
      /\ Append(r.attempts, entry)[Len(Append(r.attempts, entry))] = entry
  BY <1>1, AppendedLast
<1>3. PICK b \in Seq(Attempt) : b = Append(r.attempts, entry)
  BY <1>2
<1>4. CliStarted(r) = [r EXCEPT !.status = "running", !.attempt_count = @ + 1,
                                !.attempts = b]
  BY <1>3 DEF CliStarted, StageRecord
<1>5. CliStarted(r) \in StageRecord /\ CliStarted(r).attempts = b
  <2>1. PICK n \in Nat : n = r.attempt_count + 1
    BY DEF StageRecord
  <2>2. "running" \in StageStatus
    BY DEF StageStatus
  <2>3. CliStarted(r) = [r EXCEPT !.status = "running", !.attempt_count = n,
                                  !.attempts = b]
    BY <1>4, <2>1 DEF StageRecord
  <2>4. QED
    BY <2>2, <2>3 DEF StageRecord
<1>6. OwnAttempt(CliStarted(r))
  BY <1>2, <1>3, <1>5 DEF OwnAttempt
<1>7. \A how \in {"completed", "failed"} : Closed(r.attempts, how) \in Seq(Attempt)
  BY <1>1, ClosedHistory DEF Closed
<1>8. CliCompleted(r) \in StageRecord
  BY <1>7 DEF CliCompleted, StageRecord, StageStatus
<1>9. CliFailed(r) \in StageRecord
  BY <1>7 DEF CliFailed, StageRecord, StageStatus
<1>10. QED
  BY <1>5, <1>6, <1>8, <1>9

LEMMA SaveStep ==
    ASSUME CliInductive, cli.pc # "none", NEW r \in StageRecord, NEW run \in RunStatus,
           NEW next \in {"working", "none"}, Save(r, run, next),
           next = "working" => OwnAttempt(r), UNCHANGED << now, worker >>
    PROVE  CliInductive'
<1>1. CASE UNCHANGED << durable, copy, current >> /\ Finish
  BY <1>1 DEF CliInductive, TypeOK, durable, Finish
<1>2. CASE /\ copy' = [copy EXCEPT ![cli.stage] = r] /\ stages' = copy'
           /\ run_status' = run /\ current' = TRUE
           /\ cli' = [cli EXCEPT !.pc = next]
  <2>1. cli.stage \in Stage /\ copy' \in [Stage -> StageRecord] /\ copy'[cli.stage] = r
    BY <1>2 DEF CliInductive
  <2>2. TypeOK'
    BY <1>2, <2>1 DEF CliInductive, TypeOK
  <2>3. /\ cli' \in [pc : {"none", "loaded", "working"}, stage : Stage]
        /\ cli'.stage = cli.stage /\ cli'.pc = next
    BY <1>2 DEF CliInductive
  <2>4. QED
    BY <1>2, <2>1, <2>2, <2>3 DEF CliInductive
<1>3. QED
  BY <1>1, <1>2 DEF Save

LEMMA CliInductiveStep ==
    ASSUME CliInductive, [CliNext]_cliVars
    PROVE  CliInductive'
<1>1. CASE UNCHANGED cliVars
  BY <1>1 DEF cliVars, vars, CliInductive, TypeOK
<1>2. ASSUME NEW s \in Stage, CliLoad(s)
      PROVE  CliInductive'
  BY <1>2 DEF CliLoad, vars, CliInductive, TypeOK
<1>3. cli.stage \in Stage /\ copy[cli.stage] \in StageRecord
  BY DEF CliInductive
<1>4. CASE CliBegin
  BY <1>3, <1>4, CliRecords, SaveStep DEF CliBegin, RunStatus
<1>5. StageRunStatus(cli.stage) \in RunStatus
  BY DEF StageRunStatus, RunStatus
<1>6. CASE CliComplete
  BY <1>3, <1>5, <1>6, CliRecords, SaveStep DEF CliComplete
<1>7. CASE CliFail
  BY <1>3, <1>7, CliRecords, SaveStep DEF CliFail, RunStatus
<1>8. CASE CliKilled
  BY <1>8 DEF CliKilled, Finish, vars, CliInductive, TypeOK
<1>9. ASSUME [Next]_vars, UNCHANGED << cli, copy >>, current' \in BOOLEAN,
             current' => current /\ stages' = stages
      PROVE  CliInductive'
  BY <1>9, TypeStep DEF CliInductive
<1>10. ASSUME NEW w \in Process, CliServe(w) \/ CliRenew(w) \/ CliAbandon(w)
       PROVE  CliInductive'
  BY <1>9, <1>10
     DEF CliServe, CliRenew, CliAbandon, Written, Next, Abandon, durable, CliInductive
<1>11. CASE CliTick
  BY <1>9, <1>11 DEF CliTick, Next, Tick, durable, CliInductive
<1>12. QED
  BY <1>1, <1>2, <1>4, <1>6, <1>7, <1>8, <1>10, <1>11 DEF CliNext

\* cli.py against worker.py: a stage command that saves the manifest it has held
\* across its whole work keeps what workers did to every other stage and closes
\* an attempt that is its own and still open; manifest.py's revision check is
\* what the proof rests on.
THEOREM CliTheorem == CliSpec => SavesUndoNothing
<1>1. CliInit => CliInductive
  <2>1. NewRecord \in StageRecord
    BY DEF NewRecord, StageRecord, StageStatus, Time, None
  <2>2. QED
    BY <2>1 DEF CliInit, CliInductive, Init, TypeOK, RunStatus, Idle, WorkerState, Phase, Stage
<1>2. CliInductive /\ [CliNext]_cliVars => CliInductive'
  BY CliInductiveStep
<1>3. CliInductive /\ [CliNext]_cliVars => [(CliComplete \/ CliFail) => Preserving]_cliVars
  <2>1. ASSUME CliInductive, CliComplete \/ CliFail, cli.pc = "working", stages' # stages
        PROVE  /\ \A s \in Stage \ {cli.stage} : stages'[s] = stages[s]
               /\ OwnAttempt(stages[cli.stage])
    <3>1. /\ current
          /\ \E r : stages' = [copy EXCEPT ![cli.stage] = r]
      BY <2>1 DEF CliComplete, CliFail, Save, Accepted, durable
    <3>2. copy = stages /\ OwnAttempt(copy[cli.stage])
      BY <2>1, <3>1 DEF CliInductive
    <3>3. QED
      BY <2>1, <3>1, <3>2 DEF CliInductive, TypeOK
  <2>2. QED
    BY <2>1 DEF Preserving, OwnAttempt
<1>4. QED
  BY <1>1, <1>2, <1>3, PTL DEF CliSpec, SavesUndoNothing

-----------------------------------------------------------------------------
(* The operator's retries.                                                  *)

USE OperatorRetryAssumption

RetryTypeOK ==
    /\ TypeOK
    /\ operator \in [pc : {"ready", "listed", "marked"},
                     from : Stage \cup {NoStage}, listed : SUBSET Stage]
    /\ operator.pc # "ready" => operator.from \in Stage
    /\ outputs \subseteq Stage
    /\ sidecar \in [Stage -> {"none", "completed", "invalid"}]
    /\ task \in [Process -> {"none", "begun", "lacking", "produced"}]
    /\ owed \subseteq Stage

\* Of the stages a request is about, those whose proof still stands have been
\* redone since it listed the sidecars, or are yet to be invalidated by it.
ListIsComplete ==
    operator.pc # "ready" =>
        \A s \in Affected(operator.from) :
            s \in written \/ s \in operator.listed \/ sidecar[s] # "completed"

\* An output is listed only while nothing before it is owed, and whoever
\* executes a stage has taken its input from such an output.
InputsAreCurrent ==
    /\ \A s \in outputs, q \in owed : q > s
    /\ \A w \in Process, q \in owed :
          Executes(w) => /\ task[w] = "begun" => q >= worker[w].stage
                         /\ task[w] = "produced" => q > worker[w].stage

RetryInductive ==
    /\ RetryTypeOK
    /\ LeasesAreExclusive
    /\ \A s \in Stage : Open(stages[s])
    /\ \A s \in owed : sidecar[s] # "completed"
    /\ ListIsComplete
    /\ InputsAreCurrent
    /\ RetryIsHonoured

-----------------------------------------------------------------------------
(* The records the command writes.                                          *)

LEMMA InvalidatedRecord ==
    ASSUME NEW r \in StageRecord
    PROVE  /\ Invalidated(r) \in StageRecord
           /\ Invalidated(r).status = "invalidated"
           /\ Invalidated(r).attempts = r.attempts
           /\ Invalidated(r).lease_generation = r.lease_generation
  BY DEF Invalidated, StageRecord, StageStatus, Time, None

LEMMA RequeuedRecord ==
    ASSUME NEW r \in StageRecord, NEW first \in BOOLEAN
    PROVE  /\ Requeued(r, first) \in StageRecord
           /\ Requeued(r, first).status \in {"queued", "pending"}
           /\ Requeued(r, first).attempts = r.attempts
           /\ Requeued(r, first).lease_generation = r.lease_generation
<1>1. AttemptsGranted(r) \in Nat
  BY DEF AttemptsGranted, StageRecord
<1>2. QED
  BY <1>1 DEF Requeued, StageRecord, StageStatus, Time, None

\* What the two locked writes of the command have in common.
Rewritten(r, x) ==
    /\ x \in StageRecord
    /\ x = r \/ x.status # "running"
    /\ x.attempts = r.attempts
    /\ x.lease_generation = r.lease_generation

LEMMA CommandRewrites ==
    ASSUME RetryTypeOK, RetryMark \/ RetryQueue
    PROVE  /\ stages' \in [Stage -> StageRecord]
           /\ \A s \in Stage : Rewritten(stages[s], stages'[s])
<1>1. \A s \in Stage : stages[s] \in StageRecord
  BY DEF RetryTypeOK, TypeOK
<1>2. \A s \in Stage : /\ Rewritten(stages[s], stages[s])
                       /\ Rewritten(stages[s], Invalidated(stages[s]))
                       /\ \A b \in BOOLEAN : Rewritten(stages[s], Requeued(stages[s], b))
  BY <1>1, InvalidatedRecord, RequeuedRecord DEF Rewritten
<1>3. CASE UNCHANGED durable
  BY <1>2, <1>3 DEF durable, RetryTypeOK, TypeOK
<1>4. ASSUME NEW f, stages' = [s \in Stage |-> IF s \in Affected(f)
                                  THEN Invalidated(stages[s]) ELSE stages[s]]
      PROVE  \A s \in Stage : Rewritten(stages[s], stages'[s])
  BY <1>2, <1>4
<1>5. ASSUME NEW f, stages' = [s \in Stage |-> IF s \in Affected(f)
                                  THEN Requeued(stages[s], s = f) ELSE stages[s]]
      PROVE  \A s \in Stage : Rewritten(stages[s], stages'[s])
  BY <1>2, <1>5
<1>6. \/ \A s \in Stage : Rewritten(stages[s], stages'[s])
      \/ UNCHANGED durable
  BY <1>4, <1>5 DEF RetryMark, RetryQueue
<1>7. \/ UNCHANGED durable
      \/ stages' = [s \in Stage |-> stages'[s]]
  BY DEF RetryMark, RetryQueue
<1>8. QED
  BY <1>3, <1>6, <1>7 DEF Rewritten

-----------------------------------------------------------------------------
(* Every step is one of the workers, or one of the command's.               *)

LEMMA RetryStepKinds ==
    ASSUME [RetryNext]_retryVars
    PROVE  RetryMark \/ RetryQueue \/ [Next]_vars
  BY DEF RetryNext, Command, Serve, Schedule, Begin, Execute, Complete, Fail, Renew,
     Die, TimePasses, RetryLoad, RetryInvalidate, RetryKilled, retryVars, Next, Step

LEMMA RetryTypeStep ==
    ASSUME RetryTypeOK, [RetryNext]_retryVars
    PROVE  RetryTypeOK'
<1>1. TypeOK'
  <2>1. ASSUME RetryMark \/ RetryQueue
        PROVE  TypeOK'
    <3>1. stages' \in [Stage -> StageRecord]
      BY <2>1, CommandRewrites
    <3>2. run_status' \in RunStatus /\ now' = now /\ worker' = worker
      BY <2>1 DEF RetryMark, RetryQueue, durable, RunStatus, RetryTypeOK, TypeOK
    <3>3. QED
      BY <3>1, <3>2 DEF RetryTypeOK, TypeOK
  <2>2. QED
    BY <2>1, RetryStepKinds, TypeStep DEF RetryTypeOK
<1>2. \A f \in Stage : Affected(f) \subseteq Stage
  BY DEF Affected, Stage
<1> DEFINE Op == [pc : {"ready", "listed", "marked"},
                  from : Stage \cup {NoStage}, listed : SUBSET Stage]
           Files == /\ outputs \subseteq Stage
                    /\ sidecar \in [Stage -> {"none", "completed", "invalid"}]
                    /\ task \in [Process -> {"none", "begun", "lacking", "produced"}]
                    /\ owed \subseteq Stage
           Commanded == operator \in Op /\ (operator.pc # "ready" => operator.from \in Stage)
<1>3. Files /\ Commanded
  BY DEF RetryTypeOK
<1>4. (Commanded /\ UNCHANGED operator) => Commanded'
  OBVIOUS
<1>5. Ready \in Op
  BY DEF Ready
<1>6. ASSUME NEW f \in RetryFrom, RetryLoad(f)
      PROVE  Files' /\ Commanded'
  <2>1. f \in Stage /\ Selected(f) \subseteq Stage
    BY <1>2 DEF Selected
  <2>2. QED
    BY <1>3, <1>6, <2>1 DEF RetryLoad, files
<1>7. ASSUME RetryMark
      PROVE  Files' /\ Commanded'
  BY <1>3, <1>5, <1>7 DEF RetryMark, files, history, Ready
<1>8. ASSUME NEW s \in Stage, RetryInvalidate(s)
      PROVE  Files' /\ Commanded'
  <2>1. operator' = [operator EXCEPT !.listed = @ \ {s}]
    BY <1>8 DEF RetryInvalidate
  <2>2. operator \in Op /\ operator.listed \ {s} \in SUBSET Stage
    BY <1>3
  <2>3. operator' \in Op /\ operator'.pc = operator.pc /\ operator'.from = operator.from
    BY <2>1, <2>2
  <2>4. Commanded'
    BY <1>3, <2>3
  <2>5. UNCHANGED << outputs, task, owed >>
    BY <1>8 DEF RetryInvalidate, history
  <2>6. sidecar' \in [Stage -> {"none", "completed", "invalid"}]
    BY <1>3, <1>8 DEF RetryInvalidate
  <2>7. Files'
    BY <1>3, <2>5, <2>6
  <2>8. QED
    BY <2>4, <2>7
<1>9. ASSUME RetryQueue
      PROVE  Files' /\ Commanded'
  <2>1. owed' \subseteq Stage
    BY <1>2, <1>3, <1>9 DEF RetryQueue
  <2>2. QED
    BY <1>3, <1>5, <1>9, <2>1 DEF RetryQueue, Ready
<1>10. ASSUME RetryKilled
       PROVE  Files' /\ Commanded'
  BY <1>3, <1>5, <1>10 DEF RetryKilled, files, history, Ready
<1>11. ASSUME NEW w \in Process, Begin(w) \/ Fail(w) \/ Die(w)
       PROVE  Files' /\ Commanded'
  BY <1>3, <1>4, <1>11 DEF Begin, Fail, Die, Becomes, command, history
<1>12. ASSUME NEW w \in Process, Execute(w)
       PROVE  Files' /\ Commanded'
  BY <1>3, <1>4, <1>12 DEF Execute, Becomes, command
<1>13. ASSUME NEW w \in Process, Complete(w)
       PROVE  Files' /\ Commanded'
  <2>1. worker[w].stage \in Stage
    BY <1>13 DEF Complete, CompleteStage, RetryTypeOK, TypeOK
  <2>2. QED
    BY <1>3, <1>4, <1>13, <2>1 DEF Complete, Becomes, command, history
<1>14. ASSUME UNCHANGED << command, files, history >>
       PROVE  Files' /\ Commanded'
  BY <1>3, <1>4, <1>14 DEF command, files, history
<1>15. Files' /\ Commanded'
  BY <1>6, <1>7, <1>8, <1>9, <1>10, <1>11, <1>12, <1>13, <1>14
     DEF RetryNext, Command, Serve, Schedule, Renew, TimePasses, retryVars, command
<1>16. QED
  BY <1>1, <1>15 DEF RetryTypeOK

-----------------------------------------------------------------------------
(* The tokens and who executes what, under every step.                      *)

LEMMA CommandSpares ==
    ASSUME RetryInductive, RetryMark \/ RetryQueue
    PROVE  /\ LeasesAreExclusive'
           /\ \A s \in Stage : Open(stages'[s])
           /\ worker' = worker
           /\ \A w \in Process : Executes(w)' => Executes(w)
<1>1. worker' = worker /\ \A s \in Stage : Rewritten(stages[s], stages'[s])
  BY CommandRewrites DEF RetryInductive, RetryMark, RetryQueue
<1>2. \A s \in Stage : Open(stages'[s])
  BY <1>1 DEF RetryInductive, Rewritten, Open
<1>3. \A w \in Process : Serving(w) => worker[w].stage \in Stage
  BY DEF RetryInductive, RetryTypeOK, TypeOK, Serving
<1>4. \A w \in Process : Executes(w)' => Executes(w)
  <2>1. ASSUME NEW w \in Process, Executes(w)'
        PROVE  Executes(w)
    <3>1. worker[w].stage \in Stage
      BY <1>1, <1>3, <2>1 DEF Executes, Serving
    <3>2. Rewritten(stages[worker[w].stage], stages'[worker[w].stage])
      BY <1>1, <3>1
    <3>3. QED
      BY <1>1, <2>1, <3>2 DEF Executes, Rewritten
  <2>2. QED
    BY <2>1
<1>5. LeasesAreExclusive'
  BY <1>1, <1>3 DEF RetryInductive, LeasesAreExclusive, Rewritten, Serving
<1>6. QED
  BY <1>1, <1>2, <1>4, <1>5

LEMMA RetryFencingStep ==
    ASSUME RetryInductive, [RetryNext]_retryVars
    PROVE  LeasesAreExclusive' /\ \A s \in Stage : Open(stages'[s])
<1>1. ASSUME [Next]_vars
      PROVE  \A s \in Stage : Open(stages'[s])
  <2> TAKE s \in Stage
  <2>1. stages[s] \in StageRecord /\ Transformed(stages[s], stages'[s]) /\ Open(stages[s])
    BY <1>1, StepTransforms DEF RetryInductive, RetryTypeOK, TypeOK
  <2>2. QED
    BY <2>1, TransformedRecord
<1>2. ASSUME [Next]_vars
      PROVE  LeasesAreExclusive'
  BY <1>2, FencingStep DEF RetryInductive, RetryTypeOK
<1>3. QED
  BY <1>1, <1>2, RetryStepKinds, CommandSpares

\* A worker other than the one that begins a stage executes what it executed.
LEMMA StillExecuting ==
    ASSUME RetryInductive, [Next]_vars, NEW w \in Process, Executes(w)',
           worker[w].pc = "running" \/ ~BeginStage(w)
    PROVE  Executes(w) /\ worker'[w].stage = worker[w].stage
<1>1. worker'[w].stage = worker[w].stage /\ (Executes(w) \/ BeginStage(w))
  BY ExecutionComesFromBegin DEF RetryInductive, RetryTypeOK
<1>2. worker[w].pc = "running" => ~BeginStage(w)
  BY DEF BeginStage
<1>3. QED
  BY <1>1, <1>2

-----------------------------------------------------------------------------
(* The parts of the invariant that speak of the files.                      *)

FilesAreCurrent ==
    /\ \A s \in owed : sidecar[s] # "completed"
    /\ ListIsComplete
    /\ InputsAreCurrent
    /\ RetryIsHonoured

\* A step that touches no file and publishes nothing keeps them.
LEMMA FilesUntouched ==
    ASSUME RetryInductive, UNCHANGED << operator, outputs, sidecar, history >>,
           \A w \in Process : Executes(w)' => /\ Executes(w)
                                             /\ worker'[w].stage = worker[w].stage
                                             /\ task'[w] \in {task[w], "none"},
           run_status' = "rendered" => run_status = "rendered"
    PROVE  FilesAreCurrent'
<1>1. ListIsComplete'
  BY DEF RetryInductive, ListIsComplete, history, Affected
<1>2. InputsAreCurrent'
  BY DEF RetryInductive, InputsAreCurrent, history
<1>3. QED
  BY <1>1, <1>2 DEF RetryInductive, RetryIsHonoured, FilesAreCurrent, history

LEMMA LoadStep ==
    ASSUME RetryInductive, NEW f \in RetryFrom, RetryLoad(f)
    PROVE  FilesAreCurrent'
<1>1. UNCHANGED << stages, worker, run_status, outputs, sidecar, task, owed >>
  BY DEF RetryLoad, files, vars
<1>2. operator'.from = f /\ operator'.listed = Selected(f)
  BY DEF RetryLoad
<1>3. ListIsComplete'
  BY <1>1, <1>2 DEF ListIsComplete, Selected, Affected
<1>4. InputsAreCurrent'
  BY <1>1 DEF RetryInductive, InputsAreCurrent, Executes
<1>5. QED
  BY <1>1, <1>3, <1>4 DEF RetryInductive, RetryIsHonoured, FilesAreCurrent

LEMMA MarkStep ==
    ASSUME RetryInductive, RetryMark
    PROVE  FilesAreCurrent'
<1>1. UNCHANGED << outputs, sidecar, task, written, owed >>
  BY DEF RetryMark, files, history
<1>2. \/ operator'.pc = "ready"
      \/ /\ operator.pc # "ready" /\ operator'.from = operator.from
         /\ operator'.listed = operator.listed
  BY DEF RetryMark, Ready, RetryInductive, RetryTypeOK
<1>3. ListIsComplete'
  BY <1>1, <1>2 DEF RetryInductive, ListIsComplete, Affected
<1>4. worker' = worker /\ \A w \in Process : Executes(w)' => Executes(w)
  BY CommandSpares
<1>5. InputsAreCurrent'
  BY <1>1, <1>4 DEF RetryInductive, InputsAreCurrent
<1>6. run_status' = "queued" \/ run_status' = run_status
  BY DEF RetryMark, durable
<1>7. QED
  BY <1>1, <1>3, <1>5, <1>6 DEF RetryInductive, RetryIsHonoured, FilesAreCurrent

LEMMA InvalidateStep ==
    ASSUME RetryInductive, NEW s \in Stage, RetryInvalidate(s)
    PROVE  FilesAreCurrent'
<1>1. UNCHANGED << stages, worker, run_status, outputs, task, written, owed >>
  BY DEF RetryInvalidate, history, vars
<1>2. /\ \A q \in Stage : sidecar'[q] = IF q = s THEN "invalid" ELSE sidecar[q]
      /\ operator.pc # "ready" /\ operator'.from = operator.from
      /\ operator'.listed = operator.listed \ {s}
  BY DEF RetryInvalidate, RetryInductive, RetryTypeOK
<1>3. operator.from \in Stage /\ Affected(operator.from) \subseteq Stage
  BY <1>2 DEF Affected, Stage, RetryInductive, RetryTypeOK
<1>4. ListIsComplete'
  BY <1>1, <1>2, <1>3 DEF RetryInductive, ListIsComplete, Affected
<1>5. InputsAreCurrent'
  BY <1>1 DEF RetryInductive, InputsAreCurrent, Executes
<1>6. \A q \in owed' : sidecar'[q] # "completed"
  BY <1>1, <1>2 DEF RetryInductive, RetryTypeOK
<1>7. QED
  BY <1>1, <1>4, <1>5, <1>6 DEF RetryInductive, RetryIsHonoured, FilesAreCurrent

LEMMA QueueStep ==
    ASSUME RetryInductive, RetryQueue
    PROVE  FilesAreCurrent'
<1> DEFINE f == operator.from
<1>1. /\ UNCHANGED << worker, sidecar, task, written >>
      /\ outputs' = outputs \ Affected(f)
      /\ owed' = (owed \cup Affected(f)) \ written
      /\ operator.pc # "ready" /\ operator.listed = {}
      /\ operator' = Ready /\ run_status' = "queued"
      /\ stages' = [s \in Stage |-> IF s \in Affected(f)
                                    THEN Requeued(stages[s], s = f) ELSE stages[s]]
  BY DEF RetryQueue
<1>2. f \in Stage /\ \A q : q \in Affected(f) <=> q \in Stage /\ q >= f
  BY <1>1 DEF RetryInductive, RetryTypeOK, Affected, Stage
<1>3. \A q \in owed' : sidecar'[q] # "completed"
  BY <1>1 DEF RetryInductive, ListIsComplete
<1>4. outputs \subseteq Stage
  BY DEF RetryInductive, RetryTypeOK
<1>5. \A s \in outputs', q \in owed' : q > s
  <2> TAKE s \in outputs', q \in owed'
  <2>1. s \in Stage /\ s < f
    BY <1>1, <1>2, <1>4 DEF Stage
  <2>2. CASE q \in owed
    BY <1>1, <2>2 DEF RetryInductive, InputsAreCurrent
  <2>3. CASE q \in Affected(f)
    BY <1>2, <2>1, <2>3 DEF Stage
  <2>4. QED
    BY <1>1, <2>2, <2>3
<1>6. ASSUME NEW w \in Process, NEW q \in owed', Executes(w)'
      PROVE  /\ task'[w] = "begun" => q >= worker'[w].stage
             /\ task'[w] = "produced" => q > worker'[w].stage
  <2>1. Executes(w) /\ worker[w].stage \in Stage
    BY <1>6, CommandSpares DEF Executes, RetryInductive, RetryTypeOK, TypeOK
  <2>2. PICK s \in Stage : s = worker[w].stage
    BY <2>1
  <2>3. stages'[s].status = "running"
    BY <1>1, <1>6, <2>2 DEF Executes
  <2>4. s \notin Affected(f)
    <3>1. stages[s] \in StageRecord
      BY DEF RetryInductive, RetryTypeOK, TypeOK
    <3>2. Requeued(stages[s], s = f).status # "running"
      BY <3>1, RequeuedRecord
    <3>3. QED
      BY <1>1, <2>3, <3>2
  <2>5. CASE q \in owed
    BY <1>1, <2>1, <2>5 DEF RetryInductive, InputsAreCurrent
  <2>6. CASE q \in Affected(f)
    BY <1>1, <1>2, <2>2, <2>4, <2>6 DEF Stage
  <2>7. QED
    BY <1>1, <2>5, <2>6
<1>7. InputsAreCurrent'
  BY <1>5, <1>6 DEF InputsAreCurrent
<1>8. QED
  BY <1>1, <1>3, <1>7 DEF FilesAreCurrent, ListIsComplete, RetryIsHonoured, Ready

LEMMA BeginKeepsFiles ==
    ASSUME RetryInductive, NEW w \in Process, Begin(w)
    PROVE  FilesAreCurrent'
<1>1. /\ BeginStage(w) /\ [Next]_vars
      /\ UNCHANGED << operator, outputs, sidecar, written, owed, run_status >>
  BY DEF Begin, BeginStage, command, history, durable, Next, Step
<1>2. \A v \in Process :
        task'[v] = IF v # w THEN task[v]
                   ELSE IF worker'[w].pc # "running" THEN "none"
                   ELSE IF worker[w].stage = 1 \/ worker[w].stage - 1 \in outputs
                   THEN "begun" ELSE "lacking"
  BY DEF Begin, Becomes, RetryInductive, RetryTypeOK
<1>3. worker[w].stage \in Stage /\ worker'[w].stage = worker[w].stage
  BY <1>1 DEF BeginStage, Goto, Proceed, RetryInductive, RetryTypeOK, TypeOK
<1>4. \A v \in Process : v # w => worker'[v] = worker[v]
  BY <1>1 DEF BeginStage, Goto, Proceed, RetryInductive, RetryTypeOK, TypeOK
<1>5. ASSUME NEW v \in Process, v # w, Executes(v)'
      PROVE  Executes(v) /\ worker'[v].stage = worker[v].stage
  BY <1>1, <1>4, <1>5, StillExecuting DEF BeginStage, Executes
<1>6. ASSUME NEW q \in owed', task'[w] = "begun"
      PROVE  q >= worker'[w].stage
  <2>1. q \in Stage /\ q \in owed
    BY <1>1, <1>6 DEF RetryInductive, RetryTypeOK
  <2>2. worker[w].stage = 1 \/ worker[w].stage - 1 \in outputs
    BY <1>2, <1>6
  <2>3. worker[w].stage - 1 \in outputs => q > worker[w].stage - 1
    BY <2>1 DEF RetryInductive, InputsAreCurrent
  <2>4. QED
    BY <1>3, <2>1, <2>2, <2>3 DEF Stage
<1>7. ASSUME NEW v \in Process, NEW q \in owed', Executes(v)'
      PROVE  /\ task'[v] = "begun" => q >= worker'[v].stage
             /\ task'[v] = "produced" => q > worker'[v].stage
  <2>1. CASE v = w
    BY <1>2, <1>6, <2>1
  <2>2. CASE v # w
    BY <1>1, <1>2, <1>5, <1>7, <2>2 DEF RetryInductive, InputsAreCurrent
  <2>3. QED
    BY <2>1, <2>2
<1>8. InputsAreCurrent'
  BY <1>1, <1>7 DEF RetryInductive, InputsAreCurrent
<1>9. QED
  BY <1>1, <1>8 DEF RetryInductive, RetryIsHonoured, FilesAreCurrent, ListIsComplete, Affected

LEMMA ExecuteStep ==
    ASSUME RetryInductive, NEW w \in Process, Execute(w)
    PROVE  FilesAreCurrent'
<1> DEFINE s == worker[w].stage
           redone == IF sidecar[s] = "completed" THEN {} ELSE {s}
<1>1. /\ worker[w].pc = "running" /\ task[w] = "begun"
      /\ UNCHANGED << stages, worker, run_status, operator, outputs >>
      /\ written' = written \cup redone /\ owed' = owed \ redone
      /\ sidecar' = [sidecar EXCEPT ![s] = "completed"]
  BY DEF Execute, vars, command
<1>2. s \in Stage
  BY <1>1 DEF RetryInductive, RetryTypeOK, TypeOK
<1>3. /\ \A q \in Stage : sidecar'[q] = IF q = s THEN "completed" ELSE sidecar[q]
      /\ \A v \in Process : task'[v] = IF v = w THEN "produced" ELSE task[v]
  BY <1>1 DEF Execute, Becomes, RetryInductive, RetryTypeOK
<1>4. s \notin owed'
  BY <1>1 DEF RetryInductive
<1>5. owed' \subseteq owed /\ owed \subseteq Stage
  BY <1>1 DEF RetryInductive, RetryTypeOK
<1>6. \A q \in owed' : sidecar'[q] # "completed"
  BY <1>3, <1>4, <1>5 DEF RetryInductive
<1>7. ListIsComplete'
  <2>1. operator.pc # "ready" => Affected(operator.from) \subseteq Stage
    BY DEF RetryInductive, RetryTypeOK, Affected, Stage
  <2>2. sidecar[s] # "completed" => s \in written'
    BY <1>1
  <2>3. written \subseteq written'
    BY <1>1
  <2>4. QED
    BY <1>1, <1>3, <2>1, <2>2, <2>3 DEF RetryInductive, ListIsComplete, Affected
<1>8. ASSUME NEW v \in Process, NEW q \in owed', Executes(v)'
      PROVE  /\ task'[v] = "begun" => q >= worker'[v].stage
             /\ task'[v] = "produced" => q > worker'[v].stage
  <2>1. Executes(v) /\ q \in owed /\ q \in Stage /\ q # s
    BY <1>1, <1>4, <1>5, <1>8 DEF Executes
  <2>2. CASE v = w
    <3>1. q >= s
      BY <1>1, <2>1, <2>2 DEF RetryInductive, InputsAreCurrent
    <3>2. QED
      BY <1>1, <1>2, <1>3, <2>1, <2>2, <3>1 DEF Stage
  <2>3. CASE v # w
    BY <1>1, <1>3, <2>1, <2>3 DEF RetryInductive, InputsAreCurrent
  <2>4. QED
    BY <2>2, <2>3
<1>9. InputsAreCurrent'
  BY <1>1, <1>5, <1>8 DEF RetryInductive, InputsAreCurrent
<1>10. QED
  BY <1>1, <1>5, <1>6, <1>7, <1>9 DEF RetryInductive, RetryIsHonoured, FilesAreCurrent

\* Only the holder of the lease publishes, and nothing up to its stage is owed.
LEMMA CompleteKeepsFiles ==
    ASSUME RetryInductive, NEW w \in Process, Complete(w)
    PROVE  FilesAreCurrent'
<1> DEFINE s == worker[w].stage
<1>1. /\ CompleteStage(w) /\ [Next]_vars /\ task[w] = "produced"
      /\ worker[w].pc = "running"
      /\ UNCHANGED << operator, sidecar, written, owed >>
      /\ outputs' = outputs \cup (IF stages' = stages THEN {} ELSE {s})
  BY DEF Complete, CompleteStage, command, history, Next, Step
<1>2. s \in Stage
  BY <1>1 DEF RetryInductive, RetryTypeOK, TypeOK
<1>3. \A v \in Process : task'[v] \in {task[v], "none"}
  BY DEF Complete, Becomes, RetryInductive, RetryTypeOK
<1>4. \A v \in Process : worker'[v] = worker[v] \/ worker'[v].pc = "returned"
  BY <1>1 DEF CompleteStage, Goto, Proceed, RetryInductive, RetryTypeOK, TypeOK
<1>5. ASSUME NEW v \in Process, Executes(v)'
      PROVE  Executes(v) /\ worker'[v].stage = worker[v].stage
  BY <1>1, <1>4, <1>5, StillExecuting DEF Executes
<1>6. (\E t \in Moments(w) : HoldsStage(w, t)) => \A q \in owed : q > s
  BY <1>1 DEF HoldsStage, HoldsLease, Executes, RetryInductive, InputsAreCurrent
<1>7. stages' # stages => \E t \in Moments(w) : HoldsStage(w, t)
  BY <1>1 DEF CompleteStage, durable
<1>8. ASSUME NEW a \in outputs', NEW q \in owed'
      PROVE  q > a
  BY <1>1, <1>6, <1>7 DEF RetryInductive, InputsAreCurrent
<1>9. ASSUME NEW v \in Process, NEW q \in owed', Executes(v)'
      PROVE  /\ task'[v] = "begun" => q >= worker'[v].stage
             /\ task'[v] = "produced" => q > worker'[v].stage
  BY <1>1, <1>3, <1>5, <1>9 DEF RetryInductive, InputsAreCurrent
<1>10. InputsAreCurrent'
  BY <1>8, <1>9 DEF InputsAreCurrent
<1>11. ASSUME run_status' = "rendered", run_status # "rendered"
       PROVE  owed' = {}
  <2>1. \E t \in Moments(w) : HoldsStage(w, t) /\ run_status' = StageRunStatus(s)
    BY <1>1, <1>11 DEF CompleteStage, durable
  <2>2. s = NStages
    BY <1>11, <2>1 DEF StageRunStatus
  <2>3. owed \subseteq Stage
    BY DEF RetryInductive, RetryTypeOK
  <2>4. QED
    BY <1>1, <1>6, <2>1, <2>2, <2>3 DEF Stage
<1>12. RetryIsHonoured'
  BY <1>1, <1>11 DEF RetryInductive, RetryIsHonoured
<1>13. QED
  BY <1>1, <1>10, <1>12 DEF RetryInductive, FilesAreCurrent, ListIsComplete, Affected

LEMMA SettingAside ==
    ASSUME RetryInductive, NEW w \in Process, Fail(w) \/ Die(w)
    PROVE  FilesAreCurrent'
<1>1. FailStage(w) \/ Abandon(w)
  BY DEF Fail, Die
<1>2. /\ [Next]_vars
      /\ UNCHANGED << operator, outputs, sidecar, history >>
  BY DEF Fail, Die, Next, Step, command
<1>3. \A v \in Process : task'[v] \in {task[v], "none"}
  BY DEF Fail, Die, Becomes, RetryInductive, RetryTypeOK
<1>4. \A v \in Process : worker'[v] = worker[v] \/ worker'[v].pc \in {"returned", "idle"}
  <2>1. CASE FailStage(w)
    BY <2>1 DEF FailStage, Goto, Proceed, RetryInductive, RetryTypeOK, TypeOK
  <2>2. CASE Abandon(w)
    BY <2>2 DEF Abandon, Rest, Idle, RetryInductive, RetryTypeOK, TypeOK
  <2>3. QED
    BY <1>1, <2>1, <2>2
<1>5. ASSUME NEW v \in Process, Executes(v)'
      PROVE  Executes(v) /\ worker'[v].stage = worker[v].stage
  BY <1>2, <1>4, <1>5, StillExecuting DEF Executes
<1>6. run_status' = "rendered" => run_status = "rendered"
  BY <1>1 DEF FailStage, Abandon, durable
<1>7. QED
  BY <1>2, <1>3, <1>5, <1>6, FilesUntouched

\* What workers do between stages, renewals, and the passing of time.
LEMMA Elsewhere ==
    ASSUME RetryInductive, UNCHANGED << command, files, history >>,
           \/ UNCHANGED vars \/ Tick
           \/ \E w \in Process :
                 AdvanceRun(w) \/ FindJob(w) \/ ClaimJob(w) \/ AdvanceAfter(w) \/ RenewLease(w)
    PROVE  FilesAreCurrent'
<1>1. [Next]_vars
  BY DEF Next, Step
<1>2. UNCHANGED << operator, outputs, sidecar, task, history >>
  BY DEF command, files
<1>3. \A v \in Process : worker'[v].pc = "running" => worker'[v] = worker[v]
  <2>1. ASSUME NEW w \in Process, NEW pc, NEW s, NEW g, pc # "running",
               Proceed(w, pc, s, g)
        PROVE  \A v \in Process : worker'[v].pc = "running" => worker'[v] = worker[v]
    BY <2>1 DEF Proceed, RetryInductive, RetryTypeOK, TypeOK
  <2>2. ASSUME NEW w \in Process, Rest(w)
        PROVE  \A v \in Process : worker'[v].pc = "running" => worker'[v] = worker[v]
    BY <2>2 DEF Rest, Idle, RetryInductive, RetryTypeOK, TypeOK
  <2>3. ASSUME NEW w \in Process, AdvanceRun(w)
        PROVE  \A v \in Process : worker'[v].pc = "running" => worker'[v] = worker[v]
    BY <2>3 DEF AdvanceRun, RetryInductive, RetryTypeOK, TypeOK, WorkerState
  <2>4. ASSUME NEW w \in Process, FindJob(w) \/ ClaimJob(w) \/ AdvanceAfter(w)
        PROVE  \A v \in Process : worker'[v].pc = "running" => worker'[v] = worker[v]
    BY <2>1, <2>2, <2>4 DEF FindJob, ClaimJob, Grant, Retire, AdvanceAfter
  <2>5. QED
    BY <2>3, <2>4 DEF vars, Tick, RenewLease
<1>4. ASSUME NEW v \in Process, Executes(v)'
      PROVE  Executes(v) /\ worker'[v].stage = worker[v].stage
  BY <1>1, <1>3, <1>4, StillExecuting DEF Executes
<1>5. run_status' = "rendered" => run_status = "rendered"
  BY DEF vars, Tick, AdvanceRun, FindJob, ClaimJob, Grant, Retire, AdvanceAfter,
     RenewLease, QueueNextReady, durable
<1>6. QED
  BY <1>2, <1>4, <1>5, FilesUntouched

LEMMA RetryInductiveStep ==
    ASSUME RetryInductive, [RetryNext]_retryVars
    PROVE  RetryInductive'
<1>1. FilesAreCurrent'
  <2>1. CASE UNCHANGED retryVars
    BY <2>1, Elsewhere DEF retryVars, command
  <2>2. CASE Command \/ RetryKilled
    <3>1. ASSUME RetryKilled
          PROVE  FilesAreCurrent'
      BY <3>1 DEF RetryKilled, RetryInductive, FilesAreCurrent, ListIsComplete, Ready,
         InputsAreCurrent, RetryIsHonoured, Executes, vars, files, history
    <3>2. QED
      BY <2>2, <3>1, LoadStep, MarkStep, InvalidateStep, QueueStep DEF Command
  <2>3. ASSUME NEW w \in Process, Serve(w) \/ Renew(w) \/ Die(w)
        PROVE  FilesAreCurrent'
    BY <2>3, BeginKeepsFiles, ExecuteStep, CompleteKeepsFiles, SettingAside, Elsewhere
       DEF Serve, Schedule, Renew
  <2>4. CASE TimePasses
    BY <2>4, Elsewhere DEF TimePasses
  <2>5. QED
    BY <2>1, <2>2, <2>3, <2>4 DEF RetryNext
<1>2. RetryTypeOK'
  BY RetryTypeStep DEF RetryInductive
<1>3. LeasesAreExclusive' /\ (\A s \in Stage : Open(stages[s]))'
  BY RetryFencingStep
<1>4. QED
  BY <1>1, <1>2, <1>3 DEF RetryInductive, FilesAreCurrent

LEMMA RetryInductiveInit ==
    ASSUME RetryInit
    PROVE  RetryInductive
<1>1. Init
  BY DEF RetryInit
<1>2. TypeOK /\ LeasesAreExclusive /\ \A s \in Stage : Open(stages[s])
  BY <1>1 DEF Init, TypeOK, RunStatus, StageRecord, NewRecord, StageStatus, Time, None,
     WorkerState, Idle, Phase, LeasesAreExclusive, Serving, Open
<1>3. RetryTypeOK
  BY <1>2 DEF RetryInit, RetryTypeOK, Ready
<1>4. QED
  BY <1>2, <1>3 DEF RetryInit, RetryInductive, ListIsComplete, InputsAreCurrent,
     RetryIsHonoured, Ready

LEMMA RetryInvariance == RetrySpec => []RetryInductive
  BY RetryInductiveInit, RetryInductiveStep, PTL DEF RetrySpec

-----------------------------------------------------------------------------
(* The theorems.                                                            *)

\* Type correctness of the command and of the files, through every retry.
THEOREM RetryTypeTheorem == RetrySpec => []RetryTypeOK
<1>1. RetryInductive => RetryTypeOK
  BY DEF RetryInductive
<1>2. QED
  BY <1>1, RetryInvariance, PTL

\* retry.py against worker.py: when a run is rendered again, whatever an operator
\* asked for has been made anew since its sidecars were listed, for any number
\* of workers, requests and stages, and with commands killed at any step.
THEOREM HonourTheorem == RetrySpec => []RetryIsHonoured
<1>1. RetryInductive => RetryIsHonoured
  BY DEF RetryInductive
<1>2. QED
  BY <1>1, RetryInvariance, PTL

\* The fencing of manifest.py survives the command: requeueing a stage under a
\* live worker's feet never lets two of them hold the same token.
THEOREM RetryFencingTheorem == RetrySpec => []LeasesAreExclusive
<1>1. RetryInductive => LeasesAreExclusive
  BY DEF RetryInductive
<1>2. QED
  BY <1>1, RetryInvariance, PTL

\* retry.py grants attempts without touching the ledger: no step of a worker or
\* of the command drops or rewrites a closed entry of a stage's history.
THEOREM HistoryTheorem == RetrySpec => HistoryIsPreserved
<1>1. ASSUME RetryInductive, [RetryNext]_retryVars
      PROVE  Preserved
  <2>1. ASSUME NEW s \in Stage
        PROVE  Continues(stages[s].attempts, stages'[s].attempts)
    <3>1. stages[s] \in StageRecord /\ Open(stages[s])
      BY <1>1 DEF RetryInductive, RetryTypeOK, TypeOK
    <3>2. CASE [Next]_vars
      <4>1. Transformed(stages[s], stages'[s])
        BY <1>1, <3>2, StepTransforms DEF RetryInductive, RetryTypeOK
      <4>2. QED
        BY <3>1, <4>1, TransformedRecord
    <3>3. CASE RetryMark \/ RetryQueue
      <4>1. stages'[s].attempts = stages[s].attempts
        BY <1>1, <3>3, CommandRewrites DEF RetryInductive, Rewritten
      <4>2. stages[s].attempts \in Seq(Attempt)
        BY <3>1 DEF StageRecord
      <4>3. QED
        BY <4>1, <4>2 DEF Continues
    <3>4. QED
      BY <1>1, <3>2, <3>3, RetryStepKinds
  <2>2. QED
    BY <2>1 DEF Preserved, Continues
<1>2. QED
  BY <1>1, RetryInvariance, PTL DEF RetrySpec, HistoryIsPreserved

=============================================================================
