# A verification of video-translator

video-translator dubs a video in six stages, `ingest`, `transcribe`, `segment`,
`localize`, `synthesize` and `render`. Each run is a directory whose
`manifest.json` is the only authority: web processes queue work in it, workers
claim stages under expiring leases, operators retry or run stages by hand, and
any of them may die at any moment. This directory models that coordination in
TLA+, checks it with TLC on small instances and proves with TLAPS, for every value
of the constants, each safety invariant and action property that a run checks, except
one (section 5).

## 1. Inventory

| component | state it keeps | operations | what is hard | what makes it correct |
|---|---|---|---|---|
| manifest (`manifest.py`, `state_store.py`) | `manifest.json`: run status, per stage status, attempts, lease, backoff; revision; lock file | begin, renew, complete, fail, load, save, mutate | every caller reads the clock before it waits for the lock; the revision check is all that protects a held copy | a stale holder commits nothing; each attempt has one entry, closed once |
| worker loop (`worker.py`) | none but the job in hand and a renewal thread | scan, queue next stage, claim, reclaim, exhaust, renew, supervise | unlocked scan then locked claim; crash anywhere; one identity shared by several processes | order, exclusion, bounded attempts, progress, no stranded work |
| stage execution (`runner.py`) | none | run a stage, classify its failure | errors while executing under a lost lease | an outcome is always recorded by the owner or left to expiry |
| HTTP side (`webapp.py`, `runner.py`, `upload.py`) | staged uploads, the run directory | create job, queue stage, list, serve | save and queue are two transactions; the stage endpoint takes any order | a saved run goes on without the web process; live work is never requeued |
| operator retry (`retry.py`) | sidecar statuses, retry reports | two locked phases around unlocked file writes | kill and workers between the phases; stale listing | what was asked for is redone; history is kept; running work is spared |
| stage commands (`cli.py`) | a manifest held in memory across the work | load, start, complete, fail | no lease, no heartbeat; long window between load and save | a save undoes nothing that workers did |
| translation (`localize.py`) | batches, sidecars, attempt files, aggregate | plan, reuse, call, validate, publish | crash between files; two workers in one directory | a valid batch is reused, an invalid one never is |
| synthesis (`synthesize.py`) | per utterance takes, results with sidecars, one history of attempts, the aggregate | reuse, reconcile, speak, publish, take over | deaths between any two writes; revisions are numbered by audio files, which are ahead of results and history | a take is recorded once and keeps its audio |
| duration fitting (`duration.py`) | per take a ledger of corrections, candidates, numbered fits | judge, next tactic, carry out, choose, publish | limits counted over a ledger that restarts repair; two tolerances | corrections end; a verdict is about the audio delivered with it |
| rendering (`render.py`) | numbered revisions in five directories, a history of commands, reports | plan, execute, check, resume, take over | interrupted commands; lost directories; parts of a revision invalidated | a report tells of files that are what it says; proven media stay |
| artifact proof (`artifacts.py`) | sidecars | write, verify | file replaced without its sidecar | reuse only on matching hash and inputs |
| observability (`observability.py`) | `run-events.jsonl`, a projection | project, report | crash between replace and projection | projection converges to the manifest |
| creator page (`site/app.js`) | job id, URL, poll timer, the status shown, the preview with its links, the chosen file, a storage shared by the tabs | choose, submit, poll, restore, reset, release | answers that come late, out of turn or never; several tabs | the status is of the followed job, never an older state of it, and its end is shown |
| multipart upload (`upload.py`) | a buffer over the stream | skip the preamble, read markers, headers and bodies | delimiters cut by reads; truncated streams | what is accepted is what was sent, in bounded memory |
| segmentation (`transcribe.py`, `utterances.py`) | none | group words into utterances | boundaries | partition of the words, in order |
| gates (`benchmark.py`, `readiness.py`, `preflight.py`, `storage.py`, `configuration.py`, `ui.py`) | reports | read and judge | unmeasured values | no gate passes on missing evidence |

Everything meets in the manifest. A job is created by the web process, found by
a scan, claimed, executed with the lease renewed by a second thread, committed,
and the next stage is queued by whoever scans next. Retry and the stage commands
write to the same record from other processes.

`PROJECT.json` lists what can go wrong at which line under `hazards`, with the
properties that speak of it.

## 2. Modules

| module | models | notes |
|---|---|---|
| `Manifest` | the stage record and the pure transformations the locked sections apply to it | no variables |
| `Workers` | `worker.py`, leased operations of `manifest.py`, `_run_stage` | extends `Manifest` |
| `Pipeline` | what a run promises: in order, one at a time, each stage delivered once, bounded tries, nothing after failure | abstract specification |
| `WorkersProofs` | theorems about `Workers` | TLAPS |
| `OperatorRetry` | `retry.py` against the workers, with outputs and sidecars | extends `Workers` |
| `WebJobs` | `create_job`, the stage endpoint and `QueuedJobRunner` against the workers | extends `Workers` |
| `CliStage` | a stage command of `cli.py` against the workers | extends `Workers` |
| `WritersProofs` | theorems about `OperatorRetry`, `WebJobs` and `CliStage` | TLAPS; extends `WorkersProofs` |
| `Numbered` | directories of numbered files: the oldest, the newest, writing one | no variables |
| `NumberedProofs` | lemmas about `Numbered`, least elements among them | TLAPS |
| `Localize` | `LocalizationPipeline.run` on the files of a run directory | extends `Numbered`; no manifest |
| `LocalizeProofs` | theorems about `Localize` with one process | TLAPS |
| `Duration` | what `duration.py` decides: when audio fits, the next tactic, the candidate kept, the verdict | no variables |
| `Speech` | `SynthesisPipeline.run` and `DurationCorrector` on the files of a run directory | extends `Duration`, `Numbered` |
| `SpeechProofs` | theorems about `Speech` | TLAPS |
| `Render` | `RenderPipeline.run` on the files of a run directory | extends `Numbered` |
| `RenderProofs` | theorems about `Render` | TLAPS |
| `RunStore` | manifests as files, the revision check, failed writes, the event log and its repair | below `Site` |
| `Site` | `site/app.js` in several tabs, the job endpoints of `webapp.py` | extends `RunStore` |
| `SiteProofs` | theorems about `Site` and `RunStore` | TLAPS |
| `Upload` | the buffered reader of `upload.py` and the parser over it | stands alone |
| `UploadProofs` | theorems about `Upload` | TLAPS |
| `MC*` | instances for TLC | |

**State.** `stages` and `run_status` are the fields of the same name in
`RunManifest`; a stage record keeps the fields that guards read (status, attempt
count and limit, retryable, backoff, lease expiry, worker, generation) and the
attempt list with status and generation. The run statuses `ingested` to
`synthesized` are one value, `advanced`; `cancelled` is never assigned anywhere
in the code. `now` is the wall clock in ticks. `worker[w]` is the control point of
a worker's serving thread with the job or lease in hand and the time of its
previous step.

**Actions.** One action is one critical section under the manifest lock with the
unlocked reads before it. `AdvanceRun`, `FindJob`, `ClaimJob`, `BeginStage`,
`CompleteStage`/`FailStage` and `AdvanceAfter` follow `run_worker_once` step by
step. `RenewLease` is the keeper thread, which may be late or never run.
`Abandon` is the death of the process, or an outcome that could not be written:
the supervisor loop carries on and the lease expires. All operations compare
deadlines with a moment read *before* they wait for the lock; `Moments(w)` is the
set of values that moment may have.

Definitions marked *Slip* are plausible mistakes in the definition they precede.
No specification uses them. Each property is paired in `PROJECT.json` with a slip
that breaks it, which shows that the property depends on the code it is about.

**The operator retry** adds the command's own progress, the stages whose outputs
the manifest lists, one sidecar per stage and what each execution has come to.
`written` and `owed` are history: what was redone since the listing, and what a
request asked for and nobody has redone yet. **The web side** adds how far
`create_job` has come and what the run directory holds. **The stage commands** add
the held copy and whether its revision is still current.

**The stages that keep files**, `Localize`, `Speech` and `Render`, are modules of
their own, since their pipelines read and write files only. What is on disk (a file,
its sidecar, its history) is apart from what a process holds in memory (`task`):
the two part when a process dies or, in `Localize`, another one works in the same
directory. A write is one step, because every file is written under a temporary
name and renamed; that two processes may share the temporary name is left out.
Contents are numbered as they are produced, so that two files with one number have
equal bytes and a fingerprint is what it is the fingerprint of. `trouble` counts
what the environment did: deaths, failures, forced runs, retries, lost directories.
Operator retry is one step here, for every subset of the files it invalidates, and
is taken apart in `OperatorRetry`.

In `Localize`, `history` is the attempts file of a batch, `file` and `proof` its
numbered results and their sidecars. In `Speech` an utterance has takes (`audio`,
`result`, `history`), each take a ledger of corrections, and each ledger fits; audio
is a number and its deviation from the budget. `setup` is the configuration of a
run, chosen once. In `Render` a revision is one file per kind of `Kind`, and the
report holds the paths and contents it refers to. `task` also says which step of the
run comes next.

**The run store and the page.** Of a manifest only its revision is kept, whether
its run has ended and whether it names a dubbed video; `log` is the revision the event log was projected from. `held`
is a manifest somebody read without the lock and goes on working with, as the
stage commands do; `Mutate` is a critical section of anybody else. A tab is single
threaded, so that everything between two awaits is one step; `posts` and `polls`
are its requests, with the answer on its way once the server has made one. What
`renderJob` paints each time, `shown`, is apart from the `preview` with its download
links, which it replaces only when the status has a dubbed video; choosing a video,
a reset and the release of a missing job clear it, a submission does not. The
server answers in any order, the connection may break before or after it did its
work, and other tabs share `storage`.

**The upload.** Bytes are symbols: `r` and `n` for the line end, `-`, one symbol `b`
for the boundary, one for the headers of each kind of part. `Read` fills the buffer
by as little as one byte and as much as `CHUNK_BYTES`; the other actions are the
functions of the parser, each up to where it asks for more.

## 3. What is checked

| run | bounds | shows |
|---|---|---|
| `MCWorkers.cfg` | 2 processes with one identity, one of them reliable, 2 stages, 2 attempts, lease of 2 ticks, 1 renewal, clock to 26 | `TypeOK`, `StagesInOrder`, `RunStatusMirrorsStages`, `AttemptLedger`, `LeasesAreExclusive`, `NeverStranded`, `OwnerClosesAttempt`, `OutcomesAreFinal`, `ImplementsPipeline`, `RunSettles` |
| `MCRetry.cfg` | 2 processes, 3 stages, 1 attempt and 1 more per request, lease of 2 ticks, 2 requests, clock to 2 | `RetryIsHonoured`, `HistoryIsPreserved` |
| `MCWebJobs.cfg` | 2 stages, 2 attempts, 2 requests to the endpoint, lease of 2 ticks, clock to 6 | `OpenAttempts` |
| `MCWebJobsLive.cfg` | 1 attempt, 1 request, clock to 13 | `SavedRunsSettle` |
| `MCCliStage.cfg` | 3 stages, 2 stage commands after `ingest`, lease of 2 ticks, clock to 3 | `SavesUndoNothing` |
| `MCLocalize.cfg` | 1 process, 2 batches, 2 deaths, 1 failure, 1 retry, 1 forced run | `ProofsAreOnRecord`, `DeathCostsOneCall`, `HistoryOnlyGrows`, `DeliveredIsCurrent`, `LocalizeSettles` |
| `MCSpeech.cfg` | 1 utterance, 3 deviations, 2 configurations, 4 corrections, any 2 of: 2 deaths, a failure, a retry, a forced run | `TakesAreOnRecord`, `CorrectionsAreBounded`, `TacticsAreLimited`, `FitsAreHonest`, `TakesKeepTheirAudio`, `DeliveredIsAsJudged`, `SpeechSettles` |
| `MCRender.cfg` | any 3 of: 2 deaths, a failure, a retry, a forced run, a lost report directory | `ReportsTellTheTruth`, `RenderedIsKept`, `DeliveredIsProven`, `RenderSettles` |
| `MCSite.cfg` | 1 tab, 2 jobs, 1 holder, 2 submissions, 2 resets or reloads, 2 troubles, revisions to 2 | `ShownIsFollowed`, `EventsAreOfTheirStatus`, `ConflictsAreReal`, `ShownNeverGoesBack`, `PageSettles` |
| `MCUpload.cfg` | 4 bodies, 2 preambles, up to 2 parts, every cut, reads of 1 to 3 bytes, headers to 6, fields to 4 | `UploadIsExact`, `MemoryIsBounded`, `UploadEnds` |
| `MCRetryActive.cfg`, `MCSpeechKept.cfg` | | what section 4 tells |

**Bounds.** Two processes are enough for every pairwise hazard: a stalled owner and
the one that took over. Two stages have a predecessor and a successor; three are
needed where an operator acts in the middle of a run. Two attempts let the first
be retried, abandoned or reclaimed and the second be the last. A lease of two
ticks with renewal after one lets a keeper be in time, late or absent.
`MaxTime` stops the clock; in the safety runs it is large enough for every stage
to lose its lease at least once, and in the runs with a liveness property large
enough that it never stops a run before it has settled (a smaller one shows as a
false counterexample, never as a false success). `MaxRunTicks` bounds how long a
keeper goes on: a stage that hangs with its keeper alive is never reclaimed, by
design of the code, and nothing is claimed about it. `Tick` happens only while
some deadline lies ahead, for time is seen through deadlines only.

Where files are kept, two deaths let the recovery from the first be interrupted by
the second, and the counters let a death be followed by an operator or a forced
run. In `MCLocalize` two batches are the least with something done and something to
do. In `MCSpeech` utterances share nothing but the aggregate, so one is enough for all
but that; two with one trouble, and one with three, were run by hand. The
deviations lie on the boundary of the primary tolerance, on that of the hard one
and beyond it. In `MCWebJobs` the second attempt is what a stage needs that completed,
was queued over HTTP and is claimed again; with one attempt every second claim
would retire it. In `MCSite` one tab is enough for everything but the storage that tabs
share; `Spec` with two tabs, one or two gestures and one trouble was run by hand
without liveness, which takes too long there, and `ReloadKeepsJob` with it. The
theorems of section 5 hold for all bounds and any number of tabs. `RetrySettles` of
`OperatorRetry`, that a retry whose first stage has its inputs carries the run to an
end, was run by hand with `RetryLiveSpec`, that is with `MCRetryActive.cfg` where
`Reliable = {w1}` and `MaxTime = 8`. In `MCUpload` a terminator is longer
than a chunk, so that it always falls across reads; bodies hold beginnings of it.

**Fairness.** The `LiveSpec` of `Workers` asks for weak fairness of the clock and of
the steps of the workers in `Reliable`: `run_worker_loop` catches every exception,
sleeps a bounded time and goes on, and a deployment restarts it. Steps of a worker
include the end of the stage it executes, one way or the other. Nothing is assumed
of the other workers, of lease keepers, of operators, of the web process or of the
success of a stage. In `MCWorkers` the fair worker shares its identity with one that
may stop at any step. `Localize`, `Speech` and `Render` ask the same of the one
process, which a worker restarts; deaths and failures are bounded, so the property
speaks of what they leave behind and not of a provider that fails for ever. `Site`
asks that the server answers status requests, that timers fire, that the browser
runs what is due and that workers carry runs on; nothing of users, submissions or
holders. `Upload` asks that the thread of the request goes on: each read returns
bytes or the end, and a stream that stays silent is not bounded by this code.

`CHECK_DEADLOCK FALSE` is set where a system really may stop: in `WebJobs`, where a
rejected upload leaves nothing to do, and in the runs of `Localize`, `Speech`,
`Render`, `Site` and `Upload`, where nothing is left once everything is delivered,
shown or read and every bound is spent.

## 4. Where the code does something else than it says

Two runs check one statement of the documentation each and find a counterexample.

- `MCRetryActive.cfg`, `ActiveWorkIsSpared`. Phase one of retry does not fence
  workers, for `_next_ready_stage` takes an invalidated stage for a pending one; a
  worker claims it between the phases, or after the command was killed. Phase two
  does not look for running stages and rewrites it. The worker is fenced off, its
  work is lost and its attempt entry stays open.
- `MCSpeechKept.cfg`, `DeliveredIsKept`. The audio of a correction is named by tactic
  and place in the ledger, not by the take it corrects. When a take is made anew,
  its first correction writes over the one of the take before, which the manifest
  still delivers.

Five more statements are refuted by the same models; the definitions are kept in
the modules, no run checks them. Each is shown by replacing the INVARIANTS and
PROPERTIES of the configuration named by that one definition.

- `SuccessorIsQueued` (`OperatorRetry`, with `RetryLiveSpec` and `MCRetryActive.cfg` where
  `Reliable = {w1}` and `MaxTime = 8`). A retry from `render` is accepted on a run that
  is still at an earlier stage and queues `render`; while that waits for its dependencies, automatic progression refuses to queue anything
  else (`retry.py:242`).
- `CompletedWorkIsKept` (`WebJobs`, with `MCWebJobs.cfg`). A worker can complete
  `ingest` between the save and the submission in `create_job`; ingest is then done
  twice, the second time under the next stage (`runner.py:355`).
- `RevisionsAreKept` (`Localize`, with `MCLocalize.cfg`). A process dies between the
  sidecar of a batch and the record of its attempt, and the batch is then invalidated
  by an operator. Nobody reconciles the history with an invalid result, so the next
  run gives its own result the same number and replaces the first one
  (`localize.py:484`).
- `SidecarsTellTheTruth` (`Localize`, as an invariant of `Spec` with `MCLocalize.cfg`
  and `Process = {p1, p2}`). Two processes, one of which lost its lease, translate the
  same batch. One writes the localized file from the result in its memory and proves
  it with the hash of the other's result on disk (`localize.py:645`).

- `PreviewIsFollowed` (`Site`, with `MCSite.cfg`). A tab sends a second video while it
  still follows the job of the first. A status of the first that arrives during the
  upload paints its video and its links; the answer to the upload then makes the page
  follow the second job, and until that has a video of its own nothing takes the old
  one away, for `renderJob` leaves both alone without a dubbed video and a submission
  does not clear them (`app.js:206`, `app.js:117`). No document promises otherwise.

The architecture notes list the command line among the known gaps and expect a
conflict when a stage command meets a lease. `CliStage` shows that none need
arise: neither the status nor the lease of the stage is looked at and the revision
check sees writes only. What still holds is `SavesUndoNothing`.

Two behaviours of the page contradict nothing that is written. The answer to
a submission takes the tab over whenever it comes, also after a reset or when the tab
has gone on to another job (`app.js:117`). `ShownIsFollowed` says what is left: the status shown is of
the job followed, under a status that has a video no video of another job is left,
and a tab that follows nothing shows none. And when that answer is lost the page offers to submit
again, which makes two jobs of one video (`app.js:133`).

`RetryIsHonoured` survives the first finding: what an operator asked for is made
anew before the run is rendered again.

## 5. What is proved

`WorkersProofs` proves, for every set of processes and identities, number of
stages, attempt limit, lease length and backoff, and without the small values TLC
needs:

| theorem | property |
|---|---|
| `TypeCorrect` | `TypeOK` |
| `OrderTheorem` | `StagesInOrder` |
| `RunStatusTheorem` | `RunStatusMirrorsStages` |
| `LedgerTheorem` | `AttemptLedger` |
| `FencingTheorem` | `LeasesAreExclusive` |
| `BoundedTheorem` | `AttemptsBounded`, which no run checks |
| `ReachTheorem` | `NeverStranded` |
| `FinalityTheorem` | `OutcomesAreFinal` |
| `OwnershipTheorem` | `OwnerClosesAttempt` |
| `RefinementTheorem` | `ImplementsPipeline` |

The assumptions are `ManifestAssumption` and `WorkersAssumption`, which TLC
evaluates in every run.

The argument rests on one inductive invariant, `Inductive`: `TypeOK`,
`StagesInOrder`, `RunStatusMirrorsStages`, `LeasesAreExclusive`, and for each
stage `Sound` (the ledger, the attempt bound and the reach of its deadline). No
part is inductive alone. That at most one stage is active follows from the order;
that a completed stage is never claimed needs the order of what a worker has
*found*, since the claim does not look at the dependencies; the run status is
right because whatever a step writes is the status of the only stage that is
neither complete nor untouched; and that the entry a commit closes is the
committer's own needs the ledger (entry *i* has token *i*) together with the
lease check. The lemmas come in that order: what each transformation of
`Manifest` does to a sound record, that a step on one stage keeps the order and
the status, then one step lemma per action. The refinement maps delivered and
active stages, attempt counts and failure to `Pipeline` and follows from the same
step lemmas.

`SiteProofs` proves, for every set of tabs, jobs and holders and without any of the
bounds mattering:

| theorem | property |
|---|---|
| `ShownTheorem` | `ShownIsFollowed` |
| `OnwardTheorem` | `ShownNeverGoesBack` |
| `ReloadTheorem` | `ReloadKeepsJob`, which no run checks |
| `EventsTheorem` | `EventsAreOfTheirStatus` |
| `ConflictTheorem` | `ConflictsAreReal` |

The assumptions are `StoreAssumption` and `SiteAssumption`. The inductive invariant,
again `Inductive`, has the types, what holds of the store (`StoreInv`: the log does
not run ahead, a held copy is no newer than the disk, a refused one is older) and
what holds of the page (`SiteInv`). `ShownNeverGoesBack` is the one that needs all of
it. An answer on its way is no older than what its tab shows (`InOrder`), because
there is at most one request (`OneAtATime`), manifests only go forward (`Forward`)
and nothing shown is newer than the disk (`HonestPage`, `HonestAnswer`). That a
submission answered meanwhile cannot disturb this needs that its job was known to
nobody else until then (`Untold`), which in turn needs that a new run takes an
identifier nobody has heard of (`Created`). That a status with a video leaves no
other job's video in the preview needs no order of answers, for `renderJob` replaces
both at once; that a tab which follows nothing has no preview needs every way of
ceasing to follow. The proof goes from the store steps
(`StoreStepKeeps`) over requests that come nearer to their answers (`PostAdvances`,
`PollAdvances`) to the moves of a tab (`PageMoves`), each action being an instance of
one of these.

`WritersProofs` proves, of the three other writers of a manifest, for any number of
workers, stages, requests and commands:

| theorem | property |
|---|---|
| `OpenAttemptsTheorem` | `OpenAttempts`, of `WebSpec` |
| `CliTheorem` | `SavesUndoNothing`, of `CliSpec` |
| `RetryTypeTheorem` | `RetryTypeOK`, which no run checks |
| `HonourTheorem` | `RetryIsHonoured`, of `RetrySpec` |
| `RetryFencingTheorem` | `LeasesAreExclusive`, of `RetrySpec` |
| `HistoryTheorem` | `HistoryIsPreserved`, of `RetrySpec` |

It adds `OperatorRetryAssumption`; nothing is assumed of how many requests there
are. The invariant of `WorkersProofs` does not survive these
writers, for the endpoint takes stages in any order and phase two of retry rewrites
running ones. What does survive is the open ledger of each record (`OpenLedger`
over HTTP, `Open` under retry, where an entry may stay open behind a rewritten
status). `RetryInductive` has that, the types and the fencing, and the reason why a
request is honoured: of the stages asked for, those with a standing sidecar have been
redone since the listing or are still on the list (`ListIsComplete`); and no output is
listed, and no execution holds inputs, from before a stage that is still owed
(`InputsAreCurrent`). The second part is what carries over the moments when the command
is killed between its phases while workers go on.

`LocalizeProofs`, `SpeechProofs` and `RenderProofs` speak of the stages that keep files,
for any number of deaths, failures, retries and forced runs, and any number of batches
and utterances:

| module | theorem | property |
|---|---|---|
| `LocalizeProofs` | `OnRecordTheorem` | `ProofsAreOnRecord` |
| | `CostTheorem` | `DeathCostsOneCall` |
| | `HistoryTheorem` | `HistoryOnlyGrows` |
| | `DeliveryTheorem` | `DeliveredIsCurrent` |
| `SpeechProofs` | `OnRecordTheorem` | `TakesAreOnRecord` |
| | `KeptAudioTheorem` | `TakesKeepTheirAudio` |
| | `BoundTheorem` | `CorrectionsAreBounded` |
| | `HonestyTheorem` | `FitsAreHonest` |
| | `DeliveryTheorem` | `DeliveredIsAsJudged` |
| `RenderProofs` | `TruthTheorem` | `ReportsTellTheTruth` |
| | `KeepingTheorem` | `RenderedIsKept` |
| | `DeliveryTheorem` | `DeliveredIsProven` |

The assumptions are `LocalizeAssumption`, `SpeechAssumption` with `DurationAssumption`,
and `RenderAssumption`. The theorems about `Localize` have one hypothesis more,
`OneAtATime`: at most one process executes the stage, as in `MCLocalize.cfg`. That is
what leases are for; with an executor that outlives its lease the localized file
can be wrong, as `SidecarsTellTheTruth` in section 4 shows.

The three invariants are built alike. One part is about the disk and holds also when
nobody works (`OnDisk`): what a sidecar says of its file, a result of the history, a
fit of its ledger. The other is about what the process knows at each point of its work
(`InMemory`): which files are there already, which are still as it read them, and that
where it is going to write nothing is proven. A death keeps the first part and makes the
second empty, so that the two must not be mixed. The third says that there is a
number beyond all others (`NumberedUpTo`): the next revision is computed as a maximum,
which exists only in a bounded set. The properties need from this:

- In `Localize` a proven result may be one ahead of the history. `DeathCostsOneCall`
  needs an account (`Frugal`): calls made, batches still to be paid for (`Owed`) and
  what a forced run is still going to order stay within the budget.
- In `Speech` the same one-ahead holds per take (`Unrecorded`), with the newest take
  the only one that can be. `CorrectionsAreBounded` needs that only the last entry of
  a ledger is running; `FitsAreHonest` that the candidate in hand is never worse
  than the raw take (`KnowsFit`); `DeliveredIsAsJudged` that a
  correction is named with a number beyond those of the candidate it competes with,
  which makes the overwriting of section 4 harmless to the take in hand.
- In `Render` a path at which a sidecar stands is either valid or not written again
  (`Underway`), over whatever was lost or invalidated before the run began.

`UploadProofs` proves, under `UploadAssumption`, for any number of parts, any bodies
without the delimiter, any streams cut short, and any sizes of chunks, headers and
fields:

| theorem | property |
|---|---|
| `MemoryTheorem` | `MemoryIsBounded` |
| `ExactTheorem` | `UploadIsExact` |

The first needs only that what the reader waits for is bounded (`UploadBounded`). The
second needs to say where the reader stands: buffer, unread bytes and the bytes that
never arrive are together the rest of what was sent, after some number of parts
(`Exact`, `Reached`). Most of the proof is about the search for a delimiter: a text that
avoids it up to where it is appended is found exactly there (`FoundAtEnd`,
`SearchHits`), and what is handed on after a fruitless search leaves every beginning
of a delimiter in the buffer (`SearchMisses`, `Drops`). That the boundary occurs once
in a delimiter is what excludes an earlier match.

The induction theorems of the library take a predicate as parameter, which the
provers cannot instantiate. Where `UploadProofs` needs induction over the parts, it takes the
least number that is a counterexample (`LeastOfNaturals`, in `NumberedProofs`) and
refutes it; it is for one predicate at a time, and the functions of `Upload` that are
computed recursively are shown to exist that way.

**What stays with TLC.** The liveness properties (`RunSettles`, `SavedRunsSettle`,
`LocalizeSettles`, `SpeechSettles`, `RenderSettles`, `PageSettles`,
`UploadEnds`) rest on fairness and `ENABLED`, which the provers do not reach. The two
statements of section 4 with a run of their own are false. `TacticsAreLimited` is
model-checked only: that the tactics of one process are the elements of `Plan` is a
count over a sequence put together from loops, an induction of the kind above.
Everything else that a run checks is proved.

## 6. Not modelled, and what is left

Not modelled at all: the grouping of words into utterances (`utterances.py`,
`transcribe.py`), one pass over data without state or recovery; storage capacity,
which is arithmetic and shows as a transient failure of a stage; the gates of
`benchmark.py` and `readiness.py`, judgements over finished runs whose results no
other part reads; media ingest, one external command after another; configuration,
preflight and the operator's views, which read only.

Left out of the modelled components: timings, costs, resources, error texts and
the event list, which no guard reads; several runs under the workers, which share
nothing but the workers' attention; unleased `begin_stage`, `complete_stage` and
`fail_stage`, for the only callers in the repository hold a lease or run in tests;
the schema migration; how utterances are cut into batches and how payloads of
providers are validated; the choice of voices and the voice map; the render plan,
the filter graph and the thresholds of the audio checks; the summaries and metrics
beside the outputs; the file sink and the content types of an upload; the
demonstration the page gives without a server.

What a continuation would take up, in this order: what of `LocalizeProofs` holds
without `OneAtATime` (the history and the recorded proofs may, the localized file
does not); two workers in one directory for `Speech` and `Render`, as `Localize` has
it; that the retries of `OperatorRetry` implement a `Pipeline` with requests; the
batch partition and the grouping of words against reference definitions; the gates
as decisions.
