------------------------------- MODULE WebJobs -------------------------------
(***************************************************************************)
(* The HTTP side of one run, src/dub_mvp/webapp.py with the QueuedJobRunner *)
(* of src/dub_mvp/runner.py, against the workers.                          *)
(*                                                                         *)
(* create_job moves the upload into the run directory, checks it, saves    *)
(* the manifest and then, in a second transaction, queues ingest; workers  *)
(* find the run as soon as the manifest is there.  The stage endpoint      *)
(* queues whatever stage it is asked for.  The web process may die between *)
(* any two steps.                                                          *)
(***************************************************************************)
EXTENDS Workers

CONSTANT MaxPosts  \* bound: requests to the stage endpoint

ASSUME WebJobsAssumption == MaxPosts \in Nat

VARIABLES
    request,    \* how far create_job has come
    directory,  \* what the run directory holds
    posts       \* requests made to the stage endpoint

webVars == << vars, request, directory, posts >>

WebInit ==
    /\ Init
    /\ request = "staged"
    /\ directory = "absent"
    /\ posts = 0

\* Slip: work in the hands of a worker is queued again.
QueueableAlways(r) == r.status # "queued"

Queueable(r) == r.status \notin {"queued", "running"}

WebQueued(r) ==
    [r EXCEPT !.status = "queued", !.lease_expires_at = None,
              !.worker_id = NoWorker, !.next_retry_at = None]

\* QueuedJobRunner._queue: neither the dependencies nor the attempts left nor
\* retryable are looked at.
Queue(s) ==
    \/ /\ Queueable(stages[s])
       /\ stages' = [stages EXCEPT ![s] = WebQueued(@)]
       /\ run_status' = "queued"
    \/ /\ ~Queueable(stages[s])
       /\ UNCHANGED durable

-----------------------------------------------------------------------------
(* create_job *)

AcceptUpload ==
    /\ request = "staged"
    /\ request' = "moved"
    /\ directory' = "inputs"
    /\ UNCHANGED << vars, posts >>

\* Any check that fails removes the directory again.
RejectUpload ==
    /\ request = "moved"
    /\ request' = "rejected"
    /\ directory' = "absent"
    /\ UNCHANGED << vars, posts >>

SaveRun ==
    /\ request = "moved"
    /\ request' = "saved"
    /\ directory' = "manifest"
    /\ UNCHANGED << vars, posts >>

SubmitIngest ==
    /\ request = "saved"
    /\ Queue(1)
    /\ request' = "answered"
    /\ UNCHANGED << now, worker, directory, posts >>

WebDies ==
    /\ request \in {"staged", "moved", "saved"}
    /\ request' = "lost"
    /\ UNCHANGED << vars, directory, posts >>

\* run_stage: the endpoint needs only the run, which any client can name once
\* the manifest is listed.
RunStage(s) ==
    /\ directory = "manifest"
    /\ posts < MaxPosts
    /\ Queue(s)
    /\ posts' = posts + 1
    /\ UNCHANGED << now, worker, request, directory >>

-----------------------------------------------------------------------------
(* The workers, which see the run once its manifest exists.                *)

web == << request, directory, posts >>

WebServe(w) ==
    /\ directory = "manifest"
    /\ Step(w)
    /\ UNCHANGED web

WebRenew(w) == RenewLease(w) /\ UNCHANGED web

WebAbandon(w) == Abandon(w) /\ UNCHANGED web

WebTick == Tick /\ UNCHANGED web

WebNext ==
    \/ AcceptUpload \/ RejectUpload \/ SaveRun \/ SubmitIngest \/ WebDies
    \/ \E s \in Stage \ {1} : RunStage(s)
    \/ \E w \in Process : WebServe(w) \/ WebRenew(w) \/ WebAbandon(w)
    \/ WebTick

WebSpec == WebInit /\ [][WebNext]_webVars

WebLiveSpec ==
    /\ WebSpec
    /\ WF_webVars(WebTick)
    /\ \A w \in Reliable : WF_webVars(WebServe(w))

-----------------------------------------------------------------------------
(* Properties.                                                             *)

\* One open attempt per running stage and none elsewhere, each under its own
\* token: whatever is queued again over HTTP, at whatever moment, the record of
\* who is executing what stays exact.
OpenAttempts ==
    \A s \in Stage :
        LET r == stages[s] IN
        /\ Len(r.attempts) = r.attempt_count
        /\ r.lease_generation = r.attempt_count
        /\ \A i \in 1 .. r.attempt_count :
              r.attempts[i].status = "running" <=>
                 (r.status = "running" /\ i = r.attempt_count)

\* A run that was saved is carried to an end although the web process died
\* before it queued ingest, unless somebody interferes through the endpoint:
\* progression is a property of the durable state.
SavedRunsSettle ==
    (request = "lost" /\ directory = "manifest")
        ~> (run_status \in {"rendered", "failed"} \/ posts > 0)

\* docs/current-architecture.md:18 "Completed work is never redone": creating a
\* job does not put a stage that is complete back in the queue.
CompletedWorkIsKept ==
    [][SubmitIngest => \A s \in Stage :
          stages[s].status = "completed" => stages'[s] = stages[s]]_webVars

=============================================================================
