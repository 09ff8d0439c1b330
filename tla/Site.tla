-------------------------------- MODULE Site --------------------------------
(***************************************************************************)
(* The creator page (src/site/app.js) in several tabs of one browser, the  *)
(* HTTP handlers it talks to (src/dub_mvp/webapp.py) and, below them, the  *)
(* run store, whose manifests workers and other processes go on changing.  *)
(* The page follows one job: it submits a video, polls the job the answer  *)
(* names, one request at a time, and remembers it in the URL of the tab    *)
(* and in the storage all tabs share.  A tab is single threaded: what runs *)
(* between two awaits is one step, and its requests are answered whenever. *)
(***************************************************************************)
EXTENDS RunStore

CONSTANTS
    Tabs,         \* tabs of the browser
    MaxStarts,    \* bounds: videos submitted,
    MaxGestures   \*   times a user resets or reloads a tab

ASSUME SiteAssumption ==
    /\ {MaxStarts, MaxGestures} \subseteq Nat
    /\ IsFiniteSet(Jobs) /\ MaxStarts <= Cardinality(Jobs)

VARIABLES
    page,       \* per tab, the state of the script
    posts,      \* per tab, submissions that have not been answered
    polls,      \* per tab, status requests that have not been answered
    storage,    \* the job remembered by the browser
    starts,     \* submissions so far
    gestures    \* resets and reloads so far

siteVars == << page, posts, polls, storage, starts, gestures >>
vars == << storeVars, siteVars >>

Nothing == [job |-> NoJob, revision |-> 0, ended |-> FALSE, dubbed |-> FALSE, events |-> 0]

\* state.jobId, ?job= in the URL, state.poller, the polling flag, the status
\* rendered last (choosing and sending a video paint over some of its words), the
\* job whose video is in the preview and behind the download links, state.file,
\* and whether the start button is enabled.
Blank == [jobId |-> NoJob, url |-> NoJob, poller |-> FALSE, polling |-> FALSE,
          shown |-> Nothing, preview |-> NoJob, file |-> FALSE, ready |-> FALSE]

\* The answer to a submission or a status request: not there yet, or a status,
\* or a refusal (400, 404), or anything else that makes fetch or the page throw.
Answer(how, status) == [how |-> how, status |-> status]
Pending == Answer("pending", Nothing)
Missing == Answer("missing", Nothing)
Broken == Answer("broken", Nothing)

SiteInit ==
    /\ StoreInit
    /\ page = [t \in Tabs |-> Blank]
    /\ posts = [t \in Tabs |-> {}]
    /\ polls = [t \in Tabs |-> {}]
    /\ storage = NoJob
    /\ starts = 0
    /\ gestures = 0

-----------------------------------------------------------------------------
(* The server.                                                             *)

NewRunId == CHOOSE j \in Jobs : manifest[j] = Absent

\* create_job, the first manifest of the run; the answer is built by and by.
Submit(t) == \E p \in posts[t] : LET j == NewRunId IN
    /\ p.answer = Pending /\ p.job = NoJob
    /\ j \in Jobs /\ Create(j)
    /\ posts' = [posts EXCEPT ![t] = (@ \ {p}) \cup {[p EXCEPT !.job = j]}]
    /\ UNCHANGED << page, polls, storage, starts, gestures >>

\* A body that does not parse, a missing field, an empty video.
Reject(t) == \E p \in posts[t] :
    /\ p.answer = Pending /\ p.job = NoJob
    /\ Trouble
    /\ posts' = [posts EXCEPT ![t] = (@ \ {p}) \cup {[p EXCEPT !.answer = Missing]}]
    /\ UNCHANGED << manifest, log, held, page, polls, storage, starts, gestures >>

AnswerPost(t) == \E p \in posts[t] :
    /\ p.answer = Pending /\ p.job # NoJob
    /\ ReadStatus(p.job)
    /\ posts' = [posts EXCEPT ![t] =
          (@ \ {p}) \cup {[p EXCEPT !.answer = Answer("status", StatusOf(p.job))]}]
    /\ UNCHANGED << page, polls, storage, starts, gestures >>

AnswerPoll(t) == \E p \in polls[t] :
    /\ p.answer = Pending
    /\ IF Exists(p.job)
       THEN /\ ReadStatus(p.job)
            /\ polls' = [polls EXCEPT ![t] =
                  (@ \ {p}) \cup {[p EXCEPT !.answer = Answer("status", StatusOf(p.job))]}]
       ELSE /\ polls' = [polls EXCEPT ![t] = (@ \ {p}) \cup {[p EXCEPT !.answer = Missing]}]
            /\ UNCHANGED storeVars
    /\ UNCHANGED << page, posts, storage, starts, gestures >>

\* The connection breaks, the server is restarted, or it answers 500.
Lose(t) ==
    /\ Trouble
    /\ \/ /\ \E p \in posts[t] :
                posts' = [posts EXCEPT ![t] = (@ \ {p}) \cup {[p EXCEPT !.answer = Broken]}]
          /\ UNCHANGED polls
       \/ /\ \E p \in polls[t] :
                polls' = [polls EXCEPT ![t] = (@ \ {p}) \cup {[p EXCEPT !.answer = Broken]}]
          /\ UNCHANGED posts
    /\ UNCHANGED << manifest, log, held, page, storage, starts, gestures >>

-----------------------------------------------------------------------------
(* Painting and polling.                                                   *)

\* renderJob, with the stopPolling of a run that has ended.  The preview and the
\* links are replaced by a dubbed video only, and stay what they were otherwise;
\* of a run that ended without one the button is disabled.
Render(pg, status) ==
    [pg EXCEPT !.shown = status, !.poller = @ /\ ~status.ended,
               !.preview = IF status.dubbed THEN status.job ELSE @,
               !.ready = @ /\ (status.ended => status.dubbed)]

\* discardMissingJob: the file that was chosen is still there to be sent.
Discarded(pg) ==
    [pg EXCEPT !.jobId = NoJob, !.url = NoJob, !.poller = FALSE, !.shown = Nothing,
               !.preview = NoJob, !.ready = pg.file]

\* scheduleNextPoll, which leaves a timer that runs alone.
Schedule(pg) == [pg EXCEPT !.poller = @ \/ pg.jobId # NoJob]

\* pollJob up to its await: one request at a time.
CanPoll(pg) == pg.jobId # NoJob /\ ~pg.polling

\* Slip: a repeating timer instead of one that waits for the answer.
AskEagerly(t, pg) ==
    /\ page' = [page EXCEPT ![t] = [pg EXCEPT !.poller = TRUE]]
    /\ polls' = [polls EXCEPT ![t] = @ \cup {[job |-> pg.jobId, answer |-> Pending]}]

Ask(t, pg) ==
    /\ page' = [page EXCEPT ![t] = [pg EXCEPT !.polling = TRUE]]
    /\ polls' = [polls EXCEPT ![t] = @ \cup {[job |-> pg.jobId, answer |-> Pending]}]

TimerFires(t) ==
    LET pg == [page[t] EXCEPT !.poller = FALSE] IN
    /\ page[t].poller
    /\ IF CanPoll(pg)
       THEN Ask(t, pg)
       ELSE page' = [page EXCEPT ![t] = Schedule(pg)] /\ UNCHANGED polls
    /\ UNCHANGED << storeVars, posts, storage, starts, gestures >>

\* Slip: only a reset is noticed, not that another job is followed.
RelevantUnlessReset(t, p) == page[t].jobId # NoJob

\* An answer for a job that is no longer followed is ignored.
Relevant(t, p) == page[t].jobId = p.job

\* Slip: any failure ends the chain of polls.
GivesUp(pg) == pg

\* A failure that may pass leaves the job followed and polled.
AfterFailure(pg) == Schedule(pg)

PollAnswered(t) == \E p \in polls[t] :
    LET pg == [page[t] EXCEPT !.polling = FALSE] IN
    /\ p.answer # Pending
    /\ polls' = [polls EXCEPT ![t] = @ \ {p}]
    /\ CASE ~Relevant(t, p) ->
              page' = [page EXCEPT ![t] = pg] /\ UNCHANGED storage
         [] Relevant(t, p) /\ p.answer = Broken ->
              page' = [page EXCEPT ![t] = AfterFailure(pg)] /\ UNCHANGED storage
         [] Relevant(t, p) /\ p.answer = Missing ->
              page' = [page EXCEPT ![t] = Discarded(pg)] /\ storage' = NoJob
         [] OTHER ->
              /\ page' = [page EXCEPT ![t] =
                    LET painted == Render(pg, p.answer.status)
                    IN  IF p.answer.status.ended THEN painted ELSE Schedule(painted)]
              /\ UNCHANGED storage
    /\ UNCHANGED << storeVars, posts, starts, gestures >>

-----------------------------------------------------------------------------
(* Submitting, resetting and coming back.                                  *)

\* setVideo, at any time, also while a job is followed or a video is being sent.
ChooseVideo(t) ==
    /\ page' = [page EXCEPT ![t].preview = NoJob, ![t].file = TRUE, ![t].ready = TRUE]
    /\ UNCHANGED << storeVars, posts, polls, storage, starts, gestures >>

\* startBackendRun up to its await, with setRunning; the preview stays as it is.
StartRun(t) ==
    /\ page[t].ready /\ page' = [page EXCEPT ![t].ready = FALSE]
    /\ starts < MaxStarts /\ starts' = starts + 1
    /\ posts' = [posts EXCEPT ![t] = @ \cup {[n |-> starts, job |-> NoJob, answer |-> Pending]}]
    /\ UNCHANGED << storeVars, polls, storage, gestures >>

\* The job of the answer is followed from now on, whatever has been done
\* meanwhile; a failed submission may be made again.
PostAnswered(t) == \E p \in posts[t] :
    LET j == p.answer.status.job IN
    /\ p.answer # Pending
    /\ posts' = [posts EXCEPT ![t] = @ \ {p}]
    /\ IF p.answer.how = "status"
       THEN LET painted == Render([page[t] EXCEPT !.jobId = j, !.url = j], p.answer.status)
            IN  /\ page' = [page EXCEPT ![t] = IF p.answer.status.ended
                                               THEN painted ELSE Schedule(painted)]
                /\ storage' = j
       ELSE /\ page' = [page EXCEPT ![t].ready = page[t].file]
            /\ UNCHANGED storage
    /\ UNCHANGED << storeVars, polls, starts, gestures >>

Reset(t) ==
    /\ gestures < MaxGestures /\ gestures' = gestures + 1
    /\ page' = [page EXCEPT ![t] = [Blank EXCEPT !.polling = page[t].polling]]
    /\ storage' = NoJob
    /\ UNCHANGED << storeVars, posts, polls, starts >>

\* restoreJob: the job of the URL, or else the one the browser remembers.
Remembered(t) == IF page[t].url # NoJob THEN page[t].url ELSE storage

\* The tab is closed and opened again: its requests go unheard.
Reload(t) ==
    LET j == Remembered(t)
        pg == [Blank EXCEPT !.jobId = j, !.url = j]
    IN
    /\ gestures < MaxGestures /\ gestures' = gestures + 1
    /\ posts' = [posts EXCEPT ![t] = {}]
    /\ IF j = NoJob
       THEN /\ page' = [page EXCEPT ![t] = Blank]
            /\ polls' = [polls EXCEPT ![t] = {}]
            /\ UNCHANGED storage
       ELSE /\ page' = [page EXCEPT ![t] = [pg EXCEPT !.polling = TRUE]]
            /\ polls' = [polls EXCEPT ![t] = {[job |-> j, answer |-> Pending]}]
            /\ storage' = j
    /\ UNCHANGED << storeVars, starts >>
-----------------------------------------------------------------------------
Server(t) == Submit(t) \/ Reject(t) \/ AnswerPost(t) \/ AnswerPoll(t)
Script(t) == TimerFires(t) \/ PollAnswered(t) \/ PostAnswered(t)
User(t) == ChooseVideo(t) \/ StartRun(t) \/ Reset(t) \/ Reload(t)
Process(h) == (\E j \in Jobs : Load(h, j)) \/ Save(h) \/ SaveFails(h) \/ SaveRefused(h)

Next ==
    \/ \E t \in Tabs : Server(t) \/ Lose(t) \/ Script(t) \/ User(t)
    \/ \E j \in Jobs : (Mutate(j) \/ Remove(j)) /\ UNCHANGED siteVars
    \/ \E h \in Holders : Process(h) /\ UNCHANGED siteVars

Spec == SiteInit /\ [][Next]_vars

\* The server answers, timers fire, the browser runs the script, and workers
\* carry every run to its end.
LiveSpec ==
    /\ Spec
    /\ \A t \in Tabs :
          /\ WF_vars(AnswerPoll(t)) /\ WF_vars(TimerFires(t)) /\ WF_vars(PollAnswered(t))
    /\ \A j \in Jobs : WF_vars(Mutate(j) /\ UNCHANGED siteVars)
-----------------------------------------------------------------------------
(* Properties.                                                             *)

\* The status a tab shows is of the job it follows; under a status that has a
\* video no video of another job is left; and a tab that follows nothing offers
\* none; whatever answers were on their way when it was reset, given another job
\* or released (app.js pollJob, renderJob, reset, discardMissingJob,
\* startBackendRun).
ShownIsFollowed == \A t \in Tabs : LET pg == page[t] IN
    /\ pg.shown # Nothing => pg.shown.job = pg.jobId
    /\ pg.shown.dubbed => pg.preview \in {pg.shown.job, NoJob}
    /\ pg.preview # NoJob => pg.jobId # NoJob

\* The video and the links of a tab are of the job it follows.  The code does not
\* do this: an answer for the old job that is rendered while a new video is being
\* sent puts them back (app.js renderJob, startBackendRun); README.md, section 4.
PreviewIsFollowed == \A t \in Tabs : page[t].preview \in {page[t].jobId, NoJob}

\* A tab never shows an older state of a job after a newer one: neither does
\* an answer overtake another on the way to the page, nor does any process put
\* an older manifest in the place of a newer one (app.js pollJob, manifest.py
\* _write_locked).
ShownNeverGoesBack == [][\A t \in Tabs :
    (page[t].shown.job # NoJob /\ page'[t].shown.job = page[t].shown.job)
    => page'[t].shown.revision >= page[t].shown.revision]_vars

\* Reloading a tab brings back the job it followed, whatever other tabs of the
\* browser have submitted or cleared since (app.js restoreJob, rememberJob).
ReloadKeepsJob == [][\A t \in Tabs :
    (Reload(t) /\ page[t].jobId # NoJob) => page'[t].jobId = page[t].jobId]_vars

\* A tab that follows a job comes to show its end, unless it is released from
\* it or given another (app.js pollJob, scheduleNextPoll, handlePollFailure).
PageSettles == \A t \in Tabs, j \in Jobs :
    page[t].jobId = j ~> (page[t].jobId # j \/ page[t].shown.ended)

\* The events told with a status are those of its revision, and the log on
\* disk never tells of what the manifest does not know (observability.py
\* _load_manifest_and_events, manifest.py _write_locked).
EventsAreOfTheirStatus ==
    /\ \A t \in Tabs : \A r \in posts[t] \cup polls[t] :
          r.answer.status.events = r.answer.status.revision
    /\ \A j \in Jobs : log[j] <= manifest[j].revision

\* A save is refused only if another process has written since the holder last
\* read or wrote, even after a write of its own failed (manifest.py
\* _write_locked, its except branch).
ConflictsAreReal == \A h \in Holders :
    held[h].refused => manifest[held[h].job].revision # held[h].seen
=============================================================================
