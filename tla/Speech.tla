------------------------------- MODULE Speech -------------------------------
(***************************************************************************)
(* The synthesis stage on disk (src/dub_mvp/synthesize.py, duration.py).   *)
(* Every utterance is first spoken, then fitted to its time.  The takes of *)
(* an utterance have numbered revisions, each a wav file and a result with *)
(* a sidecar that proves it, and one history of attempts.  A fit belongs   *)
(* to one take: it has a ledger of corrections, whose audio goes to files  *)
(* named by tactic and place in the ledger, and numbered results of its    *)
(* own.  A restarted stage reuses what is proven, take by take, fit by     *)
(* fit.  One process executes the stage, and may die between any two       *)
(* writes; files are written under a temporary name and renamed.           *)
(* Takes are numbered as they are produced: equal bytes, equal number.     *)
(***************************************************************************)
EXTENDS Duration, Numbered, FiniteSets

CONSTANTS
    NUtterances,
    Deviation,    \* the deviations audio may come out with
    Setup,        \* what is configured: speech controls, a rewriter
    MaxDeaths,    \* bounds: processes killed,
    MaxFailures,  \*   tactics, rewrites and provider calls that fail,
    MaxRetries,   \*   operator retries from synthesize,
    MaxForced,    \*   runs under --force,
    MaxTroubles   \*   and all of these together

ASSUME SpeechAssumption ==
    /\ NUtterances \in Nat \ {0}
    /\ Deviation \subseteq Int
    /\ Setup \subseteq [controls : BOOLEAN, rewriter : BOOLEAN]
    /\ {MaxDeaths, MaxFailures, MaxRetries, MaxForced, MaxTroubles} \subseteq Nat

VARIABLES
    setup,     \* the configuration of the run
    audio,     \* per utterance, the take in each wav file, by file name
    result,    \* per utterance, the proof of each spoken revision
    history,   \* per utterance, the attempts at speaking it
    ledger,    \* per utterance and spoken revision, the corrections tried
    fits,      \* per utterance and spoken revision, the fits published
    output,    \* what the manifest delivers: per utterance, revision and fit
    task,      \* what the process is doing, in memory
    takes,     \* takes produced so far
    trouble    \* how often each kind of trouble has struck

speechFiles == << audio, result, history >>
fitFiles == << ledger, fits >>
vars == << setup, audio, result, history, ledger, fits, output, task, takes, trouble >>

Utterance == 1 .. NUtterances
NoOutput == << >>
NoTake == [id |-> 0, off |-> 0]
NoCandidate == Candidate(<< "raw", 0 >>, NoTake, "accept", FALSE)

Raw(r) == << "raw", r >>
Entry(tactic, status) == [tactic |-> tactic, status |-> status]

Idle == [pc |-> "idle", forced |-> FALSE, at |-> 1, step |-> 1,
         take |-> NoTake, candidate |-> NoCandidate, valid |-> FALSE,
         revision |-> [u \in Utterance |-> 0], fit |-> [u \in Utterance |-> 0]]

-----------------------------------------------------------------------------
(* What is reusable.                                                       *)

NextFree(S) == IF S = {} THEN 1 ELSE Newest(S) + 1

\* The proof is completed, and the audio is the audio it saw.
Verified(u) ==
    {r \in DOMAIN result[u] : /\ result[u][r].status = "completed"
                              /\ audio[u][Raw(r)] = result[u][r].take.id}

\* The result is proven before its attempt is recorded: whoever finds the one
\* without the other records it.  (The slip records it every time.)
RecordedAgain(u, r) == Append(history[u], [status |-> "completed", revision |-> r])
Reconciled(u, r) ==
    IF result[u][r].attempt = Len(history[u]) + 1
    THEN Append(history[u], [status |-> "completed", revision |-> r])
    ELSE history[u]
\* A proven take more than one attempt ahead of its history is an error.
\* (The slip refuses one that is a single attempt ahead, too.)
ConsistentIfRecorded(u, r) == result[u][r].attempt <= Len(history[u])
Consistent(u, r) == result[u][r].attempt <= Len(history[u]) + 1

Intact(u, fit) == audio[u][fit.name] = fit.take.id

\* A fit is taken over if its result is proven, its audio is the audio it
\* embeds, and its ledger is the one on disk.
Fitting(u, r) ==
    IF r \notin DOMAIN fits[u] THEN {}
    ELSE {n \in DOMAIN fits[u][r] :
             /\ fits[u][r][n].proof = "completed"
             /\ Intact(u, fits[u][r][n])
             /\ fits[u][r][n].attempts = ledger[u][r]}

\* synthesis_outputs_reusable: the newest take of every utterance is the one
\* delivered, with a fit that would still be taken over.
OutputsReusable ==
    \A u \in Utterance :
        /\ Verified(u) # {}
        /\ output[u].revision = Newest(Verified(u))
        /\ output[u].fit \in Fitting(u, output[u].revision)

-----------------------------------------------------------------------------
Init ==
    /\ setup \in Setup
    /\ audio = [u \in Utterance |-> << >>]
    /\ result = [u \in Utterance |-> << >>]
    /\ history = [u \in Utterance |-> << >>]
    /\ ledger = [u \in Utterance |-> << >>]
    /\ fits = [u \in Utterance |-> << >>]
    /\ output = NoOutput
    /\ task = Idle
    /\ takes = 0
    /\ trouble = [deaths |-> 0, failures |-> 0, retries |-> 0, forced |-> 0]

At(pc) == task.pc = pc
u0 == task.at
r0 == task.revision[u0]
Goto(pc) == task' = [task EXCEPT !.pc = pc]
Strike(kind, bound) ==
    /\ trouble[kind] < bound
    /\ trouble.deaths + trouble.failures + trouble.retries + trouble.forced
          < MaxTroubles
    /\ trouble' = [trouble EXCEPT ![kind] = @ + 1]

\* The stage is executed for as long as it has no output that can be reused; by
\* force at any time.
Start ==
    /\ At("idle")
    /\ IF output = NoOutput THEN TRUE ELSE ~OutputsReusable
    /\ task' = [Idle EXCEPT !.pc = "take"]
    /\ UNCHANGED << setup, speechFiles, fitFiles, output, takes, trouble >>

StartForced ==
    /\ At("idle")
    /\ Strike("forced", MaxForced)
    /\ task' = [Idle EXCEPT !.pc = "take", !.forced = TRUE]
    /\ UNCHANGED << setup, speechFiles, fitFiles, output, takes >>

-----------------------------------------------------------------------------
(* Speaking.                                                               *)

\* All utterances are spoken before the first is fitted.
Spoke(r) ==
    LET t == [task EXCEPT !.revision[u0] = r, !.take = NoTake] IN
    IF u0 < NUtterances THEN [t EXCEPT !.pc = "take", !.at = u0 + 1]
                        ELSE [t EXCEPT !.pc = "fit", !.at = 1]

TakeSpoken ==
    LET r == Newest(Verified(u0)) IN
    /\ At("take")
    /\ Verified(u0) # {}
    /\ IF ~Consistent(u0, r)
       THEN task' = Idle /\ UNCHANGED history
       ELSE /\ history' = [history EXCEPT ![u0] = Reconciled(u0, r)]
            /\ IF task.forced THEN Goto("speak") ELSE task' = Spoke(r)
    /\ UNCHANGED << setup, audio, result, fitFiles, output, takes, trouble >>

TakeUnspoken ==
    /\ At("take")
    /\ Verified(u0) = {}
    /\ Goto("speak")
    /\ UNCHANGED << setup, speechFiles, fitFiles, output, takes, trouble >>

\* A revision is free when no wav file has its number, proven or not.
\* (The slip counts the attempts on record instead.)
RevisionByAttempts(u) == Len(history[u]) + 1
Revision(u) == NextFree({name[2] : name \in {m \in DOMAIN audio[u] : m[1] = "raw"}})

Speak ==
    \E d \in Deviation :
        /\ At("speak")
        /\ audio' = [audio EXCEPT ![u0] =
                        With(@, Raw(Revision(u0)), takes + 1)]
        /\ takes' = takes + 1
        /\ task' = [task EXCEPT !.pc = "prove", !.revision[u0] = Revision(u0),
                                !.take = [id |-> takes + 1, off |-> d]]
        /\ UNCHANGED << setup, result, history, fitFiles, output, trouble >>

\* The call fails or its audio is refused: the attempt is recorded and the stage
\* ends with an error.
SpeakFails ==
    /\ At("speak")
    /\ Strike("failures", MaxFailures)
    /\ history' = [history EXCEPT ![u0] =
                      Append(@, [status |-> "failed", revision |-> Revision(u0)])]
    /\ task' = Idle
    /\ UNCHANGED << setup, audio, result, fitFiles, output, takes >>

\* The sidecar of the audio, the result, and the sidecar of the result, which
\* completes the proof.
ProveSpoken ==
    /\ At("prove")
    /\ result' = [result EXCEPT ![u0] =
                     With(@, r0, [status |-> "completed", take |-> task.take,
                                  attempt |-> Len(history[u0]) + 1])]
    /\ Goto("record")
    /\ UNCHANGED << setup, audio, history, fitFiles, output, takes, trouble >>

RecordSpoken ==
    /\ At("record")
    /\ history' = [history EXCEPT ![u0] =
                      Append(@, [status |-> "completed", revision |-> r0])]
    /\ task' = Spoke(r0)
    /\ UNCHANGED << setup, audio, result, fitFiles, output, takes, trouble >>

-----------------------------------------------------------------------------
(* Fitting.                                                                *)

\* The fit chosen for the utterance; the next one, or the end of the stage.
Fitted(n) ==
    LET t == [task EXCEPT !.fit[u0] = n] IN
    IF u0 < NUtterances THEN [t EXCEPT !.pc = "fit", !.at = u0 + 1]
                        ELSE [t EXCEPT !.pc = "deliver"]

TakeFit ==
    /\ At("fit")
    /\ Fitting(u0, r0) # {}
    /\ task' = Fitted(Newest(Fitting(u0, r0)))
    /\ UNCHANGED << setup, speechFiles, fitFiles, output, takes, trouble >>

\* A correction that was running when its process died is closed as failed and
\* keeps its place.
Closed(log) ==
    IF log # << >> /\ log[Len(log)].status = "running"
    THEN [log EXCEPT ![Len(log)].status = "failed"] ELSE log

LedgerOf(u, r) == IF r \in DOMAIN ledger[u] THEN ledger[u][r] ELSE << >>
Logged(log) == ledger' = [ledger EXCEPT ![u0] = With(@, r0, log)]

\* The raw take is the first candidate, whatever was tried before.
OpenFit ==
    LET raw == result[u0][r0].take
        log == Closed(LedgerOf(u0, r0))
    IN
    /\ At("fit")
    /\ Fitting(u0, r0) = {}
    /\ Logged(log)
    /\ task' = [task EXCEPT !.pc = IF Satisfied(raw.off) THEN "accept" ELSE "correct",
                            !.step = 1, !.valid = FALSE,
                            !.candidate = Candidate(Raw(r0), raw, "accept", FALSE)]
    /\ UNCHANGED << setup, speechFiles, fits, output, takes, trouble >>

Accept ==
    /\ At("accept")
    /\ Logged(Append(LedgerOf(u0, r0), Entry("accept", "completed")))
    /\ Goto("publish")
    /\ UNCHANGED << setup, speechFiles, fits, output, takes, trouble >>

\* The tactics that may still be tried.
\* (The slip counts only those that succeeded.)
RoomForSuccesses(log) ==
    Cardinality({i \in DOMAIN log : log[i].status = "completed"}) < MaxTotalAttempts
Room(log) == Len(log) < MaxTotalAttempts
Upcoming ==
    {i \in task.step .. Len(Plan) :
        /\ Room(LedgerOf(u0, r0))
        /\ Due(Plan[i], task.candidate, setup, task.valid)}

Begin ==
    /\ At("correct")
    /\ Upcoming # {}
    /\ Logged(Append(LedgerOf(u0, r0), Entry(Plan[Oldest(Upcoming)], "running")))
    /\ task' = [task EXCEPT !.step = Oldest(Upcoming),
                            !.valid = FALSE,
                            !.pc = IF Plan[Oldest(Upcoming)] = "compact_rewrite"
                                   THEN "rewrite" ELSE "produce"]
    /\ UNCHANGED << setup, speechFiles, fits, output, takes, trouble >>

Finished(status) ==
    LET log == LedgerOf(u0, r0) IN
    Logged([log EXCEPT ![Len(log)].status = status])

\* The audio of a correction is named by its tactic and its place in the ledger.
\* (The slip leaves the place out.)
NamedByTactic(tactic, n) == << tactic, 0 >>
CandidateName(tactic, n) == << tactic, n >>

Produce ==
    LET name == CandidateName(Plan[task.step], Len(LedgerOf(u0, r0))) IN
    /\ At("produce")
    /\ audio' = [audio EXCEPT ![u0] = With(@, name, takes + 1)]
    /\ takes' = takes + 1
    /\ \E d \in Deviation :
           task' = [task EXCEPT !.pc = "finish",
                                !.take = [id |-> takes + 1, off |-> d]]
    /\ UNCHANGED << setup, result, history, fitFiles, output, trouble >>

Finish ==
    LET tactic == Plan[task.step]
        name == CandidateName(tactic, Len(LedgerOf(u0, r0)))
        c == task.candidate
        produced == Candidate(name, task.take, tactic,
                              c.rewritten \/ tactic = "regenerate_assigned_voice")
    IN
    /\ At("finish")
    /\ Finished("completed")
    /\ task' = [task EXCEPT !.pc = "correct", !.step = @ + 1, !.take = NoTake,
                            !.candidate = Adopted(produced, c)]
    /\ UNCHANGED << setup, speechFiles, fits, output, takes, trouble >>

\* A rewrite keeps the meaning and the required terms, or is refused.
Rewrite ==
    /\ At("rewrite")
    /\ Finished("completed")
    /\ task' = [task EXCEPT !.pc = "correct", !.step = @ + 1, !.valid = TRUE]
    /\ UNCHANGED << setup, speechFiles, fits, output, takes, trouble >>

\* A failed tactic is on the ledger, and the fit goes on without it.
\* (The slip tries it once more.)
TriedAgain == task.step
PastFailure == task.step + 1
TacticFails ==
    /\ At("produce") \/ At("rewrite")
    /\ Strike("failures", MaxFailures)
    /\ Finished("failed")
    /\ task' = [task EXCEPT !.pc = "correct", !.step = PastFailure]
    /\ UNCHANGED << setup, speechFiles, fits, output, takes >>

\* Nothing is left to try; what stays outside the hard tolerance is surfaced.
Conclude ==
    LET log == LedgerOf(u0, r0) IN
    /\ At("correct")
    /\ Upcoming = {}
    /\ IF ~WithinHard(task.candidate.take.off) /\ Room(log)
       THEN Logged(Append(log, Entry("surface_unresolved", "completed")))
       ELSE UNCHANGED ledger
    /\ Goto("publish")
    /\ UNCHANGED << setup, speechFiles, fits, output, takes, trouble >>

PublishFit ==
    LET c == task.candidate
        before == IF r0 \in DOMAIN fits[u0] THEN fits[u0][r0] ELSE << >>
        fit == [name |-> c.name, take |-> c.take, rewritten |-> c.rewritten,
                status |-> Verdict(c), attempts |-> LedgerOf(u0, r0),
                proof |-> "none"]
    IN
    /\ At("publish")
    /\ fits' = [fits EXCEPT ![u0] = With(@, r0, Append(before, fit))]
    /\ task' = [task EXCEPT !.pc = "certify", !.candidate = NoCandidate]
    /\ UNCHANGED << setup, speechFiles, ledger, output, takes, trouble >>

ProveFit ==
    LET n == Len(fits[u0][r0]) IN
    /\ At("certify")
    /\ fits' = [fits EXCEPT ![u0][r0][n].proof = "completed"]
    /\ task' = Fitted(n)
    /\ UNCHANGED << setup, speechFiles, ledger, output, takes, trouble >>

\* The aggregate names takes and fits; it and the reports beside it have names
\* of their own.  The caller completes the stage with it.
Deliver ==
    /\ At("deliver")
    /\ output' = [u \in Utterance |-> [revision |-> task.revision[u],
                                       fit |-> task.fit[u]]]
    /\ task' = Idle
    /\ UNCHANGED << setup, speechFiles, fitFiles, takes, trouble >>

-----------------------------------------------------------------------------
(* What happens to the stage.                                              *)

Die ==
    /\ ~At("idle")
    /\ Strike("deaths", MaxDeaths)
    /\ task' = Idle
    /\ UNCHANGED << setup, speechFiles, fitFiles, output, takes >>

\* An operator retries some utterances from synthesize while nobody executes it:
\* the sidecars of their takes and fits stop being proof.
RetrySpeech(U) ==
    /\ At("idle")
    /\ Strike("retries", MaxRetries)
    /\ result' = [u \in Utterance |->
          IF u \in U THEN [r \in DOMAIN result[u] |->
                              [result[u][r] EXCEPT !.status = "invalid"]]
          ELSE result[u]]
    /\ fits' = [u \in Utterance |->
          IF u \in U THEN [r \in DOMAIN fits[u] |->
                              [n \in DOMAIN fits[u][r] |->
                                  [fits[u][r][n] EXCEPT !.proof =
                                      IF @ = "completed" THEN "invalid" ELSE @]]]
          ELSE fits[u]]
    /\ output' = NoOutput
    /\ UNCHANGED << setup, audio, history, ledger, task, takes >>

Speaking == TakeSpoken \/ TakeUnspoken \/ Speak \/ SpeakFails
            \/ ProveSpoken \/ RecordSpoken
Correcting == Begin \/ Produce \/ Finish \/ Rewrite \/ TacticFails
FittingStep == TakeFit \/ OpenFit \/ Accept \/ Correcting \/ Conclude
               \/ PublishFit \/ ProveFit
Run == Start \/ Speaking \/ FittingStep \/ Deliver

Next ==
    \/ Run \/ StartForced \/ Die
    \/ \E U \in SUBSET Utterance \ {{}} : RetrySpeech(U)

Spec == Init /\ [][Next]_vars

\* Whoever dies is restarted by a worker, and calls end one way or the other.
LiveSpec == Spec /\ WF_vars(Run)

-----------------------------------------------------------------------------
(* Properties.                                                             *)

\* Every proven take is on record as a completed attempt under its own number,
\* or is the next one to be, and no take is on record twice: what a process
\* died in the middle of is neither lost nor counted twice.
TakesAreOnRecord ==
    \A u \in Utterance :
        /\ \A r \in Verified(u) :
              \/ result[u][r].attempt = Len(history[u]) + 1
              \/ /\ result[u][r].attempt <= Len(history[u])
                 /\ history[u][result[u][r].attempt] =
                       [status |-> "completed", revision |-> r]
        /\ \A i, j \in DOMAIN history[u] :
              /\ history[u][i].status = "completed"
              /\ history[u][i] = history[u][j]
              => i = j

\* Every spoken result on disk, one that an operator invalidated or a forced run
\* replaced included, still has the audio it was made with: no restart takes a
\* number that is used, although results and history may lag behind the audio
\* (synthesize.py _next_speech_revision).  Of the audio of corrections this is not
\* true, see DeliveredIsKept.
TakesKeepTheirAudio ==
    \A u \in Utterance : \A r \in DOMAIN result[u] :
        audio[u][Raw(r)] = result[u][r].take.id

\* max_total_attempts bounds the corrections of a take over all the processes
\* that died while fitting it; only notes that it was accepted go beyond.
CorrectionsAreBounded ==
    \A u \in Utterance : \A r \in DOMAIN ledger[u] :
        Cardinality({i \in DOMAIN ledger[u][r] :
                        ledger[u][r][i].tactic # "accept"}) <= MaxTotalAttempts

\* Each tactic has a limit of its own (max_provider_control_attempts,
\* max_rewrite_attempts, one stretch, one trim), which counts failures too and
\* which one process observes; only its death lets the next one begin anew.
Limit(tactic) ==
    CASE tactic = "provider_controls" -> MaxControls
      [] tactic \in {"compact_rewrite", "regenerate_assigned_voice"} -> MaxRewrites
      [] OTHER -> 1
TacticsAreLimited ==
    \A u \in Utterance : \A r \in DOMAIN ledger[u] : \A i \in DOMAIN Plan :
        Cardinality({n \in DOMAIN ledger[u][r] : ledger[u][r][n].tactic = Plan[i]})
            <= Limit(Plan[i]) * (1 + trouble.deaths)

\* What is published is no farther from the budget than the take it started
\* from; it is called unresolved exactly when the hard tolerance is exceeded,
\* and accepted or corrected only if its words and timing are as asked for.  It
\* holds no correction that is still running (duration.py:183-184): those of
\* dead processes are on its ledger as failures.
FitsAreHonest ==
    \A u \in Utterance : \A r \in DOMAIN fits[u] : \A n \in DOMAIN fits[u][r] :
        LET fit == fits[u][r][n]
            log == fit.attempts
        IN
        /\ Magnitude(fit.take.off) <= Magnitude(result[u][r].take.off)
        /\ fit.status = "unresolved" <=> Magnitude(fit.take.off) > HardTolerance
        /\ fit.status \in {"accepted", "corrected"} =>
              Satisfied(fit.take.off) /\ ~fit.rewritten
        /\ fit.status = "accepted" => fit.name = Raw(r)
        /\ \A i \in DOMAIN log : log[i].status # "running"
        /\ log = SubSeq(ledger[u][r], 1, Len(log))

\* The audio of every utterance delivered is, when it is delivered, the audio
\* its fit was judged by, and that of its newest proven take.
AsJudged ==
    \A u \in Utterance :
        LET r == output[u].revision IN
        /\ r = Newest(Verified(u))
        /\ Intact(u, fits[u][r][output[u].fit])
DeliveredIsAsJudged ==
    [][(output' # output /\ output' # NoOutput) => AsJudged']_vars

\* A stage without output gets one, wherever its predecessors stopped.
SpeechSettles == output = NoOutput ~> output # NoOutput

\* docs/current-architecture.md:336-337 "Forced and regenerated speech always
\* uses a new revision", and :241-243 "prior payloads remain inspectable": the
\* audio of a fit that the manifest delivers stays what it was.
DeliveredIsKept ==
    output # NoOutput =>
        \A u \in Utterance :
            Intact(u, fits[u][output[u].revision][output[u].fit])

=============================================================================
