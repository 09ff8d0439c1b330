------------------------------- MODULE Render -------------------------------
(***************************************************************************)
(* The render stage on disk (src/dub_mvp/render.py), for one set of        *)
(* inputs.  A rendering is a numbered revision: two texts, the dubbed      *)
(* audio, the video, the history of the commands that made them and a      *)
(* report that refers to all of these, each with a sidecar that proves it. *)
(* A report may refer to files of earlier revisions.  An interrupted       *)
(* revision is resumed if nothing it published has lost its proof.         *)
(* One process executes the stage, and may die between any two writes;     *)
(* files are written under a temporary name and renamed.                   *)
(* Media are numbered as they are made: equal bytes, equal number.  The    *)
(* texts follow from the inputs and are the same whenever written.         *)
(***************************************************************************)
EXTENDS Numbered, Sequences

CONSTANTS
    MaxDeaths,    \* bounds: processes killed,
    MaxFailures,  \*   commands or checks that fail,
    MaxRetries,   \*   operator retries from render,
    MaxForced,    \*   runs under --force,
    MaxLosses,    \*   losses of the render directory,
    MaxTroubles   \*   and all of these together

ASSUME RenderAssumption ==
    {MaxDeaths, MaxFailures, MaxRetries, MaxForced, MaxLosses, MaxTroubles} \subseteq Nat

VARIABLES
    file,     \* per kind, what the file of each revision holds
    proof,    \* per kind, the sidecar of each revision
    output,   \* the revision whose report the manifest names, or 0
    pending,  \* whether the stage is to be executed
    task,     \* what the process is doing, in memory
    made,     \* media made so far
    trouble   \* how often each kind of trouble has struck

vars == << file, proof, output, pending, task, made, trouble >>

Text == {"alignment_plan", "hindi_subtitles"}
Media == {"dubbed_audio", "dubbed_video"}
Log == "render_commands"
Report == "render_report"
Kind == Text \cup Media \cup {Log, Report}

\* What the stage does in turn; "source" is the probe of its input, "peak" the
\* measurement of the loudness of the audio, which is proven by then.
Work == << "alignment_plan", "hindi_subtitles", "source", "dubbed_audio", "peak",
           "dubbed_video" >>

Idle == [pc |-> "idle", at |-> 1, forced |-> FALSE, new |-> FALSE, revision |-> 0,
         path |-> [k \in Text \cup Media |-> 0]]

-----------------------------------------------------------------------------
(* What is reusable.                                                       *)

Verifies(k, r) ==
    /\ r \in DOMAIN proof[k] /\ r \in DOMAIN file[k]
    /\ proof[k][r].status = "completed"
    /\ file[k][r] = proof[k][r].seen

Reusable(k) == {r \in DOMAIN proof[k] : Verifies(k, r)}

\* A report is taken over if everything it refers to is still proven.
\* (The slip takes its own proof for that.)
ReportStands(r) == Verifies(Report, r)
Stands(r) ==
    /\ Verifies(Report, r)
    /\ Verifies(Log, r)
    /\ \A k \in Text \cup Media : Verifies(k, file[Report][r].path[k])

\* All the directories bear witness to a revision.
\* (The slip looks where the reports are.)
RecordedRevisions == DOMAIN file[Log] \cup DOMAIN file[Report]
Revisions == UNION {DOMAIN file[k] \cup DOMAIN proof[k] : k \in Kind}

\* Slip: an interrupted revision is resumed whatever has become of it.
Unreported(r) == r \notin DOMAIN proof[Report]
Resumable(r) ==
    /\ r \notin DOMAIN proof[Report]
    /\ \A k \in Kind : r \in DOMAIN proof[k] => Verifies(k, r)

\* (The slip resumes what a forced run should leave alone.)
ResumedRevision(forced) == IF Revisions = {} THEN 1 ELSE Newest(Revisions)
SelectedRevision(forced) ==
    IF Revisions = {} THEN 1
    ELSE IF ~forced /\ Resumable(Newest(Revisions)) THEN Newest(Revisions)
    ELSE Newest(Revisions) + 1

-----------------------------------------------------------------------------
Init ==
    /\ file = [k \in Kind |-> << >>]
    /\ proof = [k \in Kind |-> << >>]
    /\ output = 0
    /\ pending = TRUE
    /\ task = Idle
    /\ made = 0
    /\ trouble = [deaths |-> 0, failures |-> 0, retries |-> 0, forced |-> 0, losses |-> 0]

At(pc) == task.pc = pc
rev == task.revision
Strike(kind, bound) ==
    /\ trouble[kind] < bound
    /\ trouble.deaths + trouble.failures + trouble.retries + trouble.forced
          + trouble.losses < MaxTroubles
    /\ trouble' = [trouble EXCEPT ![kind] = @ + 1]
Goto(pc) == task' = [task EXCEPT !.pc = pc]
GiveUp == task' = Idle

Write(k, r, content) == file' = [file EXCEPT ![k] = With(@, r, content)]
Prove(k, r) ==
    proof' = [proof EXCEPT ![k] = With(@, r, [status |-> "completed", seen |-> file[k][r]])]

\* The commands of a revision, each begun before it is run and closed after.
LogOf(r) == IF r \in DOMAIN file[Log] THEN file[Log][r] ELSE << >>
Interrupted(log) == log # << >> /\ log[Len(log)] = "running"
ClosedLog(log) == IF Interrupted(log) THEN [log EXCEPT ![Len(log)] = "failed"] ELSE log
Ended(status) == Write(Log, rev, [LogOf(rev) EXCEPT ![Len(LogOf(rev))] = status])

-----------------------------------------------------------------------------
(* The stage.                                                              *)

Takeover == {r \in DOMAIN proof[Report] : Stands(r)}

TakeRender ==
    /\ At("idle") /\ pending
    /\ Takeover # {}
    /\ output' = Newest(Takeover)
    /\ pending' = FALSE
    /\ UNCHANGED << file, proof, task, made, trouble >>

\* The revision is selected, every kind of file is looked for in all revisions,
\* and a command that was running when its process died is closed.
Open(forced) ==
    LET r == SelectedRevision(forced)
        found(k) == IF forced \/ Reusable(k) = {} THEN r ELSE Newest(Reusable(k))
    IN
    /\ task' = [Idle EXCEPT !.pc = "work", !.forced = forced, !.revision = r,
                            !.path = [k \in Text \cup Media |-> found(k)]]
    /\ IF Interrupted(LogOf(r)) THEN Write(Log, r, ClosedLog(LogOf(r)))
                                ELSE UNCHANGED file
    /\ UNCHANGED << proof, output, pending, made >>

\* (The slip knows only how to begin and how to resume.)
StartIfResumable ==
    /\ At("idle") /\ pending
    /\ Takeover = {}
    /\ Revisions # {} => Resumable(Newest(Revisions))
    /\ Open(FALSE)
    /\ UNCHANGED trouble

Start ==
    /\ At("idle") /\ pending
    /\ Takeover = {}
    /\ Open(FALSE)
    /\ UNCHANGED trouble

StartForced ==
    /\ At("idle")
    /\ Strike("forced", MaxForced)
    /\ Open(TRUE)

kind == Work[task.at]
path == task.path[kind]
Advance ==
    task' = [task EXCEPT !.at = @ + 1, !.new = FALSE,
                         !.pc = IF task.at = Len(Work) THEN "seal" ELSE "work"]

KeepText ==
    /\ At("work") /\ kind \in Text
    /\ Verifies(kind, path)
    /\ Advance
    /\ UNCHANGED << file, proof, output, pending, made, trouble >>

WriteText ==
    /\ At("work") /\ kind \in Text
    /\ ~Verifies(kind, path)
    /\ Write(kind, path, 0)
    /\ Goto("prove")
    /\ UNCHANGED << proof, output, pending, made, trouble >>

\* Media are made unless they are there, then checked; the rest is only checked.
Makes == kind \in Media /\ ~task.new /\ ~Verifies(kind, path)

BeginCommand ==
    /\ At("work") /\ kind \notin Text
    /\ Write(Log, rev, Append(LogOf(rev), "running"))
    /\ Goto(IF Makes THEN "making" ELSE "checking")
    /\ UNCHANGED << proof, output, pending, made, trouble >>

CommandFails ==
    /\ At("making") \/ At("checking")
    /\ Strike("failures", MaxFailures)
    /\ Ended("failed")
    /\ GiveUp
    /\ UNCHANGED << proof, output, pending, made >>

EndMaking ==
    /\ At("making")
    /\ Ended("completed")
    /\ Goto("place")
    /\ UNCHANGED << proof, output, pending, made, trouble >>

Place ==
    /\ At("place")
    /\ made' = made + 1
    /\ Write(kind, path, made + 1)
    /\ task' = [task EXCEPT !.pc = "work", !.new = TRUE]
    /\ UNCHANGED << proof, output, pending, trouble >>

EndChecking ==
    /\ At("checking")
    /\ Ended("completed")
    /\ IF task.new THEN Goto("prove") ELSE Advance
    /\ UNCHANGED << proof, output, pending, made, trouble >>

\* The command succeeded, but what it made is refused, being empty
\* (_require_nonempty), or what it found: no audio, too loud, too short.
Refuse ==
    /\ At("making") \/ At("checking")
    /\ Strike("failures", MaxFailures)
    /\ Ended("completed")
    /\ GiveUp
    /\ UNCHANGED << proof, output, pending, made >>

ProveFile ==
    /\ At("prove")
    /\ Prove(kind, path)
    /\ Advance
    /\ UNCHANGED << file, output, pending, made, trouble >>

\* The texts are verified once more, and no command may be running.
Sealable ==
    /\ \A k \in Text : Verifies(k, task.path[k])
    /\ \A i \in DOMAIN LogOf(rev) : LogOf(rev)[i] # "running"

Seal ==
    /\ At("seal")
    /\ IF Sealable THEN Prove(Log, rev) /\ Goto("report")
                   ELSE UNCHANGED proof /\ GiveUp
    /\ UNCHANGED << file, output, pending, made, trouble >>

WriteReport ==
    /\ At("report")
    /\ Write(Report, rev, [path |-> task.path, log |-> LogOf(rev),
                           media |-> [k \in Media |-> file[k][task.path[k]]]])
    /\ Goto("certify")
    /\ UNCHANGED << proof, output, pending, made, trouble >>

ProveReport ==
    /\ At("certify")
    /\ Prove(Report, rev)
    /\ Goto("deliver")
    /\ UNCHANGED << file, output, pending, made, trouble >>

Deliver ==
    /\ At("deliver")
    /\ output' = rev
    /\ pending' = FALSE
    /\ GiveUp
    /\ UNCHANGED << file, proof, made, trouble >>

-----------------------------------------------------------------------------
(* What happens to the stage.                                              *)

Die ==
    /\ ~At("idle")
    /\ Strike("deaths", MaxDeaths)
    /\ GiveUp
    /\ UNCHANGED << file, proof, output, pending, made >>

\* The order of their paths, by directory, revision and name.
Directory == [alignment_plan |-> 1, dubbed_video |-> 2, render_commands |-> 3,
              render_report |-> 3, hindi_subtitles |-> 4, dubbed_audio |-> 5]
UpTo(k, r, last, n) ==
    \/ Directory[k] < Directory[last]
    \/ Directory[k] = Directory[last] /\ r < n
    \/ Directory[k] = Directory[last] /\ r = n /\ (k = Report => last = Report)

\* An operator retries from render while nobody executes it.  The sidecars are
\* invalidated in the order of their paths; if the command is killed, after the
\* n-th of a kind say, the outputs are still listed, but the stage is executed.
RetryRender(last, n) ==
    /\ At("idle")
    /\ Strike("retries", MaxRetries)
    /\ proof' = [k \in Kind |-> [r \in DOMAIN proof[k] |->
                    IF UpTo(k, r, last, n)
                    THEN [proof[k][r] EXCEPT !.status = "invalid"] ELSE proof[k][r]]]
    /\ output' \in IF \A k \in Kind : \A r \in DOMAIN proof[k] : UpTo(k, r, last, n)
                   THEN {0, output} ELSE {output}
    /\ pending' = TRUE
    /\ UNCHANGED << file, task, made >>

\* render.py:1393-1395 reckons with the loss of the directory of the commands
\* and reports, which deprives the manifest of its output.
LoseReports ==
    /\ At("idle")
    /\ Strike("losses", MaxLosses)
    /\ file' = [file EXCEPT ![Log] = << >>, ![Report] = << >>]
    /\ proof' = [proof EXCEPT ![Log] = << >>, ![Report] = << >>]
    /\ output' = 0
    /\ pending' = TRUE
    /\ UNCHANGED << task, made >>

Run ==
    \/ TakeRender \/ Start \/ KeepText \/ WriteText \/ BeginCommand \/ CommandFails
    \/ EndMaking \/ Place \/ EndChecking \/ Refuse \/ ProveFile \/ Seal
    \/ WriteReport \/ ProveReport \/ Deliver

Next ==
    \/ Run \/ StartForced \/ Die \/ LoseReports
    \/ \E k \in Kind : \E n \in {0} \cup DOMAIN proof[k] : RetryRender(k, n)

Spec == Init /\ [][Next]_vars

\* Whoever dies is restarted by a worker, and commands end one way or the other.
LiveSpec == Spec /\ WF_vars(Run)

-----------------------------------------------------------------------------
(* Properties.                                                             *)

\* render.py:1363-1365 and 1393-1395: media that were ever published with a
\* sidecar are not written over, be the sidecar invalidated since, the run
\* forced, or the record of the commands lost.
RenderedIsKept ==
    [][\A k \in Media : \A r \in DOMAIN proof[k] : file'[k][r] = file[k][r]]_vars

\* A proven report is about files that still are what they were when it was
\* written, its own command history included, whichever revisions they are of
\* and whatever has been rendered since.
ReportsTellTheTruth ==
    \A r \in DOMAIN proof[Report] :
        LET report == file[Report][r] IN
        /\ report.log = LogOf(r)
        /\ \A k \in Media : report.media[k] = file[k][report.path[k]]

\* What the manifest comes to name is proven in all its parts at that moment,
\* and no command of it failed to be accounted for.
Proven(r) ==
    /\ \A k \in {Log, Report} : Verifies(k, r)
    /\ \A k \in Text \cup Media : Verifies(k, file[Report][r].path[k])
    /\ \A i \in DOMAIN LogOf(r) : LogOf(r)[i] # "running"
DeliveredIsProven ==
    [][(pending /\ ~pending') \/ output' \notin {output, 0} => Proven(output)']_vars

\* A stage that is to be executed delivers, wherever its predecessors stopped.
RenderSettles == pending ~> ~pending

=============================================================================
