------------------------------ MODULE Localize ------------------------------
(***************************************************************************)
(* The translation stage on disk (src/dub_mvp/localize.py).  The ordered   *)
(* utterances are cut into batches.  Every batch has a history of attempts *)
(* and numbered revisions, each a result file and a sidecar that proves it *)
(* complete; the batches together make the localized file, with revisions  *)
(* and sidecars of its own.  A restarted stage reuses what is proven.      *)
(*                                                                         *)
(* The manifest is not in this module: a worker that lost its lease goes   *)
(* on writing here (Workers), so several processes may run at once.  Files *)
(* are written to a temporary name and renamed, hence in one step.         *)
(* Translations are numbered in the order the provider returns them, for   *)
(* every result carries its own timestamps; equal bytes, equal number.     *)
(***************************************************************************)
EXTENDS Numbered, Sequences, FiniteSets

CONSTANTS
    Process,      \* the processes that may execute the stage
    NBatches,     \* the number of translation batches
    MaxDeaths,    \* bounds: processes killed,
    MaxFailures,  \*   failed provider calls,
    MaxRetries,   \*   operator retries from localize,
    MaxForced     \*   runs under --force

ASSUME LocalizeAssumption ==
    /\ NBatches \in Nat \ {0}
    /\ {MaxDeaths, MaxFailures, MaxRetries, MaxForced} \subseteq Nat

VARIABLES
    history,      \* per batch, its attempts as recorded on disk
    file,         \* per batch, the translation in each revision
    proof,        \* per batch, the sidecar of each revision
    localized,    \* the revisions of the localized file, by fingerprint
    certificate,  \* their sidecars
    output,       \* the localized file the manifest refers to
    task,         \* what each process is doing, in memory
    calls,        \* provider calls that returned a translation so far
    trouble       \* how often each kind of trouble has struck

batchFiles == << history, file, proof >>
vars == << history, file, proof, localized, certificate, output, task,
           calls, trouble >>

Batch == 1 .. NBatches
Translation == Nat \ {0}
Text == [Batch -> Nat]
NoText == [b \in Batch |-> 0]

\* A name of the localized file: the translations it is made of, as the input
\* fingerprint has them, and a revision.
NoOutput == << NoText, 0 >>

Proven(x) == [status |-> "completed", of |-> x]
Attempt(status, x) == [status |-> status, result |-> x]

Idle == [pc |-> "idle", forced |-> FALSE, batch |-> 1, previous |-> << >>,
         result |-> 0, text |-> NoText, paths |-> NoText, name |-> NoOutput]

-----------------------------------------------------------------------------
(* What is reusable.                                                       *)

\* verify_artifact: the sidecar says completed and the bytes are those it saw.
Verified(b) ==
    {n \in DOMAIN proof[b] : proof[b][n] = Proven(file[b][n])}

\* The sidecar is written before the attempt is recorded; whoever finds the
\* result of a process that died in between records the attempt for it.
\* (The slip records it whatever the history already has.)
RecordedAnyway(b, n) ==
    Append(SubSeq(history[b], 1, n - 1), Attempt("completed", file[b][n]))
Reconciled(b, n) ==
    IF n = Len(history[b]) + 1
    THEN Append(history[b], Attempt("completed", file[b][n]))
    ELSE history[b]

\* An artifact more than one attempt ahead of its history is an error.
\* (The slip takes a recorded one for an error too.)
ConsistentIfUnrecorded(b, n) == n = Len(history[b]) + 1
Consistent(b, n) == n <= Len(history[b]) + 1

\* The localized files proven to be made of the given batch files.
Reusable(suffix) ==
    {n \in {name[2] : name \in DOMAIN certificate} :
        /\ << suffix, n >> \in DOMAIN certificate
        /\ certificate[<< suffix, n >>] = Proven(localized[<< suffix, n >>])}

-----------------------------------------------------------------------------
Init ==
    /\ history = [b \in Batch |-> << >>]
    /\ file = [b \in Batch |-> << >>]
    /\ proof = [b \in Batch |-> << >>]
    /\ localized = << >>
    /\ certificate = << >>
    /\ output = NoOutput
    /\ task = [p \in Process |-> Idle]
    /\ calls = 0
    /\ trouble = [deaths |-> 0, failures |-> 0, retries |-> 0, forced |-> 0]

At(p, pc) == task[p].pc = pc
Goto(p, t) == task' = [task EXCEPT ![p] = t]
Strike(kind, bound) ==
    /\ trouble[kind] < bound
    /\ trouble' = [trouble EXCEPT ![kind] = @ + 1]

\* The stage is executed for as long as it has no output; by force at any time.
Start(p) ==
    /\ At(p, "idle")
    /\ output = NoOutput
    /\ Goto(p, [Idle EXCEPT !.pc = "batch"])
    /\ UNCHANGED << batchFiles, localized, certificate, output, calls, trouble >>

StartForced(p) ==
    /\ At(p, "idle")
    /\ Strike("forced", MaxForced)
    /\ Goto(p, [Idle EXCEPT !.pc = "batch", !.forced = TRUE])
    /\ UNCHANGED << batchFiles, localized, certificate, output, calls >>

\* The batch in hand has a proven result.  Its history is completed and, unless
\* the run is forced, the result is taken over; an inconsistent one ends the run.
TakeProven(p) ==
    LET t == task[p]
        b == t.batch
        n == Newest(Verified(b))
        log == Reconciled(b, n)
    IN
    /\ At(p, "batch") /\ b \in Batch
    /\ Verified(b) # {}
    /\ IF ~Consistent(b, n)
       THEN Goto(p, Idle) /\ UNCHANGED history
       ELSE /\ history' = [history EXCEPT ![b] = log]
            /\ Goto(p, IF t.forced
                       THEN [t EXCEPT !.pc = "call", !.previous = log]
                       ELSE [t EXCEPT !.batch = b + 1,
                                      !.text[b] = file[b][n],
                                      !.paths[b] = n])
    /\ UNCHANGED << file, proof, localized, certificate, output, calls, trouble >>

TakeMissing(p) ==
    LET t == task[p] IN
    /\ At(p, "batch") /\ t.batch \in Batch
    /\ Verified(t.batch) = {}
    /\ Goto(p, [t EXCEPT !.pc = "call", !.previous = history[t.batch]])
    /\ UNCHANGED << batchFiles, localized, certificate, output, calls, trouble >>

\* The provider returns a payload that passes validate_localized_segments.
Translate(p) ==
    /\ At(p, "call")
    /\ calls' = calls + 1
    /\ Goto(p, [task[p] EXCEPT !.pc = "write", !.result = calls + 1])
    /\ UNCHANGED << batchFiles, localized, certificate, output, trouble >>

\* It fails, or its payload is rejected; the stage ends with an error.
TranslateFails(p) ==
    LET t == task[p] IN
    /\ At(p, "call")
    /\ Strike("failures", MaxFailures)
    /\ history' = [history EXCEPT ![t.batch] =
                      Append(t.previous, Attempt("failed", 0))]
    /\ Goto(p, Idle)
    /\ UNCHANGED << file, proof, localized, certificate, output, calls >>

\* Revisions are numbered by the attempts read when the batch was taken up.
\* (The slip counts only those that were completed.)
RevisionByResults(t) ==
    Cardinality({i \in DOMAIN t.previous : t.previous[i].status = "completed"}) + 1
Revision(t) == Len(t.previous) + 1

WriteBatch(p) ==
    LET t == task[p] IN
    /\ At(p, "write")
    /\ file' = [file EXCEPT ![t.batch] = With(@, Revision(t), t.result)]
    /\ Goto(p, [t EXCEPT !.pc = "prove"])
    /\ UNCHANGED << history, proof, localized, certificate, output, calls, trouble >>

\* completed_artifact_metadata hashes the file as it is now.
\* (The slip leaves the sidecar for the end of the stage.)
ProveLater(p) ==
    /\ At(p, "prove")
    /\ Goto(p, [task[p] EXCEPT !.pc = "record"])
    /\ UNCHANGED << batchFiles, localized, certificate, output, calls, trouble >>
ProveBatch(p) ==
    LET t == task[p]
        n == Revision(t)
    IN
    /\ At(p, "prove")
    /\ proof' = [proof EXCEPT ![t.batch] = With(@, n, Proven(file[t.batch][n]))]
    /\ Goto(p, [t EXCEPT !.pc = "record"])
    /\ UNCHANGED << history, file, localized, certificate, output, calls, trouble >>

RecordBatch(p) ==
    LET t == task[p]
        b == t.batch
    IN
    /\ At(p, "record")
    /\ history' = [history EXCEPT ![b] =
                      Append(t.previous, Attempt("completed", t.result))]
    /\ Goto(p, [t EXCEPT !.pc = "batch", !.batch = b + 1,
                         !.text[b] = t.result, !.paths[b] = Revision(t)])
    /\ UNCHANGED << file, proof, localized, certificate, output, calls, trouble >>

\* All batches are done: their files are hashed again, whatever is in memory.
Suffix(t) == [b \in Batch |-> file[b][t.paths[b]]]

TakeAggregate(p) ==
    LET t == task[p]
        S == Reusable(Suffix(t))
    IN
    /\ At(p, "batch") /\ t.batch \notin Batch
    /\ S # {}
    /\ Goto(p, [t EXCEPT !.pc = "return", !.name = << Suffix(t), Newest(S) >>])
    /\ UNCHANGED << batchFiles, localized, certificate, output, calls, trouble >>

WriteAggregate(p) ==
    LET t == task[p]
        s == Suffix(t)
        name == << s, Cardinality({m \in DOMAIN localized : m[1] = s}) + 1 >>
    IN
    /\ At(p, "batch") /\ t.batch \notin Batch
    /\ Reusable(s) = {}
    /\ localized' = With(localized, name, t.text)
    /\ Goto(p, [t EXCEPT !.pc = "publish", !.name = name])
    /\ UNCHANGED << batchFiles, certificate, output, calls, trouble >>

PublishAggregate(p) ==
    LET name == task[p].name IN
    /\ At(p, "publish")
    /\ certificate' = With(certificate, name, Proven(localized[name]))
    /\ Goto(p, [task[p] EXCEPT !.pc = "return"])
    /\ UNCHANGED << batchFiles, localized, output, calls, trouble >>

\* The caller completes the stage with the name of the file.
Return(p) ==
    /\ At(p, "return")
    /\ output' = task[p].name
    /\ Goto(p, Idle)
    /\ UNCHANGED << batchFiles, localized, certificate, calls, trouble >>

-----------------------------------------------------------------------------
(* What happens to the stage.                                              *)

Die(p) ==
    /\ ~At(p, "idle")
    /\ Strike("deaths", MaxDeaths)
    /\ Goto(p, Idle)
    /\ UNCHANGED << batchFiles, localized, certificate, output, calls >>

Invalid(sidecars) ==
    [x \in DOMAIN sidecars |-> [sidecars[x] EXCEPT !.status = "invalid"]]

\* An operator retries from localize while nobody executes the stage, which may
\* have been retired with its last attempt and never taken up again: every
\* sidecar of the batches that own the requested utterances, and of the
\* localized files, stops being proof (OperatorRetry has the steps of it).
RetryLocalize(B) ==
    /\ \A p \in Process : At(p, "idle")
    /\ Strike("retries", MaxRetries)
    /\ proof' = [b \in Batch |-> IF b \in B THEN Invalid(proof[b]) ELSE proof[b]]
    /\ certificate' = Invalid(certificate)
    /\ output' = NoOutput
    /\ UNCHANGED << history, file, localized, task, calls >>

Run(p) ==
    \/ Start(p) \/ TakeProven(p) \/ TakeMissing(p)
    \/ Translate(p) \/ TranslateFails(p)
    \/ WriteBatch(p) \/ ProveBatch(p) \/ RecordBatch(p)
    \/ TakeAggregate(p) \/ WriteAggregate(p) \/ PublishAggregate(p)
    \/ Return(p)

Next ==
    \/ \E p \in Process : Run(p) \/ StartForced(p) \/ Die(p)
    \/ \E B \in SUBSET Batch \ {{}} : RetryLocalize(B)

Spec == Init /\ [][Next]_vars

\* Whoever dies is restarted by a worker, and a call ends one way or the other.
LiveSpec == Spec /\ \A p \in Process : WF_vars(Run(p))

-----------------------------------------------------------------------------
(* Properties.                                                             *)

\* Every proven result of a batch is on record as a completed attempt under its
\* own number, or is the next one to be: whatever a process died in the middle
\* of, its successor neither loses nor misnumbers what was paid for.
ProofsAreOnRecord ==
    \A b \in Batch : \A n \in Verified(b) :
        \/ n = Len(history[b]) + 1
        \/ /\ n <= Len(history[b])
           /\ history[b][n] = Attempt("completed", file[b][n])

\* The attempts of a batch are never rewritten nor forgotten.
HistoryOnlyGrows ==
    [][\A b \in Batch :
          /\ Len(history[b]) <= Len(history'[b])
          /\ SubSeq(history'[b], 1, Len(history[b])) = history[b]]_vars

\* What the stage delivers is made of the newest proven result of every batch,
\* also when it takes over a localized file written before.
DeliveredIsCurrent ==
    [][(output' # output /\ output' # NoOutput) =>
          \A b \in Batch :
             \E n \in DOMAIN proof'[b] :
                /\ proof'[b][n] = Proven(localized'[output'][b])
                /\ \A m \in DOMAIN proof'[b] :
                      proof'[b][m].status = "completed" => m <= n]_vars

\* docs/current-architecture.md:290-293: apart from what force and retries ask
\* for, a process that dies costs at most the one call it had in flight.
DeathCostsOneCall ==
    calls <= NBatches * (1 + trouble.forced + trouble.retries) + trouble.deaths

\* A stage that has no output gets one, wherever its predecessors stopped.
LocalizeSettles == output = NoOutput ~> output # NoOutput

\* docs/current-architecture.md:294-295 "Forced or regenerated outputs use new
\* revisions rather than overwriting a verified artifact", and :241-243 "prior
\* payloads remain inspectable": what had a sidecar is not written again.
RevisionsAreKept ==
    [][\A b \in Batch : \A n \in DOMAIN proof[b] :
          file'[b][n] = file[b][n]]_vars

\* artifacts.py:18, of a sidecar: "proving an artifact is complete and matches
\* its inputs".  A proven localized file is made of the batch files it names.
SidecarsTellTheTruth ==
    \A name \in DOMAIN certificate :
        certificate[name] = Proven(localized[name]) => localized[name] = name[1]

=============================================================================
