------------------------------ MODULE CliStage ------------------------------
(***************************************************************************)
(* A stage command of src/dub_mvp/cli.py (ingest, transcribe, segment,     *)
(* localize, synthesize, render) on a run that workers serve.              *)
(*                                                                         *)
(* Unlike the workers the command loads the manifest once, marks its stage *)
(* running, holds that copy across the whole work and saves it at the end. *)
(* It takes no lease; only the revision check of RunManifest.save stands   *)
(* between its copy and what others wrote meanwhile.                       *)
(***************************************************************************)
EXTENDS Workers

CONSTANT MaxCommands  \* bound: stage commands given to the run

ASSUME CliAssumption == MaxCommands \in Nat

VARIABLES
    cli,       \* the command: where it is and its stage
    copy,      \* the stages of the manifest it holds
    current,   \* its revision is still that of manifest.json
    commands,  \* how many were given
    heldOutputs  \* the stages whose paths RunManifest.outputs holds

cliVars == << vars, cli, copy, current, commands, heldOutputs >>

\* `dub-mvp ingest` has just saved the new run.
CliInit ==
    /\ Init
    /\ cli = [pc |-> "loaded", stage |-> 1]
    /\ copy = stages
    /\ current = TRUE
    /\ commands = 0
    /\ heldOutputs = {}

\* Slip: the copy is written whatever the file holds by now.
AlwaysAccepted == TRUE

\* _write_locked: ManifestConflictError unless the revisions agree.
Accepted == current

\* _start_cli_stage: the lease and the backoff of the record stay as they are.
CliStarted(r) ==
    [r EXCEPT !.status = "running", !.attempt_count = @ + 1,
              !.attempts = Append(@, [status |-> "running", lease_generation |-> 0])]

CliCompleted(r) ==
    [r EXCEPT !.status = "completed", !.attempts = Closed(@, "completed")]

CliFailed(r) ==
    [r EXCEPT !.status = "failed", !.retryable = FALSE,
              !.attempts = Closed(@, "failed")]

Finish == cli' = [cli EXCEPT !.pc = "none"]

\* RunManifest.save of the copy with record r for the command's stage.
Save(r, run, next) ==
    \/ /\ Accepted
       /\ copy' = [copy EXCEPT ![cli.stage] = r]
       /\ stages' = copy'
       /\ run_status' = run
       /\ current' = TRUE
       /\ cli' = [cli EXCEPT !.pc = next]
    \/ /\ ~Accepted
       /\ Finish
       /\ UNCHANGED << durable, copy, current >>

-----------------------------------------------------------------------------
(* The command.                                                            *)

\* A completed stage is run again under --force, or when its files are gone.
CliLoad(s) ==
    /\ cli.pc = "none"
    /\ commands < MaxCommands
    /\ s > 1 /\ s - 1 \in heldOutputs
    /\ cli' = [pc |-> "loaded", stage |-> s]
    /\ copy' = stages
    /\ current' = TRUE
    /\ commands' = commands + 1
    /\ UNCHANGED << vars, heldOutputs >>

CliBegin ==
    /\ cli.pc = "loaded"
    /\ Save(CliStarted(copy[cli.stage]), "running", "working")
    /\ UNCHANGED << now, worker, commands, heldOutputs >>

CliComplete ==
    /\ cli.pc = "working"
    /\ Save(CliCompleted(copy[cli.stage]), StageRunStatus(cli.stage), "none")
    /\ heldOutputs' = IF Accepted THEN heldOutputs \cup {cli.stage} ELSE heldOutputs
    /\ UNCHANGED << now, worker, commands >>

CliFail ==
    /\ cli.pc = "working"
    /\ Save(CliFailed(copy[cli.stage]), "failed", "none")
    /\ UNCHANGED << now, worker, commands, heldOutputs >>

\* Killed, or an exception the command does not catch.
CliKilled ==
    /\ cli.pc # "none"
    /\ Finish
    /\ UNCHANGED << vars, copy, current, commands, heldOutputs >>

-----------------------------------------------------------------------------
(* The workers; each manifest they write gets a new revision.              *)

Written(yes) == current' = (current /\ ~yes)

\* begin_stage writes although it changes nothing that is modelled.
CliServe(w) ==
    /\ Step(w)
    /\ Written(\/ durable' # durable
               \/ worker[w].pc = "claimed" /\ worker'[w].pc = "running")
    /\ heldOutputs' = heldOutputs \cup
          {s \in Stage : stages[s].status # "completed"
                         /\ stages'[s].status = "completed"}
    /\ UNCHANGED << cli, copy, commands >>

CliRenew(w) ==
    /\ RenewLease(w)
    /\ Written(TRUE)
    /\ UNCHANGED << cli, copy, commands, heldOutputs >>

CliAbandon(w) ==
    /\ Abandon(w)
    /\ UNCHANGED << cli, copy, current, commands, heldOutputs >>

CliTick == Tick /\ UNCHANGED << cli, copy, current, commands, heldOutputs >>

CliNext ==
    \/ \E s \in Stage : CliLoad(s)
    \/ CliBegin \/ CliComplete \/ CliFail \/ CliKilled
    \/ \E w \in Process : CliServe(w) \/ CliRenew(w) \/ CliAbandon(w)
    \/ CliTick

CliSpec == CliInit /\ [][CliNext]_cliVars

-----------------------------------------------------------------------------
(* Properties.                                                             *)

\* The manifest held across the work undoes nothing: when the command saves its
\* copy, what workers did to the other stages meanwhile is kept and the attempt
\* it closes is its own, still open.
Preserving ==
    cli.pc = "working" /\ stages' # stages /\ cli'.pc = "none" =>
        LET r == stages[cli.stage]
            own == r.attempts[Len(r.attempts)] IN
        /\ \A s \in Stage \ {cli.stage} : stages'[s] = stages[s]
        /\ own.status = "running" /\ own.lease_generation = 0

SavesUndoNothing == [][(CliComplete \/ CliFail) => Preserving]_cliVars

=============================================================================
