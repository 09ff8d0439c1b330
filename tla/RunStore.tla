------------------------------ MODULE RunStore ------------------------------
(***************************************************************************)
(* The manifests of a runs directory as files (src/dub_mvp/manifest.py,    *)
(* state_store.py) and the event log kept beside each of them              *)
(* (observability.py).  A manifest is replaced as a whole under the lock   *)
(* of its run; the log is a projection written after it, so that a process *)
(* killed or refused by the disk in between leaves the log behind.  Status *)
(* is read under the lock, and repairs the log it finds.                   *)
(*                                                                         *)
(* The lock makes what happens under it one step; reading without the lock *)
(* (RunManifest.load) and working on what was read are steps of their own. *)
(* Of a manifest only its revision is kept, whether its run has ended and  *)
(* whether it has a dubbed video then: a run that failed or was cancelled  *)
(* has none.  That an operator starts an ended run again is left out.      *)
(***************************************************************************)
EXTENDS Integers, FiniteSets, TLC

CONSTANTS
    Jobs,          \* run directories, by run id
    NoJob,         \* no run at all
    Holders,       \* processes that hold a manifest across their work
    MaxRevision,   \* bounds: a run ends no later than with this revision,
    MaxTroubles    \*   and things go wrong so often

ASSUME StoreAssumption ==
    /\ NoJob \notin Jobs
    /\ MaxRevision \in Nat \ {0, 1}
    /\ MaxTroubles \in Nat

VARIABLES
    manifest,   \* per run, its manifest.json, Absent or Removed
    log,        \* per run, the revision run-events.jsonl was projected from
    held,       \* per holder, the manifest it works on
    troubles    \* what has gone wrong so far

storeVars == << manifest, log, held, troubles >>

Trouble == troubles < MaxTroubles /\ troubles' = troubles + 1

Absent == [revision |-> 0, ended |-> FALSE, dubbed |-> FALSE]
Removed == [revision |-> 0, ended |-> TRUE, dubbed |-> FALSE]

Exists(j) == manifest[j].revision > 0

\* A holder: the run and the manifest it read, the revision that was on disk
\* when it last read or wrote there, and whether its last save was refused.
NoCopy == [job |-> NoJob, copy |-> Absent, seen |-> 0, refused |-> FALSE]

StoreInit ==
    /\ manifest = [j \in Jobs |-> Absent]
    /\ log = [j \in Jobs |-> 0]
    /\ held = [h \in Holders |-> NoCopy]
    /\ troubles = 0

-----------------------------------------------------------------------------
(* Writing, under the lock.                                                *)

\* What is written after m: the next revision, which may end the run, and ends
\* it when the bound is reached.
After(m) ==
    {n \in [revision : {m.revision + 1}, ended : BOOLEAN, dubbed : BOOLEAN] :
        /\ m.ended => n.ended /\ n.dubbed = m.dubbed
        /\ n.dubbed => n.ended
        /\ n.revision >= MaxRevision => n.ended}

\* The log is replaced, unless the process is killed before that or the disk
\* does not allow it.
Project(j, revision) ==
    \/ log' = [log EXCEPT ![j] = revision] /\ UNCHANGED troubles
    \/ log' = log /\ log[j] # revision /\ Trouble

\* The manifest is replaced, and then the log.
Replace(j, m) ==
    /\ manifest' = [manifest EXCEPT ![j] = m]
    /\ Project(j, m.revision)

\* The revision on disk must be the one the writer holds.
Accepted(j, copy) == manifest[j].revision = copy.revision

\* A new run directory.
Create(j) ==
    /\ manifest[j] = Absent
    /\ Replace(j, [revision |-> 1, ended |-> FALSE, dubbed |-> FALSE])
    /\ UNCHANGED held

\* Load, apply and write in one critical section: a worker, the queue, a retry.
\* A callback that aborts leaves everything as it was.
Mutate(j) ==
    /\ Exists(j) /\ ~manifest[j].ended
    /\ \E m \in After(manifest[j]) : Replace(j, m)
    /\ UNCHANGED held

-----------------------------------------------------------------------------
(* Holding a manifest across work.  A holder that dies does nothing more.  *)

Load(h, j) ==
    /\ held[h] = NoCopy
    /\ Exists(j)
    /\ held' = [held EXCEPT ![h] = [job |-> j, copy |-> manifest[j],
                                    seen |-> manifest[j].revision, refused |-> FALSE]]
    /\ UNCHANGED << manifest, log, troubles >>

Save(h) ==
    LET j == held[h].job IN
    /\ j # NoJob /\ Exists(j)
    /\ Accepted(j, held[h].copy)
    /\ \E m \in After(held[h].copy) :
          /\ Replace(j, m)
          /\ held' = [held EXCEPT ![h] = [@ EXCEPT !.copy = m, !.seen = m.revision,
                                                   !.refused = FALSE]]
    /\ held[h].copy.revision < MaxRevision

\* Slip: the revision stays advanced after a failed write.
Advanced(copy) == [copy EXCEPT !.revision = @ + 1]

\* What the holder has in memory after a write that failed before the
\* replacement: the revision and the time of before.
Restored(copy) == copy

SaveFails(h) ==
    LET j == held[h].job IN
    /\ j # NoJob /\ Exists(j)
    /\ Accepted(j, held[h].copy)
    /\ held' = [held EXCEPT ![h].copy = Restored(@), ![h].refused = FALSE]
    /\ Trouble
    /\ UNCHANGED << manifest, log >>

SaveRefused(h) ==
    LET j == held[h].job IN
    /\ j # NoJob /\ Exists(j)
    /\ ~Accepted(j, held[h].copy)
    /\ held' = [held EXCEPT ![h].refused = TRUE]
    /\ UNCHANGED << manifest, log, troubles >>

-----------------------------------------------------------------------------
(* Reading the status, under the lock.                                     *)

\* Slip: whatever is on disk.
EventsOnDisk(j) == log[j]

\* The events told with a status: the ones on disk if they are what the
\* manifest says, else the ones it says.
EventsOf(j) == IF log[j] = manifest[j].revision THEN log[j] ELSE manifest[j].revision

StatusOf(j) == [job |-> j, revision |-> manifest[j].revision, ended |-> manifest[j].ended,
                dubbed |-> manifest[j].dubbed, events |-> EventsOf(j)]

\* A log that is behind is written again, if the disk allows it.
ReadStatus(j) ==
    /\ Exists(j)
    /\ Project(j, manifest[j].revision)
    /\ UNCHANGED << manifest, held >>

\* Somebody deletes the directory of a run that no process holds.
Remove(j) ==
    /\ Exists(j)
    /\ \A h \in Holders : held[h].job # j
    /\ manifest' = [manifest EXCEPT ![j] = Removed]
    /\ Trouble
    /\ log' = [log EXCEPT ![j] = 0]
    /\ UNCHANGED held
=============================================================================
