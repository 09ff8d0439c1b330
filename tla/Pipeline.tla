------------------------------ MODULE Pipeline ------------------------------
(***************************************************************************)
(* What a run promises, whoever executes it: its stages are delivered in   *)
(* order, each exactly once, one at a time, each within a bounded number   *)
(* of tries, and a run that stopped never resumes on its own.  Workers,    *)
(* leases, backoff and time do not appear.                                 *)
(***************************************************************************)
EXTENDS Integers

CONSTANTS NStages, MaxAttempts

VARIABLES
    delivered,   \* the set of stages whose results are final
    active,      \* the set of stages being tried: at most one
    tries,       \* how often each stage was started
    stopped      \* given up

vars == << delivered, active, tries, stopped >>

Stage == 1 .. NStages

Init ==
    /\ delivered = {}
    /\ active = {}
    /\ tries = [s \in Stage |-> 0]
    /\ stopped = FALSE

\* A try of the first stage not yet delivered, either fresh or in place of a
\* try that was lost.
Try(s) ==
    /\ ~stopped
    /\ delivered = 1 .. (s - 1)
    /\ active \subseteq {s}
    /\ tries[s] < MaxAttempts
    /\ active' = {s}
    /\ tries' = [tries EXCEPT ![s] = @ + 1]
    /\ UNCHANGED << delivered, stopped >>

\* The try failed and another one remains.
Release(s) ==
    /\ active = {s}
    /\ tries[s] < MaxAttempts
    /\ active' = {}
    /\ UNCHANGED << delivered, tries, stopped >>

Deliver(s) ==
    /\ active = {s}
    /\ active' = {}
    /\ delivered' = delivered \cup {s}
    /\ UNCHANGED << tries, stopped >>

Stop(s) ==
    /\ active = {s}
    /\ active' = {}
    /\ stopped' = TRUE
    /\ UNCHANGED << delivered, tries >>

Next == \E s \in Stage : Try(s) \/ Release(s) \/ Deliver(s) \/ Stop(s)

Spec == Init /\ [][Next]_vars

=============================================================================
