----------------------------- MODULE MCWebJobs -----------------------------
(* The web process against two workers on a short pipeline. *)
EXTENDS WebJobs, TLC

CONSTANTS w1, w2, host

OneIdentity == [w \in {w1, w2} |-> host]

TwoWorkers == Permutations({w1, w2})
=============================================================================
