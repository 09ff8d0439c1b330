------------------------------ MODULE MCRetry ------------------------------
(* An operator against two workers on a short pipeline. *)
EXTENDS OperatorRetry, TLC

CONSTANTS w1, w2, host

OneIdentity == [w \in {w1, w2} |-> host]

TwoWorkers == Permutations({w1, w2})
=============================================================================
