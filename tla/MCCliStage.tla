----------------------------- MODULE MCCliStage -----------------------------
(* One operator at the command line against two workers. *)
EXTENDS CliStage, TLC

CONSTANTS w1, w2, host

OneIdentity == [w \in {w1, w2} |-> host]

TwoWorkers == Permutations({w1, w2})
=============================================================================
