----------------------------- MODULE MCWorkers -----------------------------
(* Two workers on a short pipeline. *)
EXTENDS Workers

CONSTANTS w1, w2, host

\* The hardest case for fencing: both processes claim under one identity.
OneIdentity == [w \in {w1, w2} |-> host]
=============================================================================
