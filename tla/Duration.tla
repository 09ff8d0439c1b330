------------------------------ MODULE Duration ------------------------------
(***************************************************************************)
(* What src/dub_mvp/duration.py decides while it fits one utterance into   *)
(* its time: when audio fits, which tactic comes next, and what is said of *)
(* the outcome.  A duration is given by its deviation from the budget of   *)
(* the utterance, positive when the audio is too long.  The steps that     *)
(* carry the tactics out are in Speech.                                    *)
(***************************************************************************)
EXTENDS Integers, Sequences

CONSTANTS
    PrimaryTolerance, HardTolerance, \* as deviations; either may be wider
    MaxControls,                     \* max_provider_control_attempts
    MaxRewrites,                     \* max_rewrite_attempts
    MaxTotalAttempts                 \* max_total_attempts

ASSUME DurationAssumption ==
    /\ {PrimaryTolerance, HardTolerance, MaxControls, MaxRewrites} \subseteq Nat
    /\ MaxTotalAttempts \in Nat \ {0}

Magnitude(d) == IF d < 0 THEN -d ELSE d

WithinPrimary(d) == Magnitude(d) <= PrimaryTolerance
WithinHard(d) == Magnitude(d) <= HardTolerance

\* A short budget makes the primary tolerance, which has an absolute floor,
\* wider than the hard one: both are asked for.
Satisfied(d) == WithinPrimary(d) /\ WithinHard(d)

\* A slip: the newest audio is the one to keep.
IsNewer(new, old) == TRUE
IsBetter(new, old) == Magnitude(new) < Magnitude(old)

\* The tactics in the order of DurationCorrector.fit, loops laid out.
Plan ==
    [i \in 1 .. MaxControls |-> "provider_controls"]
    \o << "trim_artificial_pauses", "mild_time_stretch" >>
    \o [i \in 1 .. 2 * MaxRewrites |->
           IF i % 2 = 1 THEN "compact_rewrite" ELSE "regenerate_assigned_voice"]
    \o << "final_time_stretch" >>

\* What is in hand while fitting: an audio file, the take it holds, and how it
\* came about.
Candidate(name, take, strategy, rewritten) ==
    [name |-> name, take |-> take, strategy |-> strategy, rewritten |-> rewritten]

\* What was produced is adopted if it is nearer to the budget.
Adopted(produced, c) ==
    IF IsBetter(produced.take.off, c.take.off) THEN produced ELSE c

\* Whether a tactic is tried on candidate c.  A rewrite is followed by speech
\* only if it passed validation; the last stretch is for rewritten audio.  (A
\* stretch by less than a thousandth, which the code skips, would be within
\* both tolerances.)
Due(tactic, c, setup, validRewrite) ==
    /\ ~Satisfied(c.take.off)
    /\ tactic = "provider_controls" => setup.controls
    /\ tactic = "trim_artificial_pauses" => c.take.off > 0
    /\ tactic = "compact_rewrite" => setup.rewriter
    /\ tactic = "regenerate_assigned_voice" => validRewrite
    /\ tactic = "final_time_stretch" => c.rewritten

\* The status of a fit.
Verdict(c) ==
    IF ~WithinHard(c.take.off) THEN "unresolved"
    ELSE IF c.rewritten \/ ~WithinPrimary(c.take.off) THEN "review_required"
    ELSE IF c.strategy = "accept" THEN "accepted"
    ELSE "corrected"

=============================================================================
