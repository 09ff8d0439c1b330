----------------------------- MODULE SpeechProofs -----------------------------
(* Theorems about the synthesis stage on disk, for any number of utterances,  *)
(* any durations audio may come out with, any limits on tactics, and any      *)
(* number of deaths, failures, retries and forced runs.                       *)
EXTENDS Speech, NumberedProofs, FiniteSetTheorems

USE SpeechAssumption, DurationAssumption

Tactics ==
    {"provider_controls", "trim_artificial_pauses", "mild_time_stretch",
     "compact_rewrite", "regenerate_assigned_voice", "final_time_stretch"}
Name == (Tactics \cup {"raw"}) \X Nat
Take == [id : Nat, off : Int]
Attempt == [status : {"completed", "failed"}, revision : Nat]
Correction ==
    [tactic : Tactics \cup {"accept", "surface_unresolved"},
     status : {"running", "completed", "failed"}]
Candidates ==
    [name : Name, take : Take, strategy : Tactics \cup {"accept"}, rewritten : BOOLEAN]
Fit ==
    [name : Name, take : Take, rewritten : BOOLEAN,
     status : {"unresolved", "review_required", "accepted", "corrected"},
     attempts : Seq(Correction), proof : {"none", "completed", "invalid"}]
Phase ==
    {"idle", "take", "speak", "prove", "record", "fit", "accept", "correct", "produce",
     "finish", "rewrite", "publish", "certify", "deliver"}
Task ==
    [pc : Phase, forced : BOOLEAN, at : Utterance, step : Nat \ {0}, take : Take,
     candidate : Candidates, valid : BOOLEAN,
     revision : [Utterance -> Nat], fit : [Utterance -> Nat]]
Troubles == {"deaths", "failures", "retries", "forced"}

SpeechTypeOK ==
    /\ audio = [u \in Utterance |-> audio[u]]
    /\ result = [u \in Utterance |-> result[u]]
    /\ history \in [Utterance -> Seq(Attempt)]
    /\ ledger = [u \in Utterance |-> ledger[u]]
    /\ fits = [u \in Utterance |-> fits[u]]
    /\ task \in Task
    /\ takes \in Nat

-----------------------------------------------------------------------------
(* The directories of one utterance.                                        *)

\* The next attempt to be recorded, of the history h and the results s, is r.
Unrecorded(s, h, r) == s[r].status = "completed" /\ s[r].attempt = Len(h) + 1

\* The audio a, the results s and the history h.
SpokenOnDisk(a, s, h) ==
    /\ DOMAIN a \subseteq Name
    /\ \A r \in DOMAIN s :
          /\ r \in Nat
          /\ s[r] = [status |-> s[r].status, take |-> s[r].take, attempt |-> s[r].attempt]
          /\ s[r].take \in Take
          /\ Raw(r) \in DOMAIN a /\ a[Raw(r)] = s[r].take.id
          /\ s[r].status = "completed" =>
                /\ s[r].attempt \in 1 .. Len(h) + 1
                /\ s[r].attempt <= Len(h) =>
                      h[s[r].attempt] = [status |-> "completed", revision |-> r]
          /\ Unrecorded(s, h, r) =>
                /\ \A i \in 1 .. Len(h) : h[i] # [status |-> "completed", revision |-> r]
                /\ \A q \in DOMAIN s : s[q].status = "completed" => q <= r
    /\ \A i \in 1 .. Len(h) : h[i].status = "completed" => h[i].revision \in DOMAIN s
    /\ \A i, j \in 1 .. Len(h) : h[i].status = "completed" /\ h[i] = h[j] => i = j

\* The ledger l of one take.
Corrections(l) == {i \in DOMAIN l : l[i].tactic # "accept"}
LedgerOnDisk(l) ==
    /\ l \in Seq(Correction)
    /\ Cardinality(Corrections(l)) <= MaxTotalAttempts
    /\ \A i \in 1 .. Len(l) : l[i].status = "running" => i = Len(l)
Settled(l) == \A i \in 1 .. Len(l) : l[i].status # "running"

\* A fit of the take r, which is off by d, with the ledger l.
HonestFit(fit, r, d, l) ==
    /\ Magnitude(fit.take.off) <= Magnitude(d)
    /\ fit.status = "unresolved" <=> Magnitude(fit.take.off) > HardTolerance
    /\ fit.status \in {"accepted", "corrected"} =>
          Satisfied(fit.take.off) /\ ~fit.rewritten
    /\ fit.status = "accepted" => fit.name = Raw(r)
    /\ Settled(fit.attempts)
    /\ Len(fit.attempts) <= Len(l)
    /\ \A i \in 1 .. Len(fit.attempts) : fit.attempts[i] = l[i]

\* The results s, the ledgers l and the fits f.
FittedOnDisk(s, l, f) ==
    /\ DOMAIN l \subseteq DOMAIN s
    /\ DOMAIN f \subseteq DOMAIN l
    /\ \A r \in DOMAIN l : LedgerOnDisk(l[r])
    /\ \A r \in DOMAIN f :
          /\ f[r] \in Seq(Fit)
          /\ \A n \in 1 .. Len(f[r]) : HonestFit(f[r][n], r, s[r].take.off, l[r])

OnDisk ==
    \A u \in Utterance :
        /\ SpokenOnDisk(audio[u], result[u], history[u])
        /\ FittedOnDisk(result[u], ledger[u], fits[u])

\* There are only so many raw takes.
NumberedUpTo(k) ==
    \A u \in Utterance : \A name \in DOMAIN audio[u] : name[1] = "raw" => name[2] <= k

-----------------------------------------------------------------------------
(* What the process knows.                                                  *)

\* r is the newest of the proven results s.
Chosen(s, r) ==
    /\ r \in DOMAIN s /\ s[r].status = "completed"
    /\ \A q \in DOMAIN s : s[q].status = "completed" => q <= r

\* n is a fit of r whose audio is what it was judged by.
Judged(a, f, r, n) ==
    /\ r \in DOMAIN f /\ n \in 1 .. Len(f[r])
    /\ a[f[r][n].name] = f[r][n].take.id

Speaks == {"take", "speak", "prove", "record"}
Fits == {"fit", "accept", "correct", "produce", "finish", "rewrite", "publish", "certify"}
Corrects == {"accept", "correct", "produce", "finish", "rewrite", "publish"}
Runs == {"produce", "finish", "rewrite"}

\* While it speaks an utterance.
KnowsSpoken(t, a, s, h) ==
    LET r == t.revision[t.at] IN
    /\ t.pc \in {"speak", "prove"} => \A q \in DOMAIN s : ~Unrecorded(s, h, q)
    /\ t.pc = "prove" =>
          /\ Raw(r) \in DOMAIN a /\ a[Raw(r)] = t.take.id
          /\ \A q \in DOMAIN s : q < r
    /\ t.pc = "record" => r \in DOMAIN s /\ Unrecorded(s, h, r)

\* While it fits an utterance: the candidate is no worse than the raw take, and
\* its audio is older than whatever is going to be produced.
KnowsFit(t, a, s, l, f) ==
    LET r == t.revision[t.at]
        c == t.candidate
    IN
    /\ t.pc \in Corrects =>
          /\ r \in DOMAIN l
          /\ c.name \in DOMAIN a /\ a[c.name] = c.take.id
          /\ Magnitude(c.take.off) <= Magnitude(s[r].take.off)
          /\ c.strategy = "accept" => c.name = Raw(r)
          /\ c.name[1] # "raw" => c.name[2] <= Len(l[r])
          /\ IF t.pc \in Runs
             THEN Len(l[r]) > 0 /\ l[r][Len(l[r])].status = "running"
             ELSE Settled(l[r])
    /\ t.pc \in Runs => t.step \in 1 .. Len(Plan)
    /\ t.pc = "produce" /\ c.name[1] # "raw" => c.name[2] < Len(l[r])
    /\ t.pc = "finish" =>
          /\ << Plan[t.step], Len(l[r]) >> \in DOMAIN a
          /\ a[<< Plan[t.step], Len(l[r]) >>] = t.take.id
    /\ t.pc = "certify" => r \in DOMAIN f /\ Judged(a, f, r, Len(f[r]))

Knows(t, a, s, h, l, f) ==
    /\ t.pc \in Speaks =>
          /\ \A u \in Utterance : u < t.at => Chosen(s[u], t.revision[u])
          /\ KnowsSpoken(t, a[t.at], s[t.at], h[t.at])
    /\ t.pc \in Fits =>
          /\ \A u \in Utterance : Chosen(s[u], t.revision[u])
          /\ \A u \in Utterance : u < t.at => Judged(a[u], f[u], t.revision[u], t.fit[u])
          /\ KnowsFit(t, a[t.at], s[t.at], l[t.at], f[t.at])
    /\ t.pc = "deliver" =>
          \A u \in Utterance :
             Chosen(s[u], t.revision[u]) /\ Judged(a[u], f[u], t.revision[u], t.fit[u])
InMemory == Knows(task, audio, result, history, ledger, fits)

Core == SpeechTypeOK /\ OnDisk /\ InMemory
SpeechInductive == Core /\ \E k \in Nat : NumberedUpTo(k)

-----------------------------------------------------------------------------
(* Ledgers.                                                                 *)

LEMMA PlanIs ==
    /\ Plan \in Seq(Tactics) /\ Len(Plan) \in Nat
    /\ \A i \in 1 .. Len(Plan) : Plan[i] \in Tactics
<1> DEFINE p == [i \in 1 .. MaxControls |-> "provider_controls"]
           q == << "trim_artificial_pauses", "mild_time_stretch" >>
           r == [i \in 1 .. 2 * MaxRewrites |->
                    IF i % 2 = 1 THEN "compact_rewrite" ELSE "regenerate_assigned_voice"]
           s == << "final_time_stretch" >>
<1>1. p \in Seq(Tactics)
  BY DEF Tactics
<1>2. q \in Seq(Tactics) /\ s \in Seq(Tactics)
  BY DEF Tactics
<1>3. r \in Seq(Tactics)
  <2>1. PICK n \in Nat : n = 2 * MaxRewrites
    OBVIOUS
  <2>2. \A i \in 1 .. n : r[i] \in Tactics
    BY <2>1 DEF Tactics
  <2>3. QED
    BY <2>1, <2>2
<1>4. Plan = p \o q \o r \o s
  BY DEF Plan
<1> HIDE DEF p, q, r, s
<1>5. Plan \in Seq(Tactics)
  BY <1>1, <1>2, <1>3, <1>4
<1>6. QED
  BY <1>5

\* Corrections are added, and only the one that runs is changed.
Grown(l, m) ==
    /\ Len(l) <= Len(m)
    /\ \A i \in 1 .. Len(l) : l[i].status # "running" => m[i] = l[i]

LEMMA CorrectionsCounted ==
    ASSUME NEW l \in Seq(Correction)
    PROVE  /\ IsFiniteSet(Corrections(l)) /\ Cardinality(Corrections(l)) \in Nat
           /\ Cardinality(Corrections(l)) <= Len(l)
<1>1. PICK n \in Nat : n = Len(l)
  OBVIOUS
<1>2. IsFiniteSet(1 .. n) /\ Cardinality(1 .. n) = n
  <2>1. n \in Int /\ 1 \in Int /\ n - 1 + 1 = n /\ (1 > n => n = 0)
    OBVIOUS
  <2>2. /\ IsFiniteSet(1 .. n)
        /\ Cardinality(1 .. n) = IF 1 > n THEN 0 ELSE n - 1 + 1
    BY <2>1, FS_Interval, Zenon
  <2>3. QED
    BY <2>1, <2>2
<1>3. Corrections(l) \subseteq 1 .. n
  BY <1>1 DEF Corrections
<1>4. QED
  BY <1>1, <1>2, <1>3, FS_Subset, FS_CardinalityType

LEMMA LedgerAppended ==
    ASSUME NEW l, LedgerOnDisk(l), Settled(l), NEW e \in Correction,
           e.tactic = "accept" \/ Len(l) < MaxTotalAttempts,
           NEW m, m = Append(l, e)
    PROVE  /\ LedgerOnDisk(m) /\ Grown(l, m)
           /\ Len(m) = Len(l) + 1 /\ m[Len(m)] = e
           /\ e.status # "running" => Settled(m)
<1>1. l \in Seq(Correction)
  BY DEF LedgerOnDisk
<1>2. PICK n \in Nat : n = Len(l)
  BY <1>1
<1>3. /\ m \in Seq(Correction) /\ Len(m) = n + 1 /\ m[n + 1] = e
      /\ \A i \in 1 .. n : m[i] = l[i]
  BY <1>1, <1>2
<1>4. Cardinality(Corrections(m)) <= MaxTotalAttempts
  <2>1. CASE e.tactic = "accept"
    <3>1. Corrections(m) = Corrections(l)
      BY <1>1, <1>2, <1>3, <2>1 DEF Corrections
    <3>2. QED
      BY <3>1 DEF LedgerOnDisk
  <2>2. CASE Len(l) < MaxTotalAttempts
    <3>1. Cardinality(Corrections(m)) \in Nat /\ Cardinality(Corrections(m)) <= n + 1
      BY <1>3, CorrectionsCounted
    <3>2. QED
      BY <1>2, <2>2, <3>1
  <2>3. QED
    BY <2>1, <2>2
<1>5. \A i \in 1 .. n : m[i].status # "running"
  BY <1>2, <1>3 DEF Settled
<1>6. LedgerOnDisk(m)
  BY <1>3, <1>4, <1>5 DEF LedgerOnDisk
<1>7. Grown(l, m)
  BY <1>2, <1>3 DEF Grown
<1>8. e.status # "running" => Settled(m)
  BY <1>3, <1>5 DEF Settled
<1>9. QED
  BY <1>2, <1>3, <1>6, <1>7, <1>8

LEMMA LedgerEnded ==
    ASSUME NEW l, LedgerOnDisk(l), Len(l) > 0, l[Len(l)].status = "running",
           NEW status \in {"completed", "failed"},
           NEW m, m = [l EXCEPT ![Len(l)] = [@ EXCEPT !.status = status]]
    PROVE  /\ LedgerOnDisk(m) /\ Grown(l, m) /\ Settled(m) /\ Len(m) = Len(l)
<1>1. l \in Seq(Correction)
  BY DEF LedgerOnDisk
<1>2. PICK n \in Nat : n = Len(l) /\ n > 0
  BY <1>1
<1>3. PICK e : e = [l[n] EXCEPT !.status = status]
  OBVIOUS
<1>4. l[n] \in Correction
  BY <1>1, <1>2
<1>5. e \in Correction /\ e.tactic = l[n].tactic /\ e.status = status
  BY <1>3, <1>4 DEF Correction
<1>6. m = [l EXCEPT ![n] = e]
  BY <1>2, <1>3
<1>7. /\ m \in Seq(Correction) /\ Len(m) = n /\ m[n] = e
      /\ \A i \in 1 .. n : i # n => m[i] = l[i]
  BY <1>1, <1>2, <1>5, <1>6
<1>8. Corrections(m) = Corrections(l)
  <2>1. DOMAIN m = 1 .. n /\ DOMAIN l = 1 .. n
    BY <1>1, <1>2, <1>7
  <2>2. \A i \in 1 .. n : m[i].tactic = l[i].tactic
    BY <1>5, <1>7
  <2>3. QED
    BY <2>1, <2>2 DEF Corrections
<1>9. \A i \in 1 .. n : m[i].status # "running"
  <2>1. \A i \in 1 .. n : i # n => l[i].status # "running"
    BY <1>2 DEF LedgerOnDisk
  <2>2. QED
    BY <1>5, <1>7, <2>1
<1>10. LedgerOnDisk(m)
  BY <1>7, <1>8, <1>9 DEF LedgerOnDisk
<1>11. Grown(l, m)
  BY <1>2, <1>7 DEF Grown
<1>12. QED
  BY <1>2, <1>7, <1>9, <1>10, <1>11 DEF Settled

LEMMA HonestGrown ==
    ASSUME NEW fit \in Fit, NEW r, NEW d, NEW l \in Seq(Correction), NEW m \in Seq(Correction),
           HonestFit(fit, r, d, l), Grown(l, m)
    PROVE  HonestFit(fit, r, d, m)
<1>1. PICK n \in Nat : n = Len(fit.attempts)
  BY DEF Fit
<1>2. PICK j \in Nat : j = Len(l)
  OBVIOUS
<1>3. PICK k \in Nat : k = Len(m)
  OBVIOUS
<1>4. n <= j /\ j <= k
  BY <1>1, <1>2, <1>3 DEF HonestFit, Grown
<1>5. \A i \in 1 .. n : fit.attempts[i] = m[i]
  <2>1. ASSUME NEW i \in 1 .. n
        PROVE  fit.attempts[i] = m[i]
    <3>1. fit.attempts[i] = l[i] /\ fit.attempts[i].status # "running"
      BY <1>1 DEF HonestFit, Settled
    <3>2. i \in 1 .. j
      BY <1>4
    <3>3. QED
      BY <1>2, <3>1, <3>2 DEF Grown
  <2>2. QED
    BY <2>1
<1>6. Len(fit.attempts) <= Len(m)
  BY <1>1, <1>3, <1>4
<1>7. QED
  BY <1>1, <1>5, <1>6 DEF HonestFit

LEMMA LedgerWritten ==
    ASSUME NEW s, NEW l, NEW f, FittedOnDisk(s, l, f), NEW r \in DOMAIN s,
           NEW m, LedgerOnDisk(m), r \in DOMAIN l => Grown(l[r], m)
    PROVE  FittedOnDisk(s, With(l, r, m), f)
<1>1. PICK k : k = With(l, r, m)
  OBVIOUS
<1>2. /\ DOMAIN k = DOMAIN l \cup {r} /\ k[r] = m
      /\ \A q \in DOMAIN l : q # r => k[q] = l[q]
  BY <1>1 DEF With
<1>3. \A q \in DOMAIN k : LedgerOnDisk(k[q])
  BY <1>2 DEF FittedOnDisk
<1>4. ASSUME NEW q \in DOMAIN f
      PROVE  /\ f[q] \in Seq(Fit)
             /\ \A n \in 1 .. Len(f[q]) : HonestFit(f[q][n], q, s[q].take.off, k[q])
  <2>1. /\ f[q] \in Seq(Fit) /\ q \in DOMAIN l
        /\ \A n \in 1 .. Len(f[q]) : HonestFit(f[q][n], q, s[q].take.off, l[q])
    BY DEF FittedOnDisk
  <2>2. l[q] \in Seq(Correction) /\ k[q] \in Seq(Correction)
    BY <1>2, <1>3, <2>1 DEF FittedOnDisk, LedgerOnDisk
  <2>3. CASE q = r
    <3>1. Grown(l[q], k[q])
      BY <1>2, <2>1, <2>3
    <3>2. PICK x, y \in Seq(Correction) : x = l[q] /\ y = k[q]
      BY <2>2
    <3>3. PICK d : d = s[q].take.off
      OBVIOUS
    <3>4. ASSUME NEW n \in 1 .. Len(f[q])
          PROVE  HonestFit(f[q][n], q, s[q].take.off, k[q])
      <4>1. PICK fit \in Fit : fit = f[q][n]
        BY <2>1
      <4>2. HonestFit(fit, q, d, x) /\ Grown(x, y)
        BY <2>1, <3>1, <3>2, <3>3, <4>1
      <4>3. HonestFit(fit, q, d, y)
        BY <4>2, HonestGrown
      <4>4. QED
        BY <3>2, <3>3, <4>1, <4>3
    <3>5. QED
      BY <2>1, <3>4
  <2>4. CASE q # r
    BY <1>2, <2>1, <2>4
  <2>5. QED
    BY <2>3, <2>4
<1>5. DOMAIN k \subseteq DOMAIN s /\ DOMAIN f \subseteq DOMAIN k
  BY <1>2 DEF FittedOnDisk
<1>6. QED
  BY <1>1, <1>3, <1>4, <1>5 DEF FittedOnDisk

LEMMA LedgerClosed ==
    ASSUME NEW l, LedgerOnDisk(l), NEW m, m = Closed(l)
    PROVE  LedgerOnDisk(m) /\ Grown(l, m) /\ Settled(m)
<1>1. l \in Seq(Correction)
  BY DEF LedgerOnDisk
<1>2. CASE l # << >> /\ l[Len(l)].status = "running"
  <2>1. Len(l) > 0
    BY <1>1, <1>2
  <2>2. m = [l EXCEPT ![Len(l)] = [@ EXCEPT !.status = "failed"]]
    BY <1>2 DEF Closed
  <2>3. QED
    BY <1>2, <2>1, <2>2, LedgerEnded
<1>3. CASE ~(l # << >> /\ l[Len(l)].status = "running")
  <2>1. m = l
    BY <1>3 DEF Closed
  <2>2. \A i \in 1 .. Len(l) : l[i].status # "running"
    BY <1>1, <1>3 DEF LedgerOnDisk
  <2>3. QED
    BY <1>1, <2>1, <2>2 DEF Grown, Settled
<1>4. QED
  BY <1>2, <1>3

LEMMA NoLedger == LedgerOnDisk(<< >>) /\ Len(<< >>) = 0
<1>1. << >> \in Seq(Correction) /\ Len(<< >>) = 0 /\ DOMAIN << >> = {}
  OBVIOUS
<1>2. Cardinality(Corrections(<< >>)) <= MaxTotalAttempts
  <2>1. Corrections(<< >>) = {}
    BY <1>1 DEF Corrections
  <2>2. Cardinality(Corrections(<< >>)) = 0
    BY <2>1, FS_EmptySet
  <2>3. QED
    BY <2>2
<1>3. QED
  BY <1>1, <1>2 DEF LedgerOnDisk

-----------------------------------------------------------------------------
(* The process.                                                             *)

LEMMA UtteranceNumbers ==
    /\ 1 \in Utterance
    /\ \A u \in Utterance : u \in Nat /\ u <= NUtterances /\ (u < NUtterances => u + 1 \in Utterance)
  BY DEF Utterance

LEMMA IdleTask == Idle \in Task /\ Idle.pc = "idle" /\ Idle.at = 1 /\ Idle.forced = FALSE
<1>1. NoTake \in Take
  BY DEF NoTake, Take
<1>2. NoCandidate \in Candidates
  <2>1. << "raw", 0 >> \in Name
    BY DEF Name
  <2>2. QED
    BY <1>1, <2>1 DEF NoCandidate, Candidate, Candidates
<1>3. [u \in Utterance |-> 0] \in [Utterance -> Nat]
  OBVIOUS
<1>4. QED
  BY <1>1, <1>2, <1>3, UtteranceNumbers DEF Idle, Task, Phase

LEMMA CoreAgain ==
    ASSUME audio' = [u \in Utterance |-> audio'[u]], result' = [u \in Utterance |-> result'[u]],
           history' \in [Utterance -> Seq(Attempt)],
           ledger' = [u \in Utterance |-> ledger'[u]], fits' = [u \in Utterance |-> fits'[u]],
           takes' \in Nat, NEW x \in Task, task' = x, OnDisk',
           Knows(x, audio', result', history', ledger', fits')
    PROVE  Core'
  BY DEF Core, SpeechTypeOK, InMemory

LEMMA UtteranceChanged ==
    ASSUME OnDisk, NEW u \in Utterance,
           \A c \in Utterance : c # u =>
              /\ audio'[c] = audio[c] /\ result'[c] = result[c] /\ history'[c] = history[c]
              /\ ledger'[c] = ledger[c] /\ fits'[c] = fits[c],
           SpokenOnDisk(audio'[u], result'[u], history'[u]),
           FittedOnDisk(result'[u], ledger'[u], fits'[u])
    PROVE  OnDisk'
<1>1. ASSUME NEW c \in Utterance
      PROVE  /\ SpokenOnDisk(audio'[c], result'[c], history'[c])
             /\ FittedOnDisk(result'[c], ledger'[c], fits'[c])
  <2>1. CASE c = u
    BY <2>1
  <2>2. CASE c # u
    <3>1. /\ audio'[c] = audio[c] /\ result'[c] = result[c] /\ history'[c] = history[c]
          /\ ledger'[c] = ledger[c] /\ fits'[c] = fits[c]
      BY <2>2
    <3>2. QED
      BY <3>1 DEF OnDisk
  <2>3. QED
    BY <2>1, <2>2
<1>2. QED
  BY <1>1 DEF OnDisk

LEMMA DiskUntouched ==
    ASSUME Core, UNCHANGED << speechFiles, fitFiles >>, takes' \in Nat,
           NEW x \in Task, task' = x, Knows(x, audio, result, history, ledger, fits)
    PROVE  Core'
<1>1. /\ audio' = audio /\ result' = result /\ history' = history
      /\ ledger' = ledger /\ fits' = fits
  BY DEF speechFiles, fitFiles
<1>2. OnDisk'
  BY <1>1 DEF Core, OnDisk
<1>3. Knows(x, audio', result', history', ledger', fits')
  BY <1>1
<1>4. /\ audio' = [u \in Utterance |-> audio'[u]] /\ result' = [u \in Utterance |-> result'[u]]
      /\ history' \in [Utterance -> Seq(Attempt)]
      /\ ledger' = [u \in Utterance |-> ledger'[u]] /\ fits' = [u \in Utterance |-> fits'[u]]
  BY <1>1 DEF Core, SpeechTypeOK
<1>5. QED
  BY <1>2, <1>3, <1>4, CoreAgain

\* What there is of the utterance in hand, on disk and in memory.
LEMMA InHand ==
    ASSUME Core
    PROVE  \E t, u, r, a, s, h, l, f :
              /\ t \in Task /\ u \in Utterance /\ r \in Nat
              /\ t = task /\ u = t.at /\ u = u0 /\ r = t.revision[u] /\ r = r0
              /\ a = audio[u] /\ s = result[u] /\ h = history[u]
              /\ l = ledger[u] /\ f = fits[u]
              /\ h \in Seq(Attempt)
              /\ SpokenOnDisk(a, s, h) /\ FittedOnDisk(s, l, f)
              /\ Knows(t, audio, result, history, ledger, fits)
<1>1. PICK t \in Task : t = task
  BY DEF Core, SpeechTypeOK
<1>2. PICK u \in Utterance : u = t.at
  BY DEF Task
<1>3. PICK r \in Nat : r = t.revision[u]
  BY DEF Task
<1>4. PICK a, s, h, l, f : /\ a = audio[u] /\ s = result[u] /\ h = history[u]
                           /\ l = ledger[u] /\ f = fits[u]
  OBVIOUS
<1>5. h \in Seq(Attempt) /\ SpokenOnDisk(a, s, h) /\ FittedOnDisk(s, l, f)
  BY <1>4 DEF Core, SpeechTypeOK, OnDisk
<1>6. Knows(t, audio, result, history, ledger, fits)
  BY <1>1 DEF Core, InMemory
<1>7. u = u0 /\ r = r0
  BY <1>1, <1>2, <1>3 DEF u0, r0
<1>8. QED
  BY <1>1, <1>2, <1>3, <1>4, <1>5, <1>6, <1>7

-----------------------------------------------------------------------------
(* Beginning and ending.                                                    *)

LEMMA StartStep ==
    ASSUME Core, Start \/ StartForced
    PROVE  Core'
<1>1. PICK x : task' = x /\ x \in {[Idle EXCEPT !.pc = "take"],
                                  [Idle EXCEPT !.pc = "take", !.forced = TRUE]}
  BY DEF Start, StartForced
<1>2. x \in Task /\ x.pc = "take" /\ x.at = 1
  BY <1>1, IdleTask DEF Task, Phase
<1>3. Knows(x, audio, result, history, ledger, fits)
  BY <1>2 DEF Knows, KnowsSpoken, Speaks, Fits, Utterance
<1>4. UNCHANGED << speechFiles, fitFiles, takes >>
  BY DEF Start, StartForced
<1>5. QED
  BY <1>1, <1>2, <1>3, <1>4, DiskUntouched DEF Core, SpeechTypeOK

LEMMA StopStep ==
    ASSUME Core, Die \/ Deliver
    PROVE  Core'
<1>1. task' = Idle /\ UNCHANGED << speechFiles, fitFiles, takes >>
  BY DEF Die, Deliver
<1>2. Knows(Idle, audio, result, history, ledger, fits)
  BY IdleTask DEF Knows, Speaks, Fits
<1>3. QED
  BY <1>1, <1>2, IdleTask, DiskUntouched DEF Core, SpeechTypeOK

-----------------------------------------------------------------------------
(* Speaking.                                                                *)

LEMMA SpokeTask ==
    ASSUME task \in Task, NEW u \in Utterance, u = task.at, NEW r \in Nat,
           NEW x, x = Spoke(r)
    PROVE  /\ x \in Task
           /\ x.revision = [task.revision EXCEPT ![u] = r]
           /\ IF u < NUtterances THEN x.pc = "take" /\ x.at = u + 1
                                 ELSE x.pc = "fit" /\ x.at = 1
<1> DEFINE revision == [task.revision EXCEPT ![u] = r]
           t == [task EXCEPT !.revision = revision, !.take = NoTake]
<1>1. revision \in [Utterance -> Nat]
  BY DEF Task
<1> HIDE DEF revision
<1>2. NoTake \in Take
  BY DEF NoTake, Take
<1>3. t \in Task /\ t.revision = revision
  BY <1>1, <1>2 DEF Task
<1>4. x = IF u < NUtterances THEN [t EXCEPT !.pc = "take", !.at = u + 1]
                             ELSE [t EXCEPT !.pc = "fit", !.at = 1]
  BY DEF Spoke, u0, revision
<1> HIDE DEF t
<1>5. CASE u < NUtterances
  <2>1. PICK v \in Utterance : v = u + 1
    BY <1>5, UtteranceNumbers
  <2>2. x = [t EXCEPT !.pc = "take", !.at = v]
    BY <1>4, <1>5, <2>1
  <2>3. x \in Task /\ x.pc = "take" /\ x.at = v /\ x.revision = revision
    BY <1>3, <2>2 DEF Task, Phase
  <2>4. QED
    BY <1>5, <2>1, <2>3 DEF revision
<1>6. CASE ~(u < NUtterances)
  <2>1. x = [t EXCEPT !.pc = "fit", !.at = 1]
    BY <1>4, <1>6
  <2>2. x \in Task /\ x.pc = "fit" /\ x.at = 1 /\ x.revision = revision
    BY <1>3, <2>1, UtteranceNumbers DEF Task, Phase
  <2>3. QED
    BY <1>6, <2>2 DEF revision
<1>7. QED
  BY <1>5, <1>6

LEMMA SpokeKnows ==
    ASSUME NEW t \in Task, NEW x \in Task, NEW u \in Utterance, u = t.at, NEW r \in Nat,
           NEW A, NEW S, NEW H, NEW L, NEW F,
           \A v \in Utterance : v < u => Chosen(S[v], t.revision[v]), Chosen(S[u], r),
           x.revision = [t.revision EXCEPT ![u] = r],
           IF u < NUtterances THEN x.pc = "take" /\ x.at = u + 1
                              ELSE x.pc = "fit" /\ x.at = 1
    PROVE  Knows(x, A, S, H, L, F)
<1>1. ASSUME NEW v \in Utterance, v <= u
      PROVE  Chosen(S[v], x.revision[v])
  <2>1. t.revision \in [Utterance -> Nat]
    BY DEF Task
  <2>2. CASE v = u
    BY <2>1, <2>2
  <2>3. CASE v # u
    <3>1. v < u
      BY <1>1, <2>3, UtteranceNumbers
    <3>2. x.revision[v] = t.revision[v]
      BY <2>1, <2>3
    <3>3. QED
      BY <3>1, <3>2
  <2>4. QED
    BY <2>2, <2>3
<1>2. CASE u < NUtterances
  <2>1. \A v \in Utterance : v < x.at => v <= u
    BY <1>2, UtteranceNumbers
  <2>2. QED
    BY <1>1, <1>2, <2>1 DEF Knows, KnowsSpoken, Speaks, Fits
<1>3. CASE ~(u < NUtterances)
  <2>1. \A v \in Utterance : v <= u /\ ~(v < 1)
    BY <1>3 DEF Utterance
  <2>2. QED
    BY <1>1, <1>3, <2>1 DEF Knows, KnowsFit, Speaks, Fits, Corrects, Runs
<1>4. QED
  BY <1>2, <1>3

\* The history of an utterance grows by one attempt: the one that is missing.
Missing(s, h, e) ==
    /\ \A q \in DOMAIN s : Unrecorded(s, h, q) =>
          e = [status |-> "completed", revision |-> q]
    /\ e.status = "completed" =>
          e.revision \in DOMAIN s /\ Unrecorded(s, h, e.revision)

LEMMA AttemptAppended ==
    ASSUME NEW a, NEW s, NEW h \in Seq(Attempt), SpokenOnDisk(a, s, h),
           NEW e \in Attempt, Missing(s, h, e), NEW g, g = Append(h, e)
    PROVE  /\ g \in Seq(Attempt) /\ SpokenOnDisk(a, s, g)
           /\ \A q \in DOMAIN s : ~Unrecorded(s, g, q)
<1>1. PICK n \in Nat : n = Len(h)
  OBVIOUS
<1>2. /\ g \in Seq(Attempt) /\ Len(g) = n + 1 /\ g[n + 1] = e
      /\ \A i \in 1 .. n : g[i] = h[i]
  BY <1>1
<1>3. ASSUME NEW r \in DOMAIN s, s[r].status = "completed"
      PROVE  /\ s[r].attempt \in 1 .. n + 1
             /\ g[s[r].attempt] = [status |-> "completed", revision |-> r]
  <2>1. PICK i \in 1 .. n + 1 : i = s[r].attempt
    BY <1>1, <1>3 DEF SpokenOnDisk
  <2>2. CASE i = n + 1
    <3>1. Unrecorded(s, h, r)
      BY <1>1, <1>3, <2>1, <2>2 DEF Unrecorded
    <3>2. g[i] = [status |-> "completed", revision |-> r]
      BY <1>2, <2>2, <3>1 DEF Missing
    <3>3. QED
      BY <2>1, <3>2
  <2>3. CASE i \in 1 .. n
    <3>1. h[i] = [status |-> "completed", revision |-> r]
      BY <1>1, <1>3, <2>1, <2>3 DEF SpokenOnDisk
    <3>2. g[i] = [status |-> "completed", revision |-> r]
      BY <1>2, <2>3, <3>1
    <3>3. QED
      BY <2>1, <3>2
  <2>4. i \in 1 .. n \/ i = n + 1
    OBVIOUS
  <2>5. QED
    BY <2>2, <2>3, <2>4
<1>4. \A q \in DOMAIN s : ~Unrecorded(s, g, q)
  <2>1. ASSUME NEW q \in DOMAIN s, s[q].status = "completed"
        PROVE  s[q].attempt # Len(g) + 1
    <3>1. PICK i \in 1 .. n + 1 : i = s[q].attempt
      BY <1>3, <2>1
    <3>2. i # Len(g) + 1
      BY <1>2
    <3>3. QED
      BY <3>1, <3>2
  <2>2. QED
    BY <2>1 DEF Unrecorded
<1>5. \A i \in 1 .. n + 1 : g[i].status = "completed" => g[i].revision \in DOMAIN s
  <2>1. \A i \in 1 .. n : h[i].status = "completed" => h[i].revision \in DOMAIN s
    BY <1>1 DEF SpokenOnDisk
  <2>2. QED
    BY <1>2, <2>1 DEF Missing
<1>6. ASSUME NEW i \in 1 .. n, e.status = "completed"
      PROVE  h[i] # e
  <2>1. PICK q \in DOMAIN s : q = e.revision /\ Unrecorded(s, h, q)
    BY <1>6 DEF Missing
  <2>2. e = [status |-> "completed", revision |-> q]
    BY <1>6, <2>1 DEF Attempt
  <2>3. QED
    BY <1>1, <2>1, <2>2 DEF SpokenOnDisk
<1>7. ASSUME NEW i \in 1 .. n + 1, NEW j \in 1 .. n + 1, g[i].status = "completed", g[i] = g[j]
      PROVE  i = j
  <2>1. CASE i \in 1 .. n /\ j \in 1 .. n
    BY <1>1, <1>2, <1>7, <2>1 DEF SpokenOnDisk
  <2>2. CASE i = n + 1 /\ j \in 1 .. n
    BY <1>2, <1>6, <1>7, <2>2
  <2>3. CASE j = n + 1 /\ i \in 1 .. n
    BY <1>2, <1>6, <1>7, <2>3
  <2>4. QED
    BY <2>1, <2>2, <2>3
<1>8. ASSUME NEW r \in DOMAIN s
      PROVE  /\ s[r].status = "completed" =>
                   /\ s[r].attempt \in 1 .. Len(g) + 1
                   /\ s[r].attempt <= Len(g) =>
                         g[s[r].attempt] = [status |-> "completed", revision |-> r]
             /\ Unrecorded(s, g, r) => FALSE
  BY <1>2, <1>3, <1>4
<1>9. SpokenOnDisk(a, s, g)
  <2>1. \A i \in 1 .. Len(g) : g[i].status = "completed" => g[i].revision \in DOMAIN s
    BY <1>2, <1>5
  <2>2. \A i, j \in 1 .. Len(g) : g[i].status = "completed" /\ g[i] = g[j] => i = j
    BY <1>2, <1>7
  <2>3. /\ DOMAIN a \subseteq Name
        /\ \A r \in DOMAIN s :
              /\ r \in Nat
              /\ s[r] = [status |-> s[r].status, take |-> s[r].take, attempt |-> s[r].attempt]
              /\ s[r].take \in Take
              /\ Raw(r) \in DOMAIN a /\ a[Raw(r)] = s[r].take.id
    BY DEF SpokenOnDisk
  <2>4. QED
    BY <1>8, <2>1, <2>2, <2>3 DEF SpokenOnDisk
<1>10. QED
  BY <1>2, <1>4, <1>9

LEMMA VerifiedAre ==
    ASSUME OnDisk, NEW u \in Utterance
    PROVE  Verified(u) = {r \in DOMAIN result[u] : result[u][r].status = "completed"}
<1>1. PICK a, s, h : a = audio[u] /\ s = result[u] /\ h = history[u]
  OBVIOUS
<1>2. SpokenOnDisk(a, s, h)
  BY <1>1 DEF OnDisk
<1>3. \A r \in DOMAIN s : a[Raw(r)] = s[r].take.id
  BY <1>2 DEF SpokenOnDisk
<1>4. QED
  BY <1>1, <1>3 DEF Verified

LEMMA NewestIsChosen ==
    ASSUME OnDisk, NEW k \in Nat, NumberedUpTo(k), NEW u \in Utterance, Verified(u) # {},
           NEW n, n = Newest(Verified(u))
    PROVE  n \in Nat /\ Chosen(result[u], n)
<1>1. PICK a, s, h : a = audio[u] /\ s = result[u] /\ h = history[u]
  OBVIOUS
<1>2. SpokenOnDisk(a, s, h)
  BY <1>1 DEF OnDisk
<1>3. PICK V : V = Verified(u)
  OBVIOUS
<1>4. V = {r \in DOMAIN s : s[r].status = "completed"}
  BY <1>1, <1>3, VerifiedAre
<1>5. ASSUME NEW r \in V
      PROVE  r \in Nat /\ r <= k
  <2>1. r \in Nat /\ Raw(r) \in DOMAIN a
    BY <1>2, <1>4 DEF SpokenOnDisk
  <2>2. Raw(r)[1] = "raw" /\ Raw(r)[2] = r
    BY DEF Raw
  <2>3. QED
    BY <1>1, <2>1, <2>2 DEF NumberedUpTo
<1>6. V \in SUBSET Nat /\ V # {} /\ \A r \in V : r <= k
  BY <1>3, <1>5
<1>7. n \in V /\ \A r \in V : r <= n
  BY <1>3, <1>6, NewestIsGreatest
<1>8. QED
  BY <1>1, <1>4, <1>5, <1>7 DEF Chosen

LEMMA HistoryChanged ==
    ASSUME Core, NEW u \in Utterance, NEW g \in Seq(Attempt),
           history' = [history EXCEPT ![u] = g],
           UNCHANGED << audio, result, ledger, fits, takes >>,
           SpokenOnDisk(audio[u], result[u], g),
           NEW x \in Task, task' = x, Knows(x, audio, result, history', ledger, fits)
    PROVE  Core'
<1>1. /\ history' \in [Utterance -> Seq(Attempt)] /\ history'[u] = g
      /\ \A c \in Utterance : c # u => history'[c] = history[c]
      /\ audio' = audio /\ result' = result /\ ledger' = ledger /\ fits' = fits /\ takes' = takes
  BY DEF Core, SpeechTypeOK
<1>2. FittedOnDisk(result[u], ledger[u], fits[u])
  BY DEF Core, OnDisk
<1>3. OnDisk'
  BY <1>1, <1>2, UtteranceChanged DEF Core
<1>4. Knows(x, audio', result', history', ledger', fits')
  BY <1>1
<1>5. /\ audio' = [v \in Utterance |-> audio'[v]] /\ result' = [v \in Utterance |-> result'[v]]
      /\ ledger' = [v \in Utterance |-> ledger'[v]] /\ fits' = [v \in Utterance |-> fits'[v]]
      /\ takes' \in Nat
  BY <1>1 DEF Core, SpeechTypeOK
<1>6. QED
  BY <1>1, <1>3, <1>4, <1>5, CoreAgain

LEMMA RecordAppended ==
    ASSUME NEW a, NEW s, NEW h \in Seq(Attempt), SpokenOnDisk(a, s, h),
           NEW r \in DOMAIN s, Unrecorded(s, h, r),
           NEW e, e = [status |-> "completed", revision |-> r],
           NEW g, g = Append(h, e)
    PROVE  /\ g \in Seq(Attempt) /\ SpokenOnDisk(a, s, g)
           /\ \A q \in DOMAIN s : ~Unrecorded(s, g, q)
<1>1. ASSUME NEW q \in DOMAIN s, Unrecorded(s, h, q)
      PROVE  q = r
  <2>1. q \in Nat /\ r \in Nat /\ q <= r /\ r <= q
    BY <1>1 DEF SpokenOnDisk, Unrecorded
  <2>2. QED
    BY <2>1
<1>2. \A q \in DOMAIN s : Unrecorded(s, h, q) => e = [status |-> "completed", revision |-> q]
  BY <1>1
<1>3. r \in Nat
  BY DEF SpokenOnDisk
<1>4. e \in Attempt /\ e.status = "completed" /\ e.revision = r
  BY <1>3 DEF Attempt
<1>5. e.revision \in DOMAIN s /\ Unrecorded(s, h, e.revision)
  BY <1>4
<1>6. QED
  <2>1. Missing(s, h, e)
    BY <1>2, <1>5 DEF Missing
  <2>2. QED
    BY <1>4, <2>1, AttemptAppended

LEMMA ReconciledIs ==
    ASSUME NEW u \in Utterance, NEW a, NEW s, NEW h \in Seq(Attempt),
           s = result[u], h = history[u], SpokenOnDisk(a, s, h),
           NEW n \in Nat, Chosen(s, n), NEW g, g = Reconciled(u, n)
    PROVE  /\ Consistent(u, n)
           /\ g \in Seq(Attempt) /\ SpokenOnDisk(a, s, g)
           /\ \A q \in DOMAIN s : ~Unrecorded(s, g, q)
<1>1. n \in DOMAIN s /\ s[n].status = "completed" /\ s[n].attempt \in 1 .. Len(h) + 1
  BY DEF Chosen, SpokenOnDisk
<1>2. Consistent(u, n)
  BY <1>1 DEF Consistent
<1>3. CASE s[n].attempt = Len(h) + 1
  <2>1. PICK e : e = [status |-> "completed", revision |-> n]
    OBVIOUS
  <2>2. g = Append(h, e)
    BY <1>3, <2>1 DEF Reconciled
  <2>3. n \in DOMAIN s /\ Unrecorded(s, h, n)
    BY <1>1, <1>3 DEF Unrecorded
  <2>4. QED
    BY <1>2, <2>1, <2>2, <2>3, RecordAppended
<1>4. CASE s[n].attempt # Len(h) + 1
  <2>1. g = h
    BY <1>4 DEF Reconciled
  <2>2. ASSUME NEW q \in DOMAIN s, Unrecorded(s, h, q)
        PROVE  FALSE
    <3>1. q \in Nat /\ n <= q /\ n \in Nat
      BY <1>1, <2>2 DEF SpokenOnDisk
    <3>2. q <= n
      BY <2>2 DEF Chosen, Unrecorded
    <3>3. q = n
      BY <3>1, <3>2
    <3>4. QED
      BY <1>4, <2>2, <3>3 DEF Unrecorded
  <2>3. QED
    BY <1>2, <2>1, <2>2
<1>5. QED
  BY <1>3, <1>4

LEMMA GotoTask ==
    ASSUME task \in Task, NEW pc \in Phase, NEW x, x = [task EXCEPT !.pc = pc]
    PROVE  /\ x \in Task /\ x.pc = pc /\ x.at = task.at /\ x.step = task.step
           /\ x.take = task.take /\ x.candidate = task.candidate
           /\ x.revision = task.revision /\ x.fit = task.fit
  BY DEF Task

LEMMA TakeSpokenStep ==
    ASSUME Core, NEW k \in Nat, NumberedUpTo(k), TakeSpoken
    PROVE  Core'
<1>1. PICK t, u, r, a, s, h :
         /\ t \in Task /\ u \in Utterance /\ r \in Nat
         /\ t = task /\ u = t.at /\ u = u0
         /\ a = audio[u] /\ s = result[u] /\ h = history[u]
         /\ h \in Seq(Attempt) /\ SpokenOnDisk(a, s, h)
         /\ Knows(t, audio, result, history, ledger, fits)
  BY InHand
<1> t \in Task /\ u \in Utterance /\ r \in Nat
  BY <1>1
<1>2. PICK n : n = Newest(Verified(u))
  OBVIOUS
<1>3. Verified(u) # {} /\ t.pc = "take"
  BY <1>1 DEF TakeSpoken, At
<1>4. n \in Nat /\ Chosen(s, n)
  BY <1>1, <1>2, <1>3, NewestIsChosen DEF Core
<1>5. PICK g : g = Reconciled(u, n)
  OBVIOUS
<1>6. /\ Consistent(u, n) /\ g \in Seq(Attempt) /\ SpokenOnDisk(a, s, g)
      /\ \A q \in DOMAIN s : ~Unrecorded(s, g, q)
  BY <1>1, <1>4, <1>5, ReconciledIs
<1>7. /\ history' = [history EXCEPT ![u] = g]
      /\ IF t.forced THEN Goto("speak") ELSE task' = Spoke(n)
      /\ UNCHANGED << audio, result, fitFiles, takes >>
  BY <1>1, <1>2, <1>5, <1>6 DEF TakeSpoken
<1>8. \A v \in Utterance : v < u => Chosen(result[v], t.revision[v])
  BY <1>1, <1>3 DEF Knows, Speaks
<1>9. UNCHANGED << audio, result, ledger, fits, takes >>
  BY <1>7 DEF fitFiles
<1>10. history'[u] = g
  BY <1>7 DEF Core, SpeechTypeOK
<1>11. CASE t.forced
  <2>1. PICK x : x = [task EXCEPT !.pc = "speak"]
    OBVIOUS
  <2>2. x \in Task /\ x.pc = "speak" /\ x.at = u /\ x.revision = t.revision /\ task' = x
    BY <1>1, <1>7, <1>11, <2>1 DEF Goto, Task, Phase
  <2>3. Knows(x, audio, result, history', ledger, fits)
    BY <1>1, <1>6, <1>8, <1>10, <2>2 DEF Knows, KnowsSpoken, Speaks, Fits
  <2>4. QED
    BY <1>1, <1>6, <1>7, <1>9, <2>2, <2>3, HistoryChanged
<1>12. CASE ~t.forced
  <2>1. PICK x : x = Spoke(n)
    OBVIOUS
  <2>2. /\ x \in Task /\ task' = x
        /\ x.revision = [t.revision EXCEPT ![u] = n]
        /\ IF u < NUtterances THEN x.pc = "take" /\ x.at = u + 1
                              ELSE x.pc = "fit" /\ x.at = 1
    BY <1>1, <1>4, <1>7, <1>12, <2>1, SpokeTask
  <2>3. PICK A, S, H, L, F : A = audio /\ S = result /\ H = history' /\ L = ledger /\ F = fits
    OBVIOUS
  <2>4. (\A v \in Utterance : v < u => Chosen(S[v], t.revision[v])) /\ Chosen(S[u], n)
    BY <1>1, <1>4, <1>8, <2>3
  <2>5. Knows(x, A, S, H, L, F)
    BY <1>1, <1>4, <2>2, <2>4, SpokeKnows
  <2>6. Knows(x, audio, result, history', ledger, fits)
    BY <2>3, <2>5
  <2>7. QED
    BY <1>1, <1>6, <1>7, <1>9, <2>2, <2>6, HistoryChanged
<1>13. QED
  BY <1>11, <1>12

LEMMA TakeUnspokenStep ==
    ASSUME Core, TakeUnspoken
    PROVE  Core'
<1>1. PICK t, u, r, a, s, h :
         /\ t \in Task /\ u \in Utterance /\ r \in Nat
         /\ t = task /\ u = t.at /\ u = u0
         /\ a = audio[u] /\ s = result[u] /\ h = history[u]
         /\ Knows(t, audio, result, history, ledger, fits)
  BY InHand
<1> t \in Task /\ u \in Utterance /\ r \in Nat
  BY <1>1
<1>2. Verified(u) = {} /\ t.pc = "take"
  BY <1>1 DEF TakeUnspoken, At
<1>3. \A q \in DOMAIN s : ~Unrecorded(s, h, q)
  BY <1>1, <1>2, VerifiedAre DEF Core, Unrecorded
<1>4. PICK x : x = [task EXCEPT !.pc = "speak"]
  OBVIOUS
<1>5. x \in Task /\ x.pc = "speak" /\ x.at = u /\ x.revision = t.revision /\ task' = x
  BY <1>1, <1>4 DEF TakeUnspoken, Goto, Task, Phase
<1>6. Knows(x, audio, result, history, ledger, fits)
  BY <1>1, <1>2, <1>3, <1>5 DEF Knows, KnowsSpoken, Speaks, Fits
<1>7. UNCHANGED << speechFiles, fitFiles >> /\ takes' = takes
  BY DEF TakeUnspoken
<1>8. QED
  BY <1>5, <1>6, <1>7, DiskUntouched DEF Core, SpeechTypeOK

\* The number taken for a new take is above that of every take there is.
LEMMA RevisionIsFree ==
    ASSUME OnDisk, NEW k \in Nat, NumberedUpTo(k), NEW u \in Utterance,
           NEW r, r = Revision(u)
    PROVE  /\ r \in Nat /\ r <= k + 1
           /\ \A n \in Nat : Raw(n) \in DOMAIN audio[u] => n < r
<1>1. PICK a : a = audio[u]
  OBVIOUS
<1>2. DOMAIN a \subseteq Name
  BY <1>1 DEF OnDisk, SpokenOnDisk
<1>3. PICK S : S = {name[2] : name \in {m \in DOMAIN a : m[1] = "raw"}}
  OBVIOUS
<1>4. \A n \in S : n \in Nat /\ n <= k
  BY <1>1, <1>2, <1>3 DEF Name, NumberedUpTo
<1>5. \A n \in Nat : Raw(n) \in DOMAIN a => n \in S
  <2>1. ASSUME NEW n \in Nat, Raw(n) \in DOMAIN a
        PROVE  n \in S
    <3>1. Raw(n)[1] = "raw" /\ Raw(n)[2] = n
      BY DEF Raw
    <3>2. QED
      BY <1>3, <2>1, <3>1
  <2>2. QED
    BY <2>1
<1>6. r = NextFree(S)
  BY <1>1, <1>3 DEF Revision
<1>7. CASE S = {}
  BY <1>1, <1>5, <1>6, <1>7 DEF NextFree
<1>8. CASE S # {}
  <2>1. S \in SUBSET Nat /\ \A n \in S : n <= k
    BY <1>4
  <2>2. PICK m : m = Newest(S)
    OBVIOUS
  <2>3. m \in S /\ \A n \in S : n <= m
    BY <1>8, <2>1, <2>2, NewestIsGreatest
  <2>4. r = m + 1
    BY <1>6, <1>8, <2>2 DEF NextFree
  <2>5. QED
    BY <1>1, <1>4, <1>5, <2>3, <2>4
<1>9. QED
  BY <1>7, <1>8

LEMMA SpeakStep ==
    ASSUME Core, NEW k \in Nat, NumberedUpTo(k), Speak
    PROVE  /\ Core' /\ NumberedUpTo(k + 1)'
           /\ \A u \in Utterance : \A n \in DOMAIN audio[u] : audio'[u][n] = audio[u][n]
<1>1. PICK t, u, a, s, h, l, f :
         /\ t \in Task /\ u \in Utterance
         /\ t = task /\ u = t.at /\ u = u0
         /\ a = audio[u] /\ s = result[u] /\ h = history[u] /\ l = ledger[u] /\ f = fits[u]
         /\ SpokenOnDisk(a, s, h) /\ FittedOnDisk(s, l, f)
         /\ Knows(t, audio, result, history, ledger, fits)
  BY InHand
<1> t \in Task /\ u \in Utterance
  BY <1>1
<1>2. PICK r : r = Revision(u)
  OBVIOUS
<1>3. /\ r \in Nat /\ r <= k + 1
      /\ \A n \in Nat : Raw(n) \in DOMAIN a => n < r
  BY <1>1, <1>2, RevisionIsFree DEF Core
<1>4. PICK i \in Nat : i = takes + 1
  BY DEF Core, SpeechTypeOK
<1>5. PICK d \in Deviation :
         /\ audio' = [audio EXCEPT ![u] = With(a, Raw(r), i)]
         /\ takes' = i
         /\ task' = [task EXCEPT !.pc = "prove", !.revision[u] = r, !.take = [id |-> i, off |-> d]]
         /\ UNCHANGED << setup, result, history, fitFiles, output, trouble >>
         /\ At("speak")
  BY <1>1, <1>2, <1>4 DEF Speak
<1>6. PICK b : b = With(a, Raw(r), i)
  OBVIOUS
<1>7. /\ DOMAIN b = DOMAIN a \cup {Raw(r)} /\ b[Raw(r)] = i
      /\ \A n \in DOMAIN a : n # Raw(r) => b[n] = a[n]
  BY <1>6 DEF With
<1>8. Raw(r) \notin DOMAIN a /\ Raw(r) \in Name /\ Raw(r)[1] = "raw" /\ Raw(r)[2] = r
  BY <1>3 DEF Raw, Name
<1>9. /\ audio' = [v \in Utterance |-> audio'[v]] /\ audio'[u] = b
      /\ \A c \in Utterance : c # u => audio'[c] = audio[c]
      /\ result' = result /\ history' = history /\ ledger' = ledger /\ fits' = fits
  BY <1>5, <1>6 DEF Core, SpeechTypeOK, fitFiles
<1>10. SpokenOnDisk(b, s, h)
  <2>1. \A q \in DOMAIN s : Raw(q) \in DOMAIN b /\ b[Raw(q)] = a[Raw(q)]
    BY <1>1, <1>7, <1>8 DEF SpokenOnDisk
  <2>2. DOMAIN b \subseteq Name
    BY <1>1, <1>7, <1>8 DEF SpokenOnDisk
  <2>3. QED
    BY <1>1, <2>1, <2>2 DEF SpokenOnDisk
<1>11. OnDisk'
  BY <1>1, <1>9, <1>10, UtteranceChanged DEF Core
<1>12. PICK x : x = task'
  OBVIOUS
<1>13. /\ x \in Task /\ x.pc = "prove" /\ x.at = u /\ x.revision = [t.revision EXCEPT ![u] = r]
       /\ x.take.id = i
  <2>1. PICK revision \in [Utterance -> Nat] : revision = [t.revision EXCEPT ![u] = r]
    BY <1>3 DEF Task
  <2>2. PICK take \in Take : take = [id |-> i, off |-> d]
    BY DEF Take
  <2>3. x = [t EXCEPT !.pc = "prove", !.revision = revision, !.take = take]
    BY <1>1, <1>5, <1>12, <2>1, <2>2
  <2>4. x \in Task /\ x.pc = "prove" /\ x.at = u /\ x.revision = revision /\ x.take = take
    BY <1>1, <2>3 DEF Task, Phase
  <2>5. QED
    BY <2>1, <2>2, <2>4
<1>14. x.revision[u] = r /\ \A v \in Utterance : v < u => x.revision[v] = t.revision[v]
  BY <1>13, UtteranceNumbers DEF Task
<1>15. KnowsSpoken(x, b, s, h)
  <2>1. \A q \in DOMAIN s : q < r
    BY <1>1, <1>3 DEF SpokenOnDisk
  <2>2. \A q \in DOMAIN s : ~Unrecorded(s, h, q)
    BY <1>1, <1>5 DEF Knows, KnowsSpoken, Speaks, At
  <2>3. QED
    BY <1>7, <1>13, <1>14, <2>1, <2>2 DEF KnowsSpoken
<1>16. \A v \in Utterance : v < u => Chosen(result[v], t.revision[v])
  BY <1>1, <1>5 DEF Knows, Speaks, At
<1>17. Knows(x, audio', result', history', ledger', fits')
  BY <1>1, <1>9, <1>13, <1>14, <1>15, <1>16 DEF Knows, Speaks, Fits
<1>18. /\ result' = [v \in Utterance |-> result'[v]]
       /\ history' \in [Utterance -> Seq(Attempt)]
       /\ ledger' = [v \in Utterance |-> ledger'[v]] /\ fits' = [v \in Utterance |-> fits'[v]]
       /\ takes' \in Nat
  BY <1>5, <1>9 DEF Core, SpeechTypeOK
<1>19. Core'
  BY <1>9, <1>11, <1>12, <1>13, <1>17, <1>18, CoreAgain
<1>20. NumberedUpTo(k + 1)'
  <2>1. ASSUME NEW v \in Utterance, NEW n \in DOMAIN audio'[v], n[1] = "raw"
        PROVE  n[2] <= k + 1
    <3>1. CASE n \in DOMAIN audio[v]
      <4>1. n[2] <= k /\ n \in Name
        BY <2>1, <3>1 DEF NumberedUpTo, Core, OnDisk, SpokenOnDisk
      <4>2. QED
        BY <4>1 DEF Name
    <3>2. CASE n \notin DOMAIN audio[v]
      <4>1. n = Raw(r)
        BY <1>1, <1>7, <1>9, <2>1, <3>2
      <4>2. QED
        BY <1>3, <1>8, <4>1
    <3>3. QED
      BY <3>1, <3>2
  <2>2. PICK j : j = k + 1
    OBVIOUS
  <2>3. NumberedUpTo(j)'
    BY <2>1, <2>2 DEF NumberedUpTo
  <2>4. QED
    BY <2>2, <2>3
<1>21. \A v \in Utterance : \A n \in DOMAIN audio[v] : audio'[v][n] = audio[v][n]
  BY <1>1, <1>7, <1>8, <1>9
<1>22. QED
  BY <1>19, <1>20, <1>21

LEMMA SpeakFailsStep ==
    ASSUME Core, NEW k \in Nat, NumberedUpTo(k), SpeakFails
    PROVE  Core'
<1>1. PICK t, u, r, a, s, h :
         /\ t \in Task /\ u \in Utterance /\ r \in Nat
         /\ t = task /\ u = t.at /\ u = u0
         /\ a = audio[u] /\ s = result[u] /\ h = history[u]
         /\ h \in Seq(Attempt) /\ SpokenOnDisk(a, s, h)
         /\ Knows(t, audio, result, history, ledger, fits)
  BY InHand
<1> t \in Task /\ u \in Utterance /\ r \in Nat
  BY <1>1
<1>2. PICK e : e = [status |-> "failed", revision |-> Revision(u)]
  OBVIOUS
<1>3. PICK g : g = Append(h, e)
  OBVIOUS
<1>4. /\ history' = [history EXCEPT ![u] = g] /\ task' = Idle
      /\ UNCHANGED << audio, result, fitFiles, takes >> /\ t.pc = "speak"
  BY <1>1, <1>2, <1>3 DEF SpeakFails, At
<1>5. \A q \in DOMAIN s : ~Unrecorded(s, h, q)
  BY <1>1, <1>4 DEF Knows, KnowsSpoken, Speaks
<1>6. e \in Attempt /\ e.status # "completed"
  BY <1>1, <1>2, RevisionIsFree DEF Core, Attempt
<1>7. g \in Seq(Attempt) /\ SpokenOnDisk(a, s, g)
  <2>1. Missing(s, h, e)
    BY <1>5, <1>6 DEF Missing
  <2>2. QED
    BY <1>1, <1>3, <1>6, <2>1, AttemptAppended
<1>8. Knows(Idle, audio, result, history', ledger, fits)
  BY IdleTask DEF Knows, Speaks, Fits
<1>9. UNCHANGED << audio, result, ledger, fits, takes >>
  BY <1>4 DEF fitFiles
<1>10. QED
  BY <1>1, <1>4, <1>7, <1>8, <1>9, IdleTask, HistoryChanged

LEMMA ProveSpokenStep ==
    ASSUME Core, ProveSpoken
    PROVE  Core'
<1>1. PICK t, u, r, a, s, h, l, f :
         /\ t \in Task /\ u \in Utterance /\ r \in Nat
         /\ t = task /\ u = t.at /\ u = u0 /\ r = t.revision[u] /\ r = r0
         /\ a = audio[u] /\ s = result[u] /\ h = history[u] /\ l = ledger[u] /\ f = fits[u]
         /\ h \in Seq(Attempt) /\ SpokenOnDisk(a, s, h) /\ FittedOnDisk(s, l, f)
         /\ Knows(t, audio, result, history, ledger, fits)
  BY InHand
<1> t \in Task /\ u \in Utterance /\ r \in Nat
  BY <1>1
<1>2. PICK k \in Nat : k = Len(h)
  BY <1>1
<1>3. PICK e : e = [status |-> "completed", take |-> t.take, attempt |-> k + 1]
  OBVIOUS
<1>4. PICK z : z = With(s, r, e)
  OBVIOUS
<1>5. /\ DOMAIN z = DOMAIN s \cup {r} /\ z[r] = e
      /\ \A q \in DOMAIN s : q # r => z[q] = s[q]
  BY <1>4 DEF With
<1>6. /\ result' = [result EXCEPT ![u] = z] /\ Goto("record")
      /\ UNCHANGED << audio, history, fitFiles, takes >> /\ t.pc = "prove"
  BY <1>1, <1>2, <1>3, <1>4 DEF ProveSpoken, At
<1>7. /\ Raw(r) \in DOMAIN a /\ a[Raw(r)] = t.take.id
      /\ \A q \in DOMAIN s : q < r /\ ~Unrecorded(s, h, q)
      /\ \A v \in Utterance : v < u => Chosen(result[v], t.revision[v])
  BY <1>1, <1>6 DEF Knows, KnowsSpoken, Speaks
<1>8. r \notin DOMAIN s
  BY <1>7
<1>9. e.status = "completed" /\ e.take = t.take /\ e.attempt = k + 1
  BY <1>3
<1>10. t.take \in Take
  BY DEF Task
<1>11. ASSUME NEW i \in 1 .. Len(h)
       PROVE  h[i] # [status |-> "completed", revision |-> r]
  <2>1. h[i].status = "completed" => h[i].revision \in DOMAIN s
    BY <1>1 DEF SpokenOnDisk
  <2>2. QED
    BY <1>8, <2>1
<1>12. SpokenOnDisk(a, z, h)
  <2>1. ASSUME NEW q \in DOMAIN z
        PROVE  /\ q \in Nat
               /\ z[q] = [status |-> z[q].status, take |-> z[q].take, attempt |-> z[q].attempt]
               /\ z[q].take \in Take
               /\ Raw(q) \in DOMAIN a /\ a[Raw(q)] = z[q].take.id
               /\ z[q].status = "completed" =>
                     /\ z[q].attempt \in 1 .. Len(h) + 1
                     /\ z[q].attempt <= Len(h) =>
                           h[z[q].attempt] = [status |-> "completed", revision |-> q]
               /\ Unrecorded(z, h, q) => q = r
    <3>1. CASE q = r
      <4>1. k + 1 \in 1 .. Len(h) + 1 /\ ~(k + 1 <= Len(h))
        BY <1>2
      <4>2. QED
        BY <1>3, <1>5, <1>7, <1>9, <1>10, <3>1, <4>1
    <3>2. CASE q # r
      <4>1. q \in DOMAIN s /\ z[q] = s[q]
        BY <1>5, <3>2
      <4>2. ~Unrecorded(z, h, q)
        BY <1>7, <4>1 DEF Unrecorded
      <4>3. QED
        BY <1>1, <4>1, <4>2 DEF SpokenOnDisk
    <3>3. QED
      BY <3>1, <3>2
  <2>2. \A q \in DOMAIN z : q <= r
    <3>1. \A q \in DOMAIN s : q \in Nat
      BY <1>1 DEF SpokenOnDisk
    <3>2. \A q \in DOMAIN s : q <= r
      BY <1>7, <3>1
    <3>3. QED
      BY <1>5, <3>2
  <2>3. \A i \in 1 .. Len(h) : h[i].status = "completed" => h[i].revision \in DOMAIN z
    BY <1>1, <1>5 DEF SpokenOnDisk
  <2>4. /\ DOMAIN a \subseteq Name
        /\ \A i, j \in 1 .. Len(h) : h[i].status = "completed" /\ h[i] = h[j] => i = j
    BY <1>1 DEF SpokenOnDisk
  <2>5. QED
    BY <1>11, <2>1, <2>2, <2>3, <2>4 DEF SpokenOnDisk
<1>13. FittedOnDisk(z, l, f)
  <2>1. \A q \in DOMAIN f : q \in DOMAIN s /\ z[q] = s[q]
    BY <1>1, <1>5, <1>8 DEF FittedOnDisk
  <2>2. DOMAIN l \subseteq DOMAIN z
    BY <1>1, <1>5 DEF FittedOnDisk
  <2>3. QED
    BY <1>1, <2>1, <2>2 DEF FittedOnDisk
<1>14. /\ result' = [v \in Utterance |-> result'[v]] /\ result'[u] = z
       /\ \A c \in Utterance : c # u => result'[c] = result[c]
       /\ audio' = audio /\ history' = history /\ ledger' = ledger /\ fits' = fits
       /\ takes' = takes
  BY <1>6 DEF Core, SpeechTypeOK, fitFiles
<1>15. OnDisk'
  BY <1>1, <1>12, <1>13, <1>14, UtteranceChanged DEF Core
<1>16. PICK x : x = [task EXCEPT !.pc = "record"]
  OBVIOUS
<1>17. x \in Task /\ x.pc = "record" /\ x.at = u /\ x.revision = t.revision /\ task' = x
  BY <1>1, <1>6, <1>16 DEF Goto, Task, Phase
<1>18. KnowsSpoken(x, a, z, h)
  BY <1>1, <1>2, <1>5, <1>9, <1>17 DEF KnowsSpoken, Unrecorded
<1>19. \A v \in Utterance : v < u => Chosen(result'[v], x.revision[v])
  BY <1>7, <1>14, <1>17, UtteranceNumbers
<1>20. Knows(x, audio', result', history', ledger', fits')
  BY <1>1, <1>14, <1>17, <1>18, <1>19 DEF Knows, Speaks, Fits
<1>21. /\ audio' = [v \in Utterance |-> audio'[v]]
       /\ history' \in [Utterance -> Seq(Attempt)]
       /\ ledger' = [v \in Utterance |-> ledger'[v]] /\ fits' = [v \in Utterance |-> fits'[v]]
       /\ takes' \in Nat
  BY <1>14 DEF Core, SpeechTypeOK
<1>22. QED
  BY <1>14, <1>15, <1>17, <1>20, <1>21, CoreAgain

LEMMA RecordSpokenStep ==
    ASSUME Core, RecordSpoken
    PROVE  Core'
<1>1. PICK t, u, r, a, s, h :
         /\ t \in Task /\ u \in Utterance /\ r \in Nat
         /\ t = task /\ u = t.at /\ u = u0 /\ r = t.revision[u] /\ r = r0
         /\ a = audio[u] /\ s = result[u] /\ h = history[u]
         /\ h \in Seq(Attempt) /\ SpokenOnDisk(a, s, h)
         /\ Knows(t, audio, result, history, ledger, fits)
  BY InHand
<1> t \in Task /\ u \in Utterance /\ r \in Nat
  BY <1>1
<1>2. PICK e : e = [status |-> "completed", revision |-> r]
  OBVIOUS
<1>3. PICK g : g = Append(h, e)
  OBVIOUS
<1>4. /\ history' = [history EXCEPT ![u] = g] /\ task' = Spoke(r)
      /\ UNCHANGED << audio, result, fitFiles, takes >> /\ t.pc = "record"
  BY <1>1, <1>2, <1>3 DEF RecordSpoken, At
<1>5. /\ r \in DOMAIN s /\ Unrecorded(s, h, r)
      /\ \A v \in Utterance : v < u => Chosen(result[v], t.revision[v])
  BY <1>1, <1>4 DEF Knows, KnowsSpoken, Speaks
<1>6. \A q \in DOMAIN s : s[q].status = "completed" => q <= r
  BY <1>1, <1>5 DEF SpokenOnDisk
<1>7. Chosen(s, r)
  BY <1>5, <1>6 DEF Chosen, Unrecorded
<1>8. g \in Seq(Attempt) /\ SpokenOnDisk(a, s, g)
  BY <1>1, <1>2, <1>3, <1>5, RecordAppended
<1>9. PICK x : x = Spoke(r)
  OBVIOUS
<1>10. /\ x \in Task /\ task' = x
       /\ x.revision = [t.revision EXCEPT ![u] = r]
       /\ IF u < NUtterances THEN x.pc = "take" /\ x.at = u + 1
                             ELSE x.pc = "fit" /\ x.at = 1
  BY <1>1, <1>4, <1>9, SpokeTask
<1>11. PICK A, S, H, L, F : A = audio /\ S = result /\ H = history' /\ L = ledger /\ F = fits
  OBVIOUS
<1>12. (\A v \in Utterance : v < u => Chosen(S[v], t.revision[v])) /\ Chosen(S[u], r)
  BY <1>1, <1>5, <1>7, <1>11
<1>13. Knows(x, A, S, H, L, F)
  BY <1>1, <1>10, <1>12, SpokeKnows
<1>14. Knows(x, audio, result, history', ledger, fits)
  BY <1>11, <1>13
<1>15. UNCHANGED << audio, result, ledger, fits, takes >>
  BY <1>4 DEF fitFiles
<1>16. QED
  BY <1>1, <1>4, <1>8, <1>10, <1>14, <1>15, HistoryChanged

-----------------------------------------------------------------------------
(* Fitting.                                                                 *)

LEMMA FittedTask ==
    ASSUME task \in Task, NEW u \in Utterance, u = task.at, NEW n \in Nat,
           NEW x, x = Fitted(n)
    PROVE  /\ x \in Task /\ x.revision = task.revision
           /\ x.fit = [task.fit EXCEPT ![u] = n]
           /\ IF u < NUtterances THEN x.pc = "fit" /\ x.at = u + 1
                                 ELSE x.pc = "deliver"
<1> DEFINE fit == [task.fit EXCEPT ![u] = n]
           t == [task EXCEPT !.fit = fit]
<1>1. fit \in [Utterance -> Nat]
  BY DEF Task
<1> HIDE DEF fit
<1>2. t \in Task /\ t.fit = fit /\ t.revision = task.revision
  BY <1>1 DEF Task
<1>3. x = IF u < NUtterances THEN [t EXCEPT !.pc = "fit", !.at = u + 1]
                             ELSE [t EXCEPT !.pc = "deliver"]
  BY DEF Fitted, u0, fit
<1> HIDE DEF t
<1>4. CASE u < NUtterances
  <2>1. PICK v \in Utterance : v = u + 1
    BY <1>4, UtteranceNumbers
  <2>2. x = [t EXCEPT !.pc = "fit", !.at = v]
    BY <1>3, <1>4, <2>1
  <2>3. x \in Task /\ x.pc = "fit" /\ x.at = v /\ x.revision = task.revision /\ x.fit = fit
    BY <1>2, <2>2 DEF Task, Phase
  <2>4. QED
    BY <1>4, <2>1, <2>3 DEF fit
<1>5. CASE ~(u < NUtterances)
  <2>1. x = [t EXCEPT !.pc = "deliver"]
    BY <1>3, <1>5
  <2>2. x \in Task /\ x.pc = "deliver" /\ x.revision = task.revision /\ x.fit = fit
    BY <1>2, <2>1 DEF Task, Phase
  <2>3. QED
    BY <1>5, <2>2 DEF fit
<1>6. QED
  BY <1>4, <1>5

LEMMA FittedKnows ==
    ASSUME NEW t \in Task, NEW x \in Task, NEW u \in Utterance, u = t.at, NEW n \in Nat,
           NEW A, NEW S, NEW H, NEW L, NEW F,
           \A v \in Utterance : Chosen(S[v], t.revision[v]),
           \A v \in Utterance : v < u => Judged(A[v], F[v], t.revision[v], t.fit[v]),
           Judged(A[u], F[u], t.revision[u], n),
           x.revision = t.revision, x.fit = [t.fit EXCEPT ![u] = n],
           IF u < NUtterances THEN x.pc = "fit" /\ x.at = u + 1
                              ELSE x.pc = "deliver"
    PROVE  Knows(x, A, S, H, L, F)
<1>1. ASSUME NEW v \in Utterance, v <= u
      PROVE  Judged(A[v], F[v], x.revision[v], x.fit[v])
  <2>1. t.fit \in [Utterance -> Nat]
    BY DEF Task
  <2>2. CASE v = u
    BY <2>1, <2>2
  <2>3. CASE v # u
    <3>1. v < u
      BY <1>1, <2>3, UtteranceNumbers
    <3>2. x.fit[v] = t.fit[v]
      BY <2>1, <2>3
    <3>3. QED
      BY <3>1, <3>2
  <2>4. QED
    BY <2>2, <2>3
<1>2. \A v \in Utterance : Chosen(S[v], x.revision[v])
  OBVIOUS
<1>3. CASE u < NUtterances
  <2>1. \A v \in Utterance : v < x.at => v <= u
    BY <1>3, UtteranceNumbers
  <2>2. QED
    BY <1>1, <1>2, <1>3, <2>1 DEF Knows, KnowsFit, Speaks, Fits, Corrects, Runs
<1>4. CASE ~(u < NUtterances)
  <2>1. \A v \in Utterance : v <= u
    BY <1>4 DEF Utterance
  <2>2. QED
    BY <1>1, <1>2, <1>4, <2>1 DEF Knows, Speaks, Fits
<1>5. QED
  BY <1>3, <1>4

\* A step of the fit of one utterance, which touches nothing of the others.
LEMMA FitStep ==
    ASSUME Core, NEW t \in Task, t = task, NEW u \in Utterance, u = t.at, t.pc \in Fits,
           NEW b, NEW k, NEW g,
           audio' = [audio EXCEPT ![u] = b], ledger' = [ledger EXCEPT ![u] = k],
           fits' = [fits EXCEPT ![u] = g], result' = result, history' = history, takes' \in Nat,
           SpokenOnDisk(b, result[u], history[u]), FittedOnDisk(result[u], k, g),
           NEW x \in Task, x = task', x.pc \in Fits, x.at = u,
           x.revision = t.revision, x.fit = t.fit,
           KnowsFit(x, b, result[u], k, g)
    PROVE  Core'
<1>1. /\ audio' = [v \in Utterance |-> audio'[v]] /\ audio'[u] = b
      /\ ledger' = [v \in Utterance |-> ledger'[v]] /\ ledger'[u] = k
      /\ fits' = [v \in Utterance |-> fits'[v]] /\ fits'[u] = g
      /\ \A c \in Utterance : c # u =>
            audio'[c] = audio[c] /\ ledger'[c] = ledger[c] /\ fits'[c] = fits[c]
  BY DEF Core, SpeechTypeOK
<1>2. /\ result' = [v \in Utterance |-> result'[v]] /\ history' \in [Utterance -> Seq(Attempt)]
  BY DEF Core, SpeechTypeOK
<1>3. OnDisk'
  BY <1>1, UtteranceChanged DEF Core
<1>4. PICK A, S, L, F : A = audio' /\ S = result' /\ L = ledger' /\ F = fits'
  OBVIOUS
<1>5. Knows(t, audio, result, history, ledger, fits)
  BY DEF Core, InMemory
<1>6. \A v \in Utterance : Chosen(S[v], x.revision[v])
  BY <1>4, <1>5 DEF Knows
<1>7. ASSUME NEW v \in Utterance, v < u
      PROVE  Judged(A[v], F[v], x.revision[v], x.fit[v])
  <2>1. v # u /\ Judged(audio[v], fits[v], t.revision[v], t.fit[v])
    BY <1>5, <1>7, UtteranceNumbers DEF Knows
  <2>2. A[v] = audio[v] /\ F[v] = fits[v]
    BY <1>1, <1>4, <2>1
  <2>3. QED
    BY <2>1, <2>2
<1>8. KnowsFit(x, A[u], S[u], L[u], F[u])
  BY <1>1, <1>4
<1>9. x.pc \notin Speaks /\ x.pc # "deliver"
  BY DEF Fits, Speaks
<1>10. \A H : Knows(x, A, S, H, L, F)
  BY <1>6, <1>7, <1>8, <1>9 DEF Knows
<1>11. Knows(x, audio', result', history', ledger', fits')
  BY <1>4, <1>10
<1>12. QED
  BY <1>1, <1>2, <1>3, <1>11, CoreAgain

\* One that only writes the ledger of its take.
LEMMA LoggedStep ==
    ASSUME Core, NEW t \in Task, t = task, NEW u \in Utterance, u = t.at, t.pc \in Fits,
           NEW r, r \in DOMAIN result[u], NEW m, LedgerOnDisk(m),
           r \in DOMAIN ledger[u] => Grown(ledger[u][r], m),
           NEW k, k = With(ledger[u], r, m), ledger' = [ledger EXCEPT ![u] = k],
           audio' = audio, fits' = fits, result' = result, history' = history, takes' = takes,
           NEW x \in Task, x = task', x.pc \in Fits, x.at = u,
           x.revision = t.revision, x.fit = t.fit,
           KnowsFit(x, audio[u], result[u], k, fits[u])
    PROVE  Core'
<1>1. PICK a, s, h, l, f : /\ a = audio[u] /\ s = result[u] /\ h = history[u]
                           /\ l = ledger[u] /\ f = fits[u]
  OBVIOUS
<1>2. SpokenOnDisk(a, s, h) /\ FittedOnDisk(s, l, f)
  BY <1>1 DEF Core, OnDisk
<1>3. r \in DOMAIN s /\ (r \in DOMAIN l => Grown(l[r], m)) /\ k = With(l, r, m)
  BY <1>1
<1>4. FittedOnDisk(s, k, f)
  BY <1>2, <1>3, LedgerWritten
<1>5. audio' = [audio EXCEPT ![u] = a] /\ fits' = [fits EXCEPT ![u] = f] /\ takes' \in Nat
  BY <1>1 DEF Core, SpeechTypeOK
<1>6. KnowsFit(x, a, s, k, f)
  BY <1>1
<1>7. QED
  BY <1>1, <1>2, <1>4, <1>5, <1>6, FitStep

\* What there is of the fit in hand.
LEMMA FitInHand ==
    ASSUME Core, task.pc \in Fits
    PROVE  \E t, u, r, a, s, h, l, f, g :
              /\ t \in Task /\ u \in Utterance /\ r \in Nat
              /\ t = task /\ u = t.at /\ u = u0 /\ r = t.revision[u] /\ r = r0
              /\ a = audio[u] /\ s = result[u] /\ h = history[u]
              /\ l = ledger[u] /\ f = fits[u]
              /\ g = LedgerOf(u, r) /\ LedgerOnDisk(g)
              /\ IF r \in DOMAIN l THEN g = l[r] ELSE g = << >>
              /\ r \in DOMAIN s
              /\ SpokenOnDisk(a, s, h) /\ FittedOnDisk(s, l, f) /\ KnowsFit(t, a, s, l, f)
              /\ \A v \in Utterance : Chosen(result[v], t.revision[v])
              /\ \A v \in Utterance :
                    v < u => Judged(audio[v], fits[v], t.revision[v], t.fit[v])
<1>1. PICK t, u, r, a, s, h, l, f :
         /\ t \in Task /\ u \in Utterance /\ r \in Nat
         /\ t = task /\ u = t.at /\ u = u0 /\ r = t.revision[u] /\ r = r0
         /\ a = audio[u] /\ s = result[u] /\ h = history[u]
         /\ l = ledger[u] /\ f = fits[u]
         /\ SpokenOnDisk(a, s, h) /\ FittedOnDisk(s, l, f)
         /\ Knows(t, audio, result, history, ledger, fits)
  BY InHand
<1> t \in Task /\ u \in Utterance /\ r \in Nat
  BY <1>1
<1>2. /\ KnowsFit(t, a, s, l, f)
      /\ \A v \in Utterance : Chosen(result[v], t.revision[v])
      /\ \A v \in Utterance : v < u => Judged(audio[v], fits[v], t.revision[v], t.fit[v])
  BY <1>1 DEF Knows
<1>3. r \in DOMAIN s
  BY <1>1, <1>2 DEF Chosen
<1>4. PICK g : g = LedgerOf(u, r)
  OBVIOUS
<1>5. IF r \in DOMAIN l THEN g = l[r] ELSE g = << >>
  BY <1>1, <1>4 DEF LedgerOf
<1>6. LedgerOnDisk(g)
  <2>1. CASE r \in DOMAIN l
    BY <1>1, <1>5, <2>1 DEF FittedOnDisk
  <2>2. CASE r \notin DOMAIN l
    BY <1>5, <2>2, NoLedger
  <2>3. QED
    BY <2>1, <2>2
<1>7. QED
  BY <1>1, <1>2, <1>3, <1>4, <1>5, <1>6

\* From t to x the candidate stays what it was, while its ledger grows from g to m.
Continues(t, x, g, m) ==
    /\ t.pc \in Corrects /\ Len(m) >= Len(g)
    /\ x.at = t.at /\ x.revision = t.revision /\ x.fit = t.fit /\ x.candidate = t.candidate
    /\ \/ x.pc \in {"correct", "publish"} /\ Settled(m)
       \/ /\ x.pc \in {"produce", "rewrite"} /\ t.pc = "correct"
          /\ Len(m) = Len(g) + 1 /\ m[Len(m)].status = "running"
          /\ x.step \in 1 .. Len(Plan)

LEMMA CandidateKept ==
    ASSUME NEW t \in Task, NEW x \in Task, NEW a, NEW s, NEW l, NEW f, KnowsFit(t, a, s, l, f),
           NEW r, r = t.revision[t.at], NEW g \in Seq(Correction), g = l[r],
           NEW m \in Seq(Correction), NEW k, r \in DOMAIN k, k[r] = m, Continues(t, x, g, m)
    PROVE  KnowsFit(x, a, s, k, f)
<1>1. PICK i \in Nat : i = Len(g)
  OBVIOUS
<1>2. PICK j \in Nat : j = Len(m)
  OBVIOUS
<1>3. PICK c \in Candidates : c = t.candidate
  BY DEF Task
<1>4. /\ r \in DOMAIN k /\ k[r] = m /\ x.revision[x.at] = r /\ x.candidate = c
  BY <1>3 DEF Continues
<1>5. /\ c.name \in DOMAIN a /\ a[c.name] = c.take.id
      /\ Magnitude(c.take.off) <= Magnitude(s[r].take.off)
      /\ c.strategy = "accept" => c.name = Raw(r)
      /\ c.name[1] # "raw" => c.name[2] <= i
  BY <1>1, <1>3 DEF KnowsFit, Continues
<1>6. PICK n \in Nat : n = c.name[2]
  BY <1>3 DEF Candidates, Name
<1>7. CASE x.pc \in {"produce", "rewrite"}
  <2>1. j = i + 1 /\ m[j].status = "running" /\ x.step \in 1 .. Len(Plan)
    BY <1>1, <1>2, <1>7 DEF Continues
  <2>2. n <= i => n < j /\ n <= j
    BY <2>1
  <2>3. j > 0
    BY <2>1
  <2>4. c.name[1] # "raw" => c.name[2] < j /\ c.name[2] <= j
    BY <1>5, <1>6, <2>2
  <2>5. x.pc \in Corrects /\ x.pc \in Runs /\ x.pc # "finish" /\ x.pc # "certify"
    BY <1>7 DEF Corrects, Runs
  <2>6. QED
    BY <1>2, <1>4, <1>5, <2>1, <2>3, <2>4, <2>5 DEF KnowsFit
<1>8. CASE x.pc \in {"correct", "publish"}
  <2>1. i <= j /\ Settled(m)
    BY <1>1, <1>2, <1>8 DEF Continues
  <2>2. c.name[1] # "raw" => c.name[2] <= j
    BY <1>5, <1>6, <2>1
  <2>3. x.pc \in Corrects /\ x.pc \notin Runs /\ x.pc \notin {"produce", "finish", "certify"}
    BY <1>8 DEF Corrects, Runs
  <2>4. QED
    BY <1>2, <1>4, <1>5, <2>1, <2>2, <2>3 DEF KnowsFit
<1>9. QED
  BY <1>7, <1>8 DEF Continues

LEMMA TakeFitStep ==
    ASSUME Core, TakeFit
    PROVE  Core'
<1>1. task.pc = "fit"
  BY DEF TakeFit, At
<1>2. PICK t, u, r, a, s, h, l, f :
         /\ t \in Task /\ u \in Utterance /\ r \in Nat
         /\ t = task /\ u = t.at /\ u = u0 /\ r = t.revision[u] /\ r = r0
         /\ a = audio[u] /\ s = result[u] /\ h = history[u] /\ l = ledger[u] /\ f = fits[u]
         /\ FittedOnDisk(s, l, f)
         /\ \A v \in Utterance : Chosen(result[v], t.revision[v])
         /\ \A v \in Utterance : v < u => Judged(audio[v], fits[v], t.revision[v], t.fit[v])
  BY <1>1, FitInHand DEF Fits
<1> t \in Task /\ u \in Utterance /\ r \in Nat
  BY <1>2
<1>3. PICK N : N = Fitting(u, r)
  OBVIOUS
<1>4. N # {}
  BY <1>2, <1>3 DEF TakeFit
<1>5. r \in DOMAIN f /\ N \subseteq DOMAIN f[r] /\ \A n \in N : a[f[r][n].name] = f[r][n].take.id
  BY <1>2, <1>3, <1>4 DEF Fitting, Intact
<1>6. PICK i \in Nat : i = Len(f[r]) /\ DOMAIN f[r] = 1 .. i
  BY <1>2, <1>5 DEF FittedOnDisk
<1>7. N \in SUBSET Nat /\ \A n \in N : n <= i
  BY <1>5, <1>6
<1>8. PICK n \in Nat : n = Newest(N) /\ n \in N
  BY <1>4, <1>7, NewestIsGreatest
<1>9. Judged(a, f, r, n)
  BY <1>5, <1>6, <1>8 DEF Judged
<1>10. PICK x : x = Fitted(n)
  OBVIOUS
<1>11. task' = x
  BY <1>2, <1>3, <1>8, <1>10 DEF TakeFit
<1>12. /\ x \in Task /\ x.revision = t.revision /\ x.fit = [t.fit EXCEPT ![u] = n]
       /\ IF u < NUtterances THEN x.pc = "fit" /\ x.at = u + 1 ELSE x.pc = "deliver"
  BY <1>2, <1>10, FittedTask
<1>13. PICK A, S, H, L, F : A = audio /\ S = result /\ H = history /\ L = ledger /\ F = fits
  OBVIOUS
<1>14. /\ \A v \in Utterance : Chosen(S[v], t.revision[v])
       /\ \A v \in Utterance : v < u => Judged(A[v], F[v], t.revision[v], t.fit[v])
       /\ Judged(A[u], F[u], t.revision[u], n)
  BY <1>2, <1>9, <1>13
<1>15. Knows(x, A, S, H, L, F)
  BY <1>2, <1>12, <1>14, FittedKnows
<1>16. Knows(x, audio, result, history, ledger, fits)
  BY <1>13, <1>15
<1>17. UNCHANGED << speechFiles, fitFiles >> /\ takes' \in Nat
  BY DEF TakeFit, Core, SpeechTypeOK
<1>18. QED
  BY <1>11, <1>12, <1>16, <1>17, DiskUntouched

LEMMA OpenFitStep ==
    ASSUME Core, OpenFit
    PROVE  Core'
<1>1. task.pc = "fit"
  BY DEF OpenFit, At
<1>2. PICK t, u, r, a, s, h, l, f, g :
         /\ t \in Task /\ u \in Utterance /\ r \in Nat
         /\ t = task /\ u = t.at /\ u = u0 /\ r = t.revision[u] /\ r = r0
         /\ a = audio[u] /\ s = result[u] /\ h = history[u] /\ l = ledger[u] /\ f = fits[u]
         /\ g = LedgerOf(u, r) /\ LedgerOnDisk(g)
         /\ IF r \in DOMAIN l THEN g = l[r] ELSE g = << >>
         /\ r \in DOMAIN s /\ SpokenOnDisk(a, s, h)
  BY <1>1, FitInHand DEF Fits
<1> t \in Task /\ u \in Utterance /\ r \in Nat
  BY <1>2
<1>3. PICK m : m = Closed(g)
  OBVIOUS
<1>4. LedgerOnDisk(m) /\ Grown(g, m) /\ Settled(m)
  BY <1>2, <1>3, LedgerClosed
<1>5. PICK k : k = With(l, r, m)
  OBVIOUS
<1>6. PICK raw \in Take : raw = s[r].take
  BY <1>2 DEF SpokenOnDisk
<1>7. PICK c : c = Candidate(Raw(r), raw, "accept", FALSE)
  OBVIOUS
<1>8. c \in Candidates /\ c.name = Raw(r) /\ c.take = raw /\ c.strategy = "accept"
  BY <1>2, <1>7 DEF Candidate, Candidates, Raw, Name
<1>9. PICK pc : pc = IF Satisfied(raw.off) THEN "accept" ELSE "correct"
  OBVIOUS
<1>10. pc \in {"accept", "correct"}
  BY <1>9
<1>11. /\ ledger' = [ledger EXCEPT ![u] = k]
       /\ task' = [task EXCEPT !.pc = pc, !.step = 1, !.valid = FALSE, !.candidate = c]
       /\ UNCHANGED << speechFiles, fits, takes >>
  BY <1>2, <1>3, <1>5, <1>6, <1>7, <1>9 DEF OpenFit, Logged
<1>12. PICK x : x = task'
  OBVIOUS
<1>13. /\ x \in Task /\ x.pc = pc /\ x.at = u /\ x.revision = t.revision /\ x.fit = t.fit
       /\ x.candidate = c
  <2>1. x = [pc |-> pc, forced |-> t.forced, at |-> t.at, step |-> 1, take |-> t.take,
             candidate |-> c, valid |-> FALSE, revision |-> t.revision, fit |-> t.fit]
    BY <1>2, <1>11, <1>12 DEF Task
  <2>2. pc \in Phase /\ c \in Candidates
    BY <1>8, <1>10 DEF Phase
  <2>3. x \in Task
    BY <2>1, <2>2 DEF Task
  <2>4. /\ x.pc = pc /\ x.at = t.at /\ x.revision = t.revision /\ x.fit = t.fit
        /\ x.candidate = c
    BY <2>1 DEF Task
  <2>5. QED
    BY <1>2, <2>3, <2>4
<1>14. KnowsFit(x, a, s, k, f)
  <2>1. r \in DOMAIN k /\ k[r] = m
    BY <1>5 DEF With
  <2>2. Raw(r) \in DOMAIN a /\ a[Raw(r)] = raw.id
    BY <1>2, <1>6 DEF SpokenOnDisk
  <2>3. Magnitude(raw.off) <= Magnitude(s[r].take.off)
    <3>1. PICK d \in Int : d = raw.off
      BY DEF Take
    <3>2. Magnitude(d) <= Magnitude(d)
      BY DEF Magnitude
    <3>3. QED
      BY <1>6, <3>1, <3>2
  <2>4. Raw(r)[1] = "raw"
    BY DEF Raw
  <2>5. x.pc \in Corrects /\ x.pc \notin Runs /\ x.pc \notin {"produce", "finish", "certify"}
    BY <1>10, <1>13 DEF Corrects, Runs
  <2>6. QED
    BY <1>2, <1>4, <1>8, <1>13, <2>1, <2>2, <2>3, <2>4, <2>5 DEF KnowsFit
<1>15. r \in DOMAIN result[u] /\ (r \in DOMAIN ledger[u] => Grown(ledger[u][r], m))
  BY <1>2, <1>4
<1>16. audio' = audio /\ fits' = fits /\ result' = result /\ history' = history /\ takes' = takes
  BY <1>11 DEF speechFiles
<1>17. t.pc \in Fits /\ x.pc \in Fits
  BY <1>1, <1>2, <1>10, <1>13 DEF Fits
<1>18. KnowsFit(x, audio[u], result[u], k, fits[u]) /\ k = With(ledger[u], r, m)
  BY <1>2, <1>5, <1>14
<1>19. QED
  BY <1>2, <1>4, <1>11, <1>12, <1>13, <1>15, <1>16, <1>17, <1>18, LoggedStep

\* What follows from a step that keeps the candidate and writes the ledger m.
LEMMA CorrectingStep ==
    ASSUME Core, NEW t \in Task, t = task, NEW u \in Utterance, u = t.at,
           NEW r, r = t.revision[u], NEW g, g = ledger[u][r],
           NEW m, LedgerOnDisk(m), Grown(g, m),
           NEW k, k = With(ledger[u], r, m), ledger' = [ledger EXCEPT ![u] = k],
           audio' = audio, fits' = fits, result' = result, history' = history, takes' = takes,
           NEW x \in Task, x = task', Continues(t, x, g, m)
    PROVE  Core'
<1>1. t.pc \in Corrects /\ t.pc \in Fits /\ x.pc \in Fits
  BY DEF Continues, Corrects, Fits
<1>2. PICK a, s, l, f : a = audio[u] /\ s = result[u] /\ l = ledger[u] /\ f = fits[u]
  OBVIOUS
<1>3. Knows(t, audio, result, history, ledger, fits) /\ FittedOnDisk(s, l, f)
  BY <1>2 DEF Core, OnDisk, InMemory
<1>4. KnowsFit(t, a, s, l, f) /\ Chosen(s, r)
  BY <1>1, <1>2, <1>3 DEF Knows
<1>5. r \in DOMAIN l /\ r \in DOMAIN s /\ g = l[r]
  BY <1>1, <1>2, <1>4 DEF KnowsFit, Chosen
<1>6. g \in Seq(Correction) /\ m \in Seq(Correction)
  BY <1>3, <1>5 DEF FittedOnDisk, LedgerOnDisk
<1>7. r = t.revision[t.at] /\ r \in DOMAIN k /\ k[r] = m
  BY DEF With
<1>8. KnowsFit(x, a, s, k, f)
  BY <1>4, <1>5, <1>6, <1>7, CandidateKept
<1>9. /\ r \in DOMAIN result[u] /\ (r \in DOMAIN ledger[u] => Grown(ledger[u][r], m))
      /\ KnowsFit(x, audio[u], result[u], k, fits[u])
  BY <1>2, <1>5, <1>8
<1>10. x.at = u /\ x.revision = t.revision /\ x.fit = t.fit
  BY DEF Continues
<1>11. QED
  BY <1>1, <1>9, <1>10, LoggedStep

\* What there is of the correction in hand.
LEMMA CorrectionInHand ==
    ASSUME Core, task.pc \in Corrects
    PROVE  \E t, u, r, a, s, h, l, f, g :
              /\ t \in Task /\ u \in Utterance /\ r \in Nat
              /\ t = task /\ u = t.at /\ u = u0 /\ r = t.revision[u] /\ r = r0
              /\ a = audio[u] /\ s = result[u] /\ h = history[u]
              /\ l = ledger[u] /\ f = fits[u]
              /\ g = LedgerOf(u, r) /\ g = l[r] /\ LedgerOnDisk(g) /\ r \in DOMAIN l
              /\ r \in DOMAIN s
              /\ SpokenOnDisk(a, s, h) /\ FittedOnDisk(s, l, f) /\ KnowsFit(t, a, s, l, f)
<1>1. task.pc \in Fits
  BY DEF Corrects, Fits
<1>2. PICK t, u, r, a, s, h, l, f, g :
         /\ t \in Task /\ u \in Utterance /\ r \in Nat
         /\ t = task /\ u = t.at /\ u = u0 /\ r = t.revision[u] /\ r = r0
         /\ a = audio[u] /\ s = result[u] /\ h = history[u]
         /\ l = ledger[u] /\ f = fits[u]
         /\ g = LedgerOf(u, r) /\ LedgerOnDisk(g)
         /\ IF r \in DOMAIN l THEN g = l[r] ELSE g = << >>
         /\ r \in DOMAIN s
         /\ SpokenOnDisk(a, s, h) /\ FittedOnDisk(s, l, f) /\ KnowsFit(t, a, s, l, f)
  BY <1>1, FitInHand
<1> t \in Task /\ u \in Utterance /\ r \in Nat
  BY <1>2
<1>3. r \in DOMAIN l
  BY <1>2 DEF KnowsFit
<1>4. QED
  BY <1>2, <1>3

LEMMA AcceptStep ==
    ASSUME Core, Accept
    PROVE  Core'
<1>1. task.pc = "accept"
  BY DEF Accept, At
<1>2. PICK t, u, r, a, s, h, l, f, g :
         /\ t \in Task /\ u \in Utterance /\ r \in Nat
         /\ t = task /\ u = t.at /\ u = u0 /\ r = t.revision[u] /\ r = r0 /\ l = ledger[u]
         /\ g = LedgerOf(u, r) /\ g = l[r] /\ LedgerOnDisk(g) /\ KnowsFit(t, a, s, l, f)
  BY <1>1, CorrectionInHand DEF Corrects
<1> t \in Task /\ u \in Utterance /\ r \in Nat
  BY <1>2
<1>3. PICK e : e = Entry("accept", "completed")
  OBVIOUS
<1>4. e \in Correction /\ e.tactic = "accept" /\ e.status = "completed"
  BY <1>3 DEF Entry, Correction
<1>5. PICK m : m = Append(g, e)
  OBVIOUS
<1>6. Settled(g)
  BY <1>1, <1>2 DEF KnowsFit, Corrects, Runs
<1>7. LedgerOnDisk(m) /\ Grown(g, m) /\ Settled(m)
  BY <1>2, <1>4, <1>5, <1>6, LedgerAppended
<1>8. PICK k : k = With(l, r, m)
  OBVIOUS
<1>9. /\ ledger' = [ledger EXCEPT ![u] = k] /\ task' = [t EXCEPT !.pc = "publish"]
      /\ UNCHANGED << speechFiles, fits, takes >>
  BY <1>2, <1>3, <1>5, <1>8 DEF Accept, Logged, Goto
<1>10. PICK x : x = task'
  OBVIOUS
<1>11. /\ x \in Task /\ x.pc = "publish" /\ x.at = u /\ x.revision = t.revision
       /\ x.fit = t.fit /\ x.candidate = t.candidate
  BY <1>2, <1>9, <1>10 DEF Task, Phase
<1>12. audio' = audio /\ fits' = fits /\ result' = result /\ history' = history /\ takes' = takes
  BY <1>9 DEF speechFiles
<1>13. Continues(t, x, g, m)
  BY <1>1, <1>2, <1>7, <1>11 DEF Continues, Corrects, Grown
<1>14. g = ledger[u][r] /\ k = With(ledger[u], r, m)
  BY <1>2, <1>8
<1>15. QED
  BY <1>2, <1>7, <1>9, <1>10, <1>11, <1>12, <1>13, <1>14, CorrectingStep

LEMMA BeginStep ==
    ASSUME Core, Begin
    PROVE  Core'
<1>1. task.pc = "correct"
  BY DEF Begin, At
<1>2. PICK t, u, r, a, s, h, l, f, g :
         /\ t \in Task /\ u \in Utterance /\ r \in Nat
         /\ t = task /\ u = t.at /\ u = u0 /\ r = t.revision[u] /\ r = r0 /\ l = ledger[u]
         /\ g = LedgerOf(u, r) /\ g = l[r] /\ LedgerOnDisk(g) /\ KnowsFit(t, a, s, l, f)
  BY <1>1, CorrectionInHand DEF Corrects
<1> t \in Task /\ u \in Utterance /\ r \in Nat
  BY <1>2
<1>3. PICK N : N = Upcoming
  OBVIOUS
<1>4. /\ N # {} /\ N \subseteq t.step .. Len(Plan)
      /\ \A i \in N : Len(g) < MaxTotalAttempts
  BY <1>2, <1>3 DEF Begin, Upcoming, Room
<1>5. N \in SUBSET Nat /\ \A i \in N : i \in 1 .. Len(Plan)
  <2>1. PICK j \in Nat : j = t.step /\ j > 0
    BY DEF Task
  <2>2. PICK n \in Nat : n = Len(Plan)
    BY PlanIs
  <2>3. N \subseteq j .. n
    BY <1>4, <2>1, <2>2
  <2>4. QED
    BY <2>1, <2>2, <2>3
<1>6. PICK i \in 1 .. Len(Plan) : i = Oldest(N) /\ Len(g) < MaxTotalAttempts
  BY <1>4, <1>5, OldestIsLeast
<1>7. PICK e : e = Entry(Plan[i], "running")
  OBVIOUS
<1>8. e \in Correction /\ e.status = "running"
  BY <1>7, PlanIs DEF Entry, Correction
<1>9. PICK m : m = Append(g, e)
  OBVIOUS
<1>10. Settled(g)
  BY <1>1, <1>2 DEF KnowsFit, Corrects, Runs
<1>11. LedgerOnDisk(m) /\ Grown(g, m) /\ Len(m) = Len(g) + 1 /\ m[Len(m)].status = "running"
  <2>1. LedgerOnDisk(g) /\ Len(g) < MaxTotalAttempts
    BY <1>2, <1>6
  <2>2. LedgerOnDisk(m) /\ Grown(g, m) /\ Len(m) = Len(g) + 1 /\ m[Len(m)] = e
    BY <1>8, <1>9, <1>10, <2>1, LedgerAppended
  <2>3. QED
    BY <1>8, <2>2
<1>12. PICK k : k = With(l, r, m)
  OBVIOUS
<1>13. PICK pc : pc = IF Plan[i] = "compact_rewrite" THEN "rewrite" ELSE "produce"
  OBVIOUS
<1>14. pc \in {"rewrite", "produce"}
  BY <1>13
<1>15. /\ ledger' = [ledger EXCEPT ![u] = k]
       /\ task' = [t EXCEPT !.step = i, !.valid = FALSE, !.pc = pc]
       /\ UNCHANGED << speechFiles, fits, takes >>
  BY <1>2, <1>3, <1>6, <1>7, <1>9, <1>12, <1>13 DEF Begin, Logged
<1>16. PICK x : x = task'
  OBVIOUS
<1>17. /\ x \in Task /\ x.pc = pc /\ x.at = u /\ x.revision = t.revision
       /\ x.fit = t.fit /\ x.candidate = t.candidate /\ x.step = i
  <2>1. x = [pc |-> pc, forced |-> t.forced, at |-> t.at, step |-> i, take |-> t.take,
             candidate |-> t.candidate, valid |-> FALSE, revision |-> t.revision, fit |-> t.fit]
    BY <1>15, <1>16 DEF Task
  <2>2. pc \in Phase /\ i \in Nat \ {0}
    BY <1>14, PlanIs DEF Phase
  <2>3. x \in Task
    BY <2>1, <2>2 DEF Task
  <2>4. QED
    BY <1>2, <2>1, <2>3
<1>18. audio' = audio /\ fits' = fits /\ result' = result /\ history' = history /\ takes' = takes
  BY <1>15 DEF speechFiles
<1>19. Continues(t, x, g, m)
  BY <1>1, <1>2, <1>11, <1>14, <1>17 DEF Continues, Corrects, Grown
<1>20. g = ledger[u][r] /\ k = With(ledger[u], r, m)
  BY <1>2, <1>12
<1>21. QED
  BY <1>2, <1>11, <1>15, <1>16, <1>17, <1>18, <1>19, <1>20, CorrectingStep

\* The correction that ran has ended, and its candidate was not adopted.
LEMMA EndedStep ==
    ASSUME Core, Rewrite \/ TacticFails
    PROVE  Core'
<1>1. task.pc \in Runs /\ task.pc # "finish"
  BY DEF Rewrite, TacticFails, At, Runs
<1>2. PICK t, u, r, a, s, h, l, f, g :
         /\ t \in Task /\ u \in Utterance /\ r \in Nat
         /\ t = task /\ u = t.at /\ u = u0 /\ r = t.revision[u] /\ r = r0 /\ l = ledger[u]
         /\ g = LedgerOf(u, r) /\ g = l[r] /\ LedgerOnDisk(g) /\ KnowsFit(t, a, s, l, f)
  BY <1>1, CorrectionInHand DEF Corrects, Runs
<1> t \in Task /\ u \in Utterance /\ r \in Nat
  BY <1>2
<1>3. PICK status \in {"completed", "failed"} : Finished(status)
  BY DEF Rewrite, TacticFails
<1>4. PICK m : m = [g EXCEPT ![Len(g)] = [@ EXCEPT !.status = status]]
  OBVIOUS
<1>5. Len(g) > 0 /\ g[Len(g)].status = "running"
  BY <1>1, <1>2 DEF KnowsFit, Runs, Corrects
<1>6. LedgerOnDisk(m) /\ Grown(g, m) /\ Settled(m)
  BY <1>2, <1>4, <1>5, LedgerEnded
<1>7. PICK k : k = With(l, r, m)
  OBVIOUS
<1>8. ledger' = [ledger EXCEPT ![u] = k]
  BY <1>2, <1>3, <1>4, <1>7 DEF Finished, Logged
<1>9. PICK i \in Nat : i = t.step
  BY DEF Task
<1>10. PICK x : x = task'
  OBVIOUS
<1>11. /\ x.pc = "correct" /\ x.at = t.at /\ x.revision = t.revision
       /\ x.fit = t.fit /\ x.candidate = t.candidate /\ x \in Task
  <2>1. CASE Rewrite
    <3>1. x = [pc |-> "correct", forced |-> t.forced, at |-> t.at, step |-> i + 1,
               take |-> t.take, candidate |-> t.candidate, valid |-> TRUE,
               revision |-> t.revision, fit |-> t.fit]
      BY <1>2, <1>9, <1>10, <2>1 DEF Rewrite, Task
    <3>2. QED
      BY <3>1 DEF Task, Phase
  <2>2. CASE TacticFails
    <3>1. x = [pc |-> "correct", forced |-> t.forced, at |-> t.at, step |-> i + 1,
               take |-> t.take, candidate |-> t.candidate, valid |-> t.valid,
               revision |-> t.revision, fit |-> t.fit]
      BY <1>2, <1>9, <1>10, <2>2 DEF TacticFails, PastFailure, Task
    <3>2. QED
      BY <3>1 DEF Task, Phase
  <2>3. QED
    BY <2>1, <2>2
<1>12. audio' = audio /\ fits' = fits /\ result' = result /\ history' = history /\ takes' = takes
  BY DEF Rewrite, TacticFails, speechFiles
<1>13. Continues(t, x, g, m)
  BY <1>1, <1>2, <1>6, <1>11 DEF Continues, Corrects, Runs, Grown
<1>14. g = ledger[u][r] /\ k = With(ledger[u], r, m)
  BY <1>2, <1>7
<1>15. QED
  BY <1>2, <1>6, <1>8, <1>10, <1>11, <1>12, <1>13, <1>14, CorrectingStep

LEMMA ConcludeStep ==
    ASSUME Core, Conclude
    PROVE  Core'
<1>1. task.pc = "correct"
  BY DEF Conclude, At
<1>2. PICK t, u, r, a, s, h, l, f, g :
         /\ t \in Task /\ u \in Utterance /\ r \in Nat
         /\ t = task /\ u = t.at /\ u = u0 /\ r = t.revision[u] /\ r = r0
         /\ a = audio[u] /\ s = result[u] /\ h = history[u] /\ l = ledger[u] /\ f = fits[u]
         /\ g = LedgerOf(u, r) /\ g = l[r] /\ LedgerOnDisk(g) /\ r \in DOMAIN l
         /\ SpokenOnDisk(a, s, h) /\ FittedOnDisk(s, l, f) /\ KnowsFit(t, a, s, l, f)
  BY <1>1, CorrectionInHand DEF Corrects
<1> t \in Task /\ u \in Utterance /\ r \in Nat
  BY <1>2
<1>3. Settled(g)
  BY <1>1, <1>2 DEF KnowsFit, Corrects, Runs
<1>4. PICK x : x = [t EXCEPT !.pc = "publish"]
  OBVIOUS
<1>5. /\ x = task' /\ audio' = audio /\ fits' = fits /\ result' = result
      /\ history' = history /\ takes' = takes
  BY <1>2, <1>4 DEF Conclude, Goto, speechFiles
<1>6. /\ x \in Task /\ x.pc = "publish" /\ x.at = t.at /\ x.revision = t.revision
      /\ x.fit = t.fit /\ x.candidate = t.candidate
  BY <1>4 DEF Task, Phase
<1>7. PICK e : e = Entry("surface_unresolved", "completed")
  OBVIOUS
<1>8. CASE ledger' = [ledger EXCEPT ![u] = With(l, r, Append(g, e))] /\ Room(g)
  <2>1. e \in Correction /\ e.status # "running"
    BY <1>7 DEF Entry, Correction
  <2>2. PICK m : m = Append(g, e)
    OBVIOUS
  <2>3. LedgerOnDisk(m) /\ Grown(g, m) /\ Settled(m)
    BY <1>2, <1>3, <1>8, <2>1, <2>2, LedgerAppended DEF Room
  <2>4. Continues(t, x, g, m)
    BY <1>1, <1>2, <1>6, <2>3 DEF Continues, Corrects, Grown
  <2>5. PICK k : k = With(ledger[u], r, m)
    OBVIOUS
  <2>6. ledger' = [ledger EXCEPT ![u] = k] /\ g = ledger[u][r]
    BY <1>2, <1>8, <2>2, <2>5
  <2>7. QED
    BY <1>2, <1>5, <1>6, <2>3, <2>4, <2>5, <2>6, CorrectingStep
<1>9. CASE ledger' = ledger
  <2>1. g \in Seq(Correction) /\ Len(g) >= Len(g)
    BY <1>2 DEF LedgerOnDisk
  <2>2. Continues(t, x, g, g)
    BY <1>1, <1>2, <1>3, <1>6, <2>1 DEF Continues, Corrects
  <2>3. r = t.revision[t.at]
    BY <1>2
  <2>4. KnowsFit(x, a, s, l, f)
    BY <1>2, <1>6, <2>1, <2>2, <2>3, CandidateKept
  <2>5. /\ audio' = [audio EXCEPT ![u] = a] /\ ledger' = [ledger EXCEPT ![u] = l]
        /\ fits' = [fits EXCEPT ![u] = f] /\ takes' \in Nat
    BY <1>2, <1>5, <1>9 DEF Core, SpeechTypeOK
  <2>6. t.pc \in Fits /\ x.pc \in Fits /\ x.at = u
    BY <1>1, <1>2, <1>6 DEF Fits
  <2>7. SpokenOnDisk(a, result[u], history[u]) /\ FittedOnDisk(result[u], l, f)
        /\ KnowsFit(x, a, result[u], l, f)
    BY <1>2, <2>4
  <2>8. QED
    BY <1>2, <1>5, <1>6, <2>5, <2>6, <2>7, FitStep
<1>10. \/ ledger' = [ledger EXCEPT ![u] = With(l, r, Append(g, e))] /\ Room(g)
       \/ ledger' = ledger
  BY <1>2, <1>7 DEF Conclude, Logged
<1>11. QED
  BY <1>8, <1>9, <1>10

LEMMA ProduceStep ==
    ASSUME Core, NEW j \in Nat, NumberedUpTo(j), Produce
    PROVE  /\ Core' /\ NumberedUpTo(j)'
           /\ \A v \in Utterance : \A n \in DOMAIN audio[v] :
                 n[1] = "raw" => audio'[v][n] = audio[v][n]
<1>1. task.pc = "produce"
  BY DEF Produce, At
<1>2. PICK t, u, r, a, s, h, l, f, g :
         /\ t \in Task /\ u \in Utterance /\ r \in Nat
         /\ t = task /\ u = t.at /\ u = u0 /\ r = t.revision[u] /\ r = r0
         /\ a = audio[u] /\ s = result[u] /\ h = history[u] /\ l = ledger[u] /\ f = fits[u]
         /\ g = LedgerOf(u, r) /\ g = l[r] /\ LedgerOnDisk(g) /\ r \in DOMAIN l
         /\ SpokenOnDisk(a, s, h) /\ FittedOnDisk(s, l, f) /\ KnowsFit(t, a, s, l, f)
  BY <1>1, CorrectionInHand DEF Corrects
<1> t \in Task /\ u \in Utterance /\ r \in Nat
  BY <1>2
<1>3. PICK z \in Nat : z = Len(g)
  <2>1. g \in Seq(Correction)
    BY <1>2 DEF LedgerOnDisk
  <2>2. QED
    BY <2>1
<1>4. PICK tactic \in Tactics : tactic = Plan[t.step]
  BY <1>1, <1>2, PlanIs DEF KnowsFit, Runs
<1>5. PICK name : name = << tactic, z >>
  OBVIOUS
<1>6. name \in Name /\ name[1] = tactic /\ name[2] = z /\ tactic # "raw"
  BY <1>5 DEF Name, Tactics
<1>7. PICK i \in Nat : i = takes + 1
  BY DEF Core, SpeechTypeOK
<1>8. PICK b : b = With(a, name, i)
  OBVIOUS
<1>9. /\ DOMAIN b = DOMAIN a \cup {name} /\ b[name] = i
      /\ \A n \in DOMAIN a : n # name => b[n] = a[n]
  BY <1>8 DEF With
<1>10. PICK d \in Deviation :
          /\ audio' = [audio EXCEPT ![u] = b] /\ takes' = i
          /\ task' = [t EXCEPT !.pc = "finish", !.take = [id |-> i, off |-> d]]
          /\ UNCHANGED << setup, result, history, fitFiles, output, trouble >>
  BY <1>2, <1>3, <1>4, <1>5, <1>7, <1>8 DEF Produce, CandidateName
<1>11. PICK take \in Take : take = [id |-> i, off |-> d]
  BY DEF Take
<1>12. PICK x : x = task'
  OBVIOUS
<1>13. /\ x \in Task /\ x.pc = "finish" /\ x.at = u /\ x.revision = t.revision
       /\ x.fit = t.fit /\ x.candidate = t.candidate /\ x.step = t.step /\ x.take = take
  <2>1. x = [t EXCEPT !.pc = "finish", !.take = take]
    BY <1>10, <1>11, <1>12
  <2>2. QED
    BY <1>2, <2>1 DEF Task, Phase
<1>14. \A n \in DOMAIN a : n[1] = "raw" => n \in DOMAIN b /\ b[n] = a[n]
  BY <1>6, <1>9
<1>15. SpokenOnDisk(b, s, h)
  <2>1. \A q \in DOMAIN s : Raw(q) \in DOMAIN b /\ b[Raw(q)] = a[Raw(q)]
    <3>1. \A q \in DOMAIN s : Raw(q) \in DOMAIN a
      BY <1>2 DEF SpokenOnDisk
    <3>2. \A q \in DOMAIN s : Raw(q)[1] = "raw"
      BY DEF Raw
    <3>3. QED
      BY <1>14, <3>1, <3>2
  <2>2. DOMAIN b \subseteq Name
    BY <1>2, <1>6, <1>9 DEF SpokenOnDisk
  <2>3. QED
    BY <1>2, <2>1, <2>2 DEF SpokenOnDisk
<1>16. PICK c \in Candidates : c = t.candidate
  BY DEF Task
<1>17. /\ c.name \in DOMAIN a /\ a[c.name] = c.take.id
       /\ Magnitude(c.take.off) <= Magnitude(s[r].take.off)
       /\ c.strategy = "accept" => c.name = Raw(r)
       /\ c.name[1] # "raw" => c.name[2] < z
       /\ z > 0 /\ g[z].status = "running" /\ t.step \in 1 .. Len(Plan)
  BY <1>1, <1>2, <1>3, <1>16 DEF KnowsFit, Corrects, Runs
<1>18. c.name # name
  BY <1>6, <1>17
<1>19. c.name[1] # "raw" => c.name[2] <= z
  <2>1. PICK n \in Nat : n = c.name[2]
    BY DEF Candidates, Name
  <2>2. SUFFICES ASSUME c.name[1] # "raw" PROVE n <= z
    BY <2>1
  <2>3. c.name[2] < z
    BY <1>17, <2>2
  <2>4. n < z
    BY <2>1, <2>3
  <2>5. QED
    BY <1>3, <2>1, <2>4
<1>20. KnowsFit(x, b, s, l, f)
  <2>1. c.name \in DOMAIN b /\ b[c.name] = c.take.id
    BY <1>9, <1>17, <1>18
  <2>2. << Plan[x.step], Len(l[r]) >> \in DOMAIN b /\ b[<< Plan[x.step], Len(l[r]) >>] = x.take.id
    BY <1>2, <1>3, <1>4, <1>5, <1>9, <1>11, <1>13
  <2>3. x.pc \in Corrects /\ x.pc \in Runs /\ x.pc # "produce" /\ x.pc # "certify"
    BY <1>13 DEF Corrects, Runs
  <2>4. x.revision[x.at] = r /\ x.candidate = c /\ x.step = t.step
    BY <1>2, <1>13, <1>16
  <2>5. QED
    BY <1>2, <1>3, <1>17, <1>19, <2>1, <2>2, <2>3, <2>4 DEF KnowsFit
<1>21. /\ result' = result /\ history' = history /\ takes' \in Nat
       /\ ledger' = [ledger EXCEPT ![u] = l] /\ fits' = [fits EXCEPT ![u] = f]
  BY <1>2, <1>10 DEF Core, SpeechTypeOK, fitFiles
<1>22. t.pc \in Fits /\ x.pc \in Fits
  BY <1>1, <1>2, <1>13 DEF Fits
<1>23. SpokenOnDisk(b, result[u], history[u]) /\ FittedOnDisk(result[u], l, f)
       /\ KnowsFit(x, b, result[u], l, f)
  BY <1>2, <1>15, <1>20
<1>24. Core'
  BY <1>2, <1>10, <1>12, <1>13, <1>21, <1>22, <1>23, FitStep
<1>25. /\ audio'[u] = b
       /\ \A v \in Utterance : v # u => audio'[v] = audio[v]
  BY <1>10 DEF Core, SpeechTypeOK
<1>26. NumberedUpTo(j)'
  <2>1. ASSUME NEW v \in Utterance, NEW n \in DOMAIN audio'[v], n[1] = "raw"
        PROVE  n \in DOMAIN audio[v]
    BY <1>2, <1>6, <1>9, <1>25, <2>1
  <2>2. QED
    BY <2>1 DEF NumberedUpTo
<1>27. \A v \in Utterance : \A n \in DOMAIN audio[v] :
          n[1] = "raw" => audio'[v][n] = audio[v][n]
  BY <1>2, <1>14, <1>25
<1>28. QED
  BY <1>24, <1>26, <1>27

LEMMA FinishStep ==
    ASSUME Core, Finish
    PROVE  Core'
<1>1. task.pc = "finish"
  BY DEF Finish, At
<1>2. PICK t, u, r, a, s, h, l, f, g :
         /\ t \in Task /\ u \in Utterance /\ r \in Nat
         /\ t = task /\ u = t.at /\ u = u0 /\ r = t.revision[u] /\ r = r0
         /\ a = audio[u] /\ s = result[u] /\ h = history[u] /\ l = ledger[u] /\ f = fits[u]
         /\ g = LedgerOf(u, r) /\ g = l[r] /\ LedgerOnDisk(g) /\ r \in DOMAIN l /\ r \in DOMAIN s
         /\ SpokenOnDisk(a, s, h) /\ FittedOnDisk(s, l, f) /\ KnowsFit(t, a, s, l, f)
  BY <1>1, CorrectionInHand DEF Corrects
<1> t \in Task /\ u \in Utterance /\ r \in Nat
  BY <1>2
<1>3. PICK z \in Nat : z = Len(g)
  <2>1. g \in Seq(Correction)
    BY <1>2 DEF LedgerOnDisk
  <2>2. QED
    BY <2>1
<1>4. PICK tactic \in Tactics : tactic = Plan[t.step]
  BY <1>1, <1>2, PlanIs DEF KnowsFit, Runs
<1>5. PICK name : name = << tactic, z >>
  OBVIOUS
<1>6. name \in Name /\ name[1] = tactic /\ name[2] = z /\ tactic # "raw" /\ tactic # "accept"
  BY <1>5 DEF Name, Tactics
<1>7. PICK c \in Candidates : c = t.candidate
  BY DEF Task
<1>8. PICK i \in Nat : i = t.step
  BY DEF Task
<1>9. PICK p : p = Candidate(name, t.take, tactic,
                             c.rewritten \/ tactic = "regenerate_assigned_voice")
  OBVIOUS
<1>10. p \in Candidates /\ p.name = name /\ p.take = t.take /\ p.strategy = tactic
  <2>1. t.take \in Take
    BY DEF Task
  <2>2. (c.rewritten \/ tactic = "regenerate_assigned_voice") \in BOOLEAN
    BY Zenon
  <2>3. QED
    BY <1>6, <1>9, <2>1, <2>2 DEF Candidate, Candidates
<1>11. PICK e : e = Adopted(p, c)
  OBVIOUS
<1>12. e = c \/ (e = p /\ Magnitude(p.take.off) < Magnitude(c.take.off))
  BY <1>11 DEF Adopted, IsBetter
<1>13. PICK m : m = [g EXCEPT ![Len(g)] = [@ EXCEPT !.status = "completed"]]
  OBVIOUS
<1>14. PICK k : k = With(l, r, m)
  OBVIOUS
<1>15. /\ ledger' = [ledger EXCEPT ![u] = k]
       /\ task' = [t EXCEPT !.pc = "correct", !.step = i + 1, !.take = NoTake, !.candidate = e]
       /\ UNCHANGED << speechFiles, fits, takes >>
  BY <1>2, <1>3, <1>4, <1>5, <1>7, <1>8, <1>9, <1>11, <1>13, <1>14
     DEF Finish, Finished, Logged, CandidateName
<1>16. PICK x : x = task'
  OBVIOUS
<1>17. /\ x \in Task /\ x.pc = "correct" /\ x.at = u /\ x.revision = t.revision
       /\ x.fit = t.fit /\ x.candidate = e
  <2>1. NoTake \in Take
    BY DEF NoTake, Take
  <2>2. PICK j \in Nat \ {0} : j = i + 1
    OBVIOUS
  <2>3. x = [t EXCEPT !.pc = "correct", !.step = j, !.take = NoTake, !.candidate = e]
    BY <1>15, <1>16, <2>2
  <2>4. e \in Candidates
    BY <1>10, <1>12
  <2>5. QED
    BY <1>2, <2>1, <2>3, <2>4 DEF Task, Phase
<1>18. Len(g) > 0 /\ g[Len(g)].status = "running"
  BY <1>1, <1>2 DEF KnowsFit, Corrects, Runs
<1>19. LedgerOnDisk(m) /\ Grown(g, m) /\ Settled(m) /\ Len(m) = z
  BY <1>2, <1>3, <1>13, <1>18, LedgerEnded
<1>20. /\ c.name \in DOMAIN a /\ a[c.name] = c.take.id
       /\ Magnitude(c.take.off) <= Magnitude(s[r].take.off)
       /\ c.strategy = "accept" => c.name = Raw(r)
       /\ c.name[1] # "raw" => c.name[2] <= z
       /\ name \in DOMAIN a /\ a[name] = t.take.id
  BY <1>1, <1>2, <1>3, <1>4, <1>5, <1>7 DEF KnowsFit, Corrects
<1>21. Magnitude(e.take.off) <= Magnitude(s[r].take.off)
  <2>1. \A d \in Int : Magnitude(d) \in Int
    BY DEF Magnitude
  <2>2. p.take.off \in Int /\ c.take.off \in Int /\ s[r].take.off \in Int
    BY <1>2, <1>10 DEF Candidates, Take, SpokenOnDisk
  <2>3. PICK A \in Int, B \in Int, C \in Int :
           /\ A = Magnitude(p.take.off) /\ B = Magnitude(c.take.off)
           /\ C = Magnitude(s[r].take.off)
    BY <2>1, <2>2
  <2>4. B <= C /\ (A < B => A <= C)
    BY <1>20, <2>3
  <2>5. QED
    BY <1>12, <2>3, <2>4
<1>22. KnowsFit(x, a, s, k, f)
  <2>1. r \in DOMAIN k /\ k[r] = m
    BY <1>14 DEF With
  <2>2. e.name \in DOMAIN a /\ a[e.name] = e.take.id
    BY <1>10, <1>12, <1>20
  <2>3. e.strategy = "accept" => e.name = Raw(r)
    BY <1>6, <1>10, <1>12, <1>20
  <2>4. e.name[1] # "raw" => e.name[2] <= z
    BY <1>6, <1>10, <1>12, <1>20
  <2>5. x.pc \in Corrects /\ x.pc \notin Runs /\ x.pc \notin {"produce", "finish", "certify"}
    BY <1>17 DEF Corrects, Runs
  <2>6. x.revision[x.at] = r /\ x.candidate = e
    BY <1>2, <1>17
  <2>7. QED
    BY <1>19, <1>21, <2>1, <2>2, <2>3, <2>4, <2>5, <2>6 DEF KnowsFit
<1>23. /\ r \in DOMAIN result[u] /\ (r \in DOMAIN ledger[u] => Grown(ledger[u][r], m))
       /\ KnowsFit(x, audio[u], result[u], k, fits[u]) /\ k = With(ledger[u], r, m)
  BY <1>2, <1>14, <1>19, <1>22
<1>24. audio' = audio /\ fits' = fits /\ result' = result /\ history' = history /\ takes' = takes
  BY <1>15 DEF speechFiles
<1>25. t.pc \in Fits /\ x.pc \in Fits
  BY <1>1, <1>2, <1>17 DEF Fits
<1>26. QED
  BY <1>2, <1>15, <1>16, <1>17, <1>19, <1>23, <1>24, <1>25, LoggedStep

LEMMA PublishFitStep ==
    ASSUME Core, PublishFit
    PROVE  Core'
<1>1. task.pc = "publish"
  BY DEF PublishFit, At
<1>2. PICK t, u, r, a, s, h, l, f, g :
         /\ t \in Task /\ u \in Utterance /\ r \in Nat
         /\ t = task /\ u = t.at /\ u = u0 /\ r = t.revision[u] /\ r = r0
         /\ a = audio[u] /\ s = result[u] /\ h = history[u] /\ l = ledger[u] /\ f = fits[u]
         /\ g = LedgerOf(u, r) /\ g = l[r] /\ LedgerOnDisk(g) /\ r \in DOMAIN l /\ r \in DOMAIN s
         /\ SpokenOnDisk(a, s, h) /\ FittedOnDisk(s, l, f) /\ KnowsFit(t, a, s, l, f)
  BY <1>1, CorrectionInHand DEF Corrects
<1> t \in Task /\ u \in Utterance /\ r \in Nat
  BY <1>2
<1>3. PICK c \in Candidates : c = t.candidate
  BY DEF Task
<1>4. PICK before : before = IF r \in DOMAIN f THEN f[r] ELSE << >>
  OBVIOUS
<1>5. before \in Seq(Fit) /\ \A n \in 1 .. Len(before) : HonestFit(before[n], r, s[r].take.off, g)
  <2>1. CASE r \in DOMAIN f
    BY <1>2, <1>4, <2>1 DEF FittedOnDisk
  <2>2. CASE r \notin DOMAIN f
    BY <1>4, <2>2
  <2>3. QED
    BY <2>1, <2>2
<1>6. PICK fit : fit = [name |-> c.name, take |-> c.take, rewritten |-> c.rewritten,
                        status |-> Verdict(c), attempts |-> g, proof |-> "none"]
  OBVIOUS
<1>7. fit \in Fit
  BY <1>2, <1>6 DEF Fit, Candidates, Verdict, LedgerOnDisk
<1>8. PICK y : y = Append(before, fit)
  OBVIOUS
<1>9. PICK n \in Nat : n = Len(before)
  BY <1>5
<1>10. /\ y \in Seq(Fit) /\ Len(y) = n + 1 /\ y[n + 1] = fit
       /\ \A i \in 1 .. n : y[i] = before[i]
  BY <1>5, <1>7, <1>8, <1>9
<1>11. /\ Magnitude(c.take.off) <= Magnitude(s[r].take.off)
       /\ c.strategy = "accept" => c.name = Raw(r)
       /\ c.name \in DOMAIN a /\ a[c.name] = c.take.id /\ Settled(g)
  BY <1>1, <1>2, <1>3 DEF KnowsFit, Corrects, Runs
<1>12. HonestFit(fit, r, s[r].take.off, g)
  <2>1. PICK d \in Int : d = c.take.off
    BY DEF Candidates, Take
  <2>2. PICK b \in Int : b = Magnitude(d)
    BY DEF Magnitude
  <2>3. fit.status = "unresolved" <=> b > HardTolerance
    BY <1>6, <2>1, <2>2 DEF Verdict, WithinHard
  <2>4. /\ fit.status \in {"accepted", "corrected"} => Satisfied(d) /\ ~c.rewritten
        /\ fit.status = "accepted" => c.strategy = "accept"
    BY <1>6, <2>1 DEF Verdict, Satisfied
  <2>5. /\ fit.take = c.take /\ fit.name = c.name /\ fit.rewritten = c.rewritten
        /\ fit.attempts = g
    BY <1>6
  <2>6. Len(g) <= Len(g)
    BY <1>2 DEF LedgerOnDisk
  <2>7. QED
    BY <1>11, <2>1, <2>2, <2>3, <2>4, <2>5, <2>6 DEF HonestFit
<1>13. \A i \in 1 .. Len(y) : HonestFit(y[i], r, s[r].take.off, g)
  <2>1. \A i \in 1 .. n : HonestFit(y[i], r, s[r].take.off, g)
    BY <1>5, <1>9, <1>10
  <2>2. HonestFit(y[n + 1], r, s[r].take.off, g)
    BY <1>10, <1>12
  <2>3. \A i \in 1 .. Len(y) : i \in 1 .. n \/ i = n + 1
    BY <1>10
  <2>4. QED
    BY <2>1, <2>2, <2>3
<1>14. PICK w : w = With(f, r, y)
  OBVIOUS
<1>15. /\ DOMAIN w = DOMAIN f \cup {r} /\ w[r] = y
       /\ \A q \in DOMAIN f : q # r => w[q] = f[q]
  BY <1>14 DEF With
<1>16. FittedOnDisk(s, l, w)
  <2>1. ASSUME NEW q \in DOMAIN w
        PROVE  /\ w[q] \in Seq(Fit)
               /\ \A i \in 1 .. Len(w[q]) : HonestFit(w[q][i], q, s[q].take.off, l[q])
    <3>1. CASE q = r
      BY <1>2, <1>10, <1>13, <1>15, <3>1
    <3>2. CASE q # r
      BY <1>2, <1>15, <3>2 DEF FittedOnDisk
    <3>3. QED
      BY <3>1, <3>2
  <2>2. DOMAIN l \subseteq DOMAIN s /\ DOMAIN w \subseteq DOMAIN l
        /\ \A q \in DOMAIN l : LedgerOnDisk(l[q])
    BY <1>2, <1>15 DEF FittedOnDisk
  <2>3. QED
    BY <2>1, <2>2 DEF FittedOnDisk
<1>17. /\ fits' = [fits EXCEPT ![u] = w]
       /\ task' = [t EXCEPT !.pc = "certify", !.candidate = NoCandidate]
       /\ UNCHANGED << speechFiles, ledger, takes >>
  BY <1>2, <1>3, <1>4, <1>6, <1>8, <1>14 DEF PublishFit
<1>18. PICK x : x = task'
  OBVIOUS
<1>19. /\ x \in Task /\ x.pc = "certify" /\ x.at = u /\ x.revision = t.revision
       /\ x.fit = t.fit
  <2>1. NoCandidate \in Candidates
    BY IdleTask DEF Idle, Task
  <2>2. x = [t EXCEPT !.pc = "certify", !.candidate = NoCandidate]
    BY <1>17, <1>18
  <2>3. QED
    BY <1>2, <2>1, <2>2 DEF Task, Phase
<1>20. KnowsFit(x, a, s, l, w)
  <2>1. r \in DOMAIN w /\ Judged(a, w, r, Len(w[r]))
    BY <1>6, <1>10, <1>11, <1>15 DEF Judged
  <2>2. x.pc \notin Corrects /\ x.pc \notin Runs /\ x.pc \notin {"produce", "finish"}
    BY <1>19 DEF Corrects, Runs
  <2>3. x.revision[x.at] = r
    BY <1>2, <1>19
  <2>4. QED
    BY <2>1, <2>2, <2>3 DEF KnowsFit
<1>21. /\ result' = result /\ history' = history /\ takes' \in Nat
       /\ ledger' = [ledger EXCEPT ![u] = l] /\ audio' = [audio EXCEPT ![u] = a]
  BY <1>2, <1>17 DEF Core, SpeechTypeOK, speechFiles
<1>22. t.pc \in Fits /\ x.pc \in Fits
  BY <1>1, <1>2, <1>19 DEF Fits
<1>23. SpokenOnDisk(a, result[u], history[u]) /\ FittedOnDisk(result[u], l, w)
       /\ KnowsFit(x, a, result[u], l, w)
  BY <1>2, <1>16, <1>20
<1>24. QED
  BY <1>2, <1>17, <1>18, <1>19, <1>21, <1>22, <1>23, FitStep

\* Only the proofs of fits have changed, from f to w.
Proves(f, w) ==
    /\ DOMAIN w = DOMAIN f
    /\ \A r \in DOMAIN f :
          /\ w[r] \in Seq(Fit) /\ Len(w[r]) = Len(f[r])
          /\ \A n \in 1 .. Len(f[r]) :
                /\ w[r][n].name = f[r][n].name /\ w[r][n].take = f[r][n].take
                /\ w[r][n].rewritten = f[r][n].rewritten /\ w[r][n].status = f[r][n].status
                /\ w[r][n].attempts = f[r][n].attempts

LEMMA FitsProven ==
    ASSUME NEW s, NEW z, NEW l, NEW f, FittedOnDisk(s, l, f), NEW w, Proves(f, w),
           DOMAIN z = DOMAIN s, \A r \in DOMAIN s : z[r].take = s[r].take
    PROVE  FittedOnDisk(z, l, w)
<1>1. ASSUME NEW r \in DOMAIN w
      PROVE  /\ w[r] \in Seq(Fit)
             /\ \A n \in 1 .. Len(w[r]) : HonestFit(w[r][n], r, z[r].take.off, l[r])
  <2>1. r \in DOMAIN f /\ r \in DOMAIN s /\ z[r].take = s[r].take
    BY DEF Proves, FittedOnDisk
  <2>2. ASSUME NEW n \in 1 .. Len(w[r])
        PROVE  HonestFit(w[r][n], r, z[r].take.off, l[r])
    <3>1. PICK x, y : x = f[r][n] /\ y = w[r][n]
      OBVIOUS
    <3>2. n \in 1 .. Len(f[r])
      BY <2>1 DEF Proves
    <3>3. /\ y.name = x.name /\ y.take = x.take /\ y.rewritten = x.rewritten
          /\ y.status = x.status /\ y.attempts = x.attempts
      BY <2>1, <3>1, <3>2 DEF Proves
    <3>4. HonestFit(x, r, s[r].take.off, l[r])
      BY <2>1, <3>1, <3>2 DEF FittedOnDisk
    <3>5. HonestFit(y, r, s[r].take.off, l[r])
      BY <3>3, <3>4 DEF HonestFit
    <3>6. QED
      BY <2>1, <3>1, <3>5
  <2>3. QED
    BY <2>1, <2>2 DEF Proves
<1>2. /\ DOMAIN l \subseteq DOMAIN z /\ DOMAIN w \subseteq DOMAIN l
      /\ \A r \in DOMAIN l : LedgerOnDisk(l[r])
  BY DEF Proves, FittedOnDisk
<1>3. QED
  BY <1>1, <1>2 DEF FittedOnDisk

LEMMA ProveFitStep ==
    ASSUME Core, ProveFit
    PROVE  Core'
<1>1. task.pc = "certify"
  BY DEF ProveFit, At
<1>2. PICK t, u, r, a, s, h, l, f :
         /\ t \in Task /\ u \in Utterance /\ r \in Nat
         /\ t = task /\ u = t.at /\ u = u0 /\ r = t.revision[u] /\ r = r0
         /\ a = audio[u] /\ s = result[u] /\ h = history[u] /\ l = ledger[u] /\ f = fits[u]
         /\ SpokenOnDisk(a, s, h) /\ FittedOnDisk(s, l, f) /\ KnowsFit(t, a, s, l, f)
         /\ \A v \in Utterance : Chosen(result[v], t.revision[v])
         /\ \A v \in Utterance : v < u => Judged(audio[v], fits[v], t.revision[v], t.fit[v])
  BY <1>1, FitInHand DEF Fits
<1> t \in Task /\ u \in Utterance /\ r \in Nat
  BY <1>2
<1>3. r \in DOMAIN f /\ Judged(a, f, r, Len(f[r]))
  BY <1>1, <1>2 DEF KnowsFit
<1>4. PICK y \in Seq(Fit) : y = f[r]
  BY <1>2, <1>3 DEF FittedOnDisk
<1>5. PICK n \in Nat : n = Len(y)
  OBVIOUS
<1>6. n \in 1 .. n /\ a[y[n].name] = y[n].take.id
  BY <1>3, <1>4, <1>5 DEF Judged
<1>7. PICK fit \in Fit : fit = y[n]
  BY <1>5, <1>6
<1>8. PICK e : e = [fit EXCEPT !.proof = "completed"]
  OBVIOUS
<1>9. /\ e \in Fit /\ e.name = fit.name /\ e.take = fit.take /\ e.rewritten = fit.rewritten
      /\ e.status = fit.status /\ e.attempts = fit.attempts
  BY <1>8 DEF Fit
<1>10. PICK z : z = [y EXCEPT ![n] = e]
  OBVIOUS
<1>11. /\ z \in Seq(Fit) /\ Len(z) = n /\ z[n] = e
       /\ \A i \in 1 .. n : i # n => z[i] = y[i]
  BY <1>5, <1>6, <1>9, <1>10
<1>12. PICK w : w = [f EXCEPT ![r] = z]
  OBVIOUS
<1>13. DOMAIN w = DOMAIN f /\ w[r] = z /\ \A q \in DOMAIN f : q # r => w[q] = f[q]
  BY <1>3, <1>12
<1>14. Proves(f, w)
  <2>1. ASSUME NEW q \in DOMAIN f
        PROVE  /\ w[q] \in Seq(Fit) /\ Len(w[q]) = Len(f[q])
               /\ \A i \in 1 .. Len(f[q]) :
                     /\ w[q][i].name = f[q][i].name /\ w[q][i].take = f[q][i].take
                     /\ w[q][i].rewritten = f[q][i].rewritten /\ w[q][i].status = f[q][i].status
                     /\ w[q][i].attempts = f[q][i].attempts
    <3>1. CASE q = r
      BY <1>4, <1>5, <1>7, <1>9, <1>11, <1>13, <3>1
    <3>2. CASE q # r
      BY <1>2, <1>13, <3>2 DEF FittedOnDisk
    <3>3. QED
      BY <3>1, <3>2
  <2>2. QED
    BY <1>13, <2>1 DEF Proves
<1>15. FittedOnDisk(s, l, w)
  BY <1>2, <1>14, FitsProven
<1>16. Judged(a, w, r, n)
  BY <1>3, <1>6, <1>7, <1>9, <1>11, <1>13 DEF Judged
<1>17. /\ fits' = [fits EXCEPT ![u] = w] /\ task' = Fitted(n)
       /\ UNCHANGED << audio, result, history, ledger, takes >>
  BY <1>2, <1>4, <1>5, <1>7, <1>8, <1>10, <1>12 DEF ProveFit, speechFiles
<1>18. PICK x : x = Fitted(n)
  OBVIOUS
<1>19. /\ x \in Task /\ task' = x /\ x.revision = t.revision /\ x.fit = [t.fit EXCEPT ![u] = n]
       /\ IF u < NUtterances THEN x.pc = "fit" /\ x.at = u + 1 ELSE x.pc = "deliver"
  BY <1>2, <1>17, <1>18, FittedTask
<1>20. /\ fits' = [v \in Utterance |-> fits'[v]] /\ fits'[u] = w
       /\ \A v \in Utterance : v # u => fits'[v] = fits[v]
       /\ audio' = audio /\ result' = result /\ history' = history /\ ledger' = ledger
       /\ takes' = takes
  BY <1>17 DEF Core, SpeechTypeOK
<1>21. OnDisk'
  BY <1>2, <1>15, <1>20, UtteranceChanged DEF Core
<1>22. PICK A, S, H, L, F : A = audio' /\ S = result' /\ H = history' /\ L = ledger' /\ F = fits'
  OBVIOUS
<1>23. /\ \A v \in Utterance : Chosen(S[v], t.revision[v])
       /\ Judged(A[u], F[u], t.revision[u], n)
  BY <1>2, <1>16, <1>20, <1>22
<1>24. ASSUME NEW v \in Utterance, v < u
       PROVE  Judged(A[v], F[v], t.revision[v], t.fit[v])
  <2>1. v # u
    BY <1>24 DEF Utterance
  <2>2. A[v] = audio[v] /\ F[v] = fits[v]
    BY <1>20, <1>22, <2>1
  <2>3. QED
    BY <1>2, <1>24, <2>2
<1>25. Knows(x, A, S, H, L, F)
  BY <1>2, <1>19, <1>23, <1>24, FittedKnows
<1>26. Knows(x, audio', result', history', ledger', fits')
  BY <1>22, <1>25
<1>27. /\ audio' = [v \in Utterance |-> audio'[v]] /\ result' = [v \in Utterance |-> result'[v]]
       /\ history' \in [Utterance -> Seq(Attempt)]
       /\ ledger' = [v \in Utterance |-> ledger'[v]] /\ takes' \in Nat
  BY <1>20 DEF Core, SpeechTypeOK
<1>28. QED
  BY <1>19, <1>20, <1>21, <1>26, <1>27, CoreAgain

-----------------------------------------------------------------------------
(* What happens to the stage.                                               *)

LEMMA RetryStep ==
    ASSUME Core, NEW U, RetrySpeech(U)
    PROVE  Core'
<1>1. /\ audio' = audio /\ history' = history /\ ledger' = ledger /\ takes' = takes
      /\ task' = task /\ task.pc = "idle"
  BY DEF RetrySpeech, At
<1>2. ASSUME NEW u \in Utterance
      PROVE  /\ SpokenOnDisk(audio[u], result'[u], history[u])
             /\ FittedOnDisk(result'[u], ledger[u], fits'[u])
  <2>1. PICK a, s, h, l, f : /\ a = audio[u] /\ s = result[u] /\ h = history[u]
                             /\ l = ledger[u] /\ f = fits[u]
    OBVIOUS
  <2>2. SpokenOnDisk(a, s, h) /\ FittedOnDisk(s, l, f)
    BY <2>1 DEF Core, OnDisk
  <2>3. CASE u \notin U
    <3>1. result'[u] = s /\ fits'[u] = f
      BY <2>1, <2>3 DEF RetrySpeech
    <3>2. QED
      BY <2>1, <2>2, <3>1
  <2>4. CASE u \in U
    <3>1. PICK z : z = [r \in DOMAIN s |-> [s[r] EXCEPT !.status = "invalid"]]
      OBVIOUS
    <3>2. PICK w : w = [r \in DOMAIN f |->
                          [n \in DOMAIN f[r] |->
                             [f[r][n] EXCEPT !.proof = IF @ = "completed" THEN "invalid" ELSE @]]]
      OBVIOUS
    <3>3. result'[u] = z /\ fits'[u] = w
      BY <2>1, <2>4, <3>1, <3>2 DEF RetrySpeech
    <3>4. DOMAIN z = DOMAIN s
      BY <3>1
    <3>5. ASSUME NEW r \in DOMAIN s
          PROVE  z[r] = [status |-> "invalid", take |-> s[r].take, attempt |-> s[r].attempt]
      <4>1. s[r] = [status |-> s[r].status, take |-> s[r].take, attempt |-> s[r].attempt]
        BY <2>2 DEF SpokenOnDisk
      <4>2. QED
        BY <3>1, <4>1
    <3>6. \A r \in DOMAIN s : z[r].status = "invalid" /\ z[r].take = s[r].take
                              /\ ~Unrecorded(z, h, r)
      <4>1. ASSUME NEW r \in DOMAIN s
            PROVE  z[r].status = "invalid" /\ z[r].take = s[r].take
        <5>1. PICK take, attempt : take = s[r].take /\ attempt = s[r].attempt
          OBVIOUS
        <5>2. z[r] = [status |-> "invalid", take |-> take, attempt |-> attempt]
          BY <3>5, <5>1
        <5>3. z[r].status = "invalid" /\ z[r].take = take
          BY <5>2
        <5>4. QED
          BY <5>1, <5>3
      <4>2. QED
        BY <4>1 DEF Unrecorded
    <3>7. SpokenOnDisk(a, z, h)
      BY <2>2, <3>4, <3>5, <3>6 DEF SpokenOnDisk
    <3>8. Proves(f, w)
      <4>1. ASSUME NEW r \in DOMAIN f
            PROVE  /\ w[r] \in Seq(Fit) /\ Len(w[r]) = Len(f[r])
                   /\ \A n \in 1 .. Len(f[r]) :
                         /\ w[r][n].name = f[r][n].name /\ w[r][n].take = f[r][n].take
                         /\ w[r][n].rewritten = f[r][n].rewritten
                         /\ w[r][n].status = f[r][n].status
                         /\ w[r][n].attempts = f[r][n].attempts
        <5>1. PICK y \in Seq(Fit) : y = f[r]
          BY <2>2 DEF FittedOnDisk
        <5>2. PICK k \in Nat : k = Len(y) /\ DOMAIN y = 1 .. k
          OBVIOUS
        <5>3. ASSUME NEW n \in 1 .. k
              PROVE  /\ w[r][n] \in Fit
                     /\ w[r][n].name = y[n].name /\ w[r][n].take = y[n].take
                     /\ w[r][n].rewritten = y[n].rewritten /\ w[r][n].status = y[n].status
                     /\ w[r][n].attempts = y[n].attempts
          <6>1. PICK fit \in Fit : fit = y[n]
            BY <5>2
          <6>2. PICK proof \in {"none", "completed", "invalid"} :
                   proof = IF fit.proof = "completed" THEN "invalid" ELSE fit.proof
            BY DEF Fit
          <6>3. w[r][n] = [fit EXCEPT !.proof = proof]
            BY <3>2, <5>1, <5>2, <6>1, <6>2
          <6>4. QED
            BY <6>1, <6>3 DEF Fit
        <5>4. w[r] = [n \in 1 .. k |-> w[r][n]]
          BY <3>2, <5>1, <5>2
        <5>5. w[r] \in Seq(Fit) /\ Len(w[r]) = k
          BY <5>3, <5>4
        <5>6. QED
          BY <5>1, <5>2, <5>3, <5>5
      <4>2. QED
        BY <3>2, <4>1 DEF Proves
    <3>9. FittedOnDisk(z, l, w)
      BY <2>2, <3>4, <3>6, <3>8, FitsProven
    <3>10. QED
      BY <2>1, <3>3, <3>7, <3>9
  <2>5. QED
    BY <2>3, <2>4
<1>3. OnDisk'
  BY <1>1, <1>2 DEF OnDisk
<1>4. PICK x \in Task : x = task
  BY DEF Core, SpeechTypeOK
<1>5. Knows(x, audio', result', history', ledger', fits')
  BY <1>1, <1>4 DEF Knows, Speaks, Fits
<1>6. /\ result' = [v \in Utterance |-> result'[v]] /\ fits' = [v \in Utterance |-> fits'[v]]
      /\ audio' = [v \in Utterance |-> audio'[v]] /\ ledger' = [v \in Utterance |-> ledger'[v]]
      /\ history' \in [Utterance -> Seq(Attempt)] /\ takes' \in Nat
  BY <1>1 DEF RetrySpeech, Core, SpeechTypeOK
<1>7. QED
  BY <1>1, <1>3, <1>4, <1>5, <1>6, CoreAgain

-----------------------------------------------------------------------------
(* The invariant.                                                           *)

LEMMA SpeechInit == Init => SpeechInductive
<1> SUFFICES ASSUME Init PROVE SpeechInductive
  OBVIOUS
<1>1. DOMAIN << >> = {} /\ << >> \in Seq(Attempt) /\ Len(<< >>) = 0
  OBVIOUS
<1>2. /\ audio = [u \in Utterance |-> << >>] /\ result = [u \in Utterance |-> << >>]
      /\ history = [u \in Utterance |-> << >>] /\ ledger = [u \in Utterance |-> << >>]
      /\ fits = [u \in Utterance |-> << >>] /\ task = Idle /\ takes = 0
  BY DEF Init
<1>3. SpeechTypeOK
  BY <1>1, <1>2, IdleTask DEF SpeechTypeOK
<1>4. SpokenOnDisk(<< >>, << >>, << >>) /\ FittedOnDisk(<< >>, << >>, << >>)
  BY <1>1 DEF SpokenOnDisk, FittedOnDisk
<1>5. OnDisk
  BY <1>2, <1>4 DEF OnDisk
<1>6. InMemory
  BY <1>2, IdleTask DEF InMemory, Knows, Speaks, Fits
<1>7. NumberedUpTo(0)
  BY <1>1, <1>2 DEF NumberedUpTo
<1>8. QED
  BY <1>3, <1>5, <1>6, <1>7 DEF Core, SpeechInductive

\* Only speaking and producing write audio.
LEMMA AudioUntouched ==
    ASSUME NEW k \in Nat, NumberedUpTo(k), audio' = audio
    PROVE  NumberedUpTo(k)'
  BY DEF NumberedUpTo

LEMMA CoreStep ==
    ASSUME Core, NEW k \in Nat, NumberedUpTo(k), [Next]_vars
    PROVE  /\ Core' /\ (NumberedUpTo(k)' \/ NumberedUpTo(k + 1)')
           /\ \A u \in Utterance : \A n \in DOMAIN audio[u] :
                 n[1] = "raw" => audio'[u][n] = audio[u][n]
<1>1. CASE Start \/ StartForced
  <2>1. audio' = audio
    BY <1>1 DEF Start, StartForced, speechFiles
  <2>2. QED
    BY <1>1, <2>1, StartStep, AudioUntouched
<1>2. CASE TakeSpoken
  <2>1. audio' = audio
    BY <1>2 DEF TakeSpoken
  <2>2. QED
    BY <1>2, <2>1, TakeSpokenStep, AudioUntouched
<1>3. CASE TakeUnspoken
  <2>1. audio' = audio
    BY <1>3 DEF TakeUnspoken, speechFiles
  <2>2. QED
    BY <1>3, <2>1, TakeUnspokenStep, AudioUntouched
<1>4. CASE Speak
  BY <1>4, SpeakStep
<1>5. CASE SpeakFails
  <2>1. audio' = audio
    BY <1>5 DEF SpeakFails
  <2>2. QED
    BY <1>5, <2>1, SpeakFailsStep, AudioUntouched
<1>6. CASE ProveSpoken
  <2>1. audio' = audio
    BY <1>6 DEF ProveSpoken
  <2>2. QED
    BY <1>6, <2>1, ProveSpokenStep, AudioUntouched
<1>7. CASE RecordSpoken
  <2>1. audio' = audio
    BY <1>7 DEF RecordSpoken
  <2>2. QED
    BY <1>7, <2>1, RecordSpokenStep, AudioUntouched
<1>8. CASE TakeFit \/ OpenFit
  <2>1. audio' = audio
    BY <1>8 DEF TakeFit, OpenFit, speechFiles
  <2>2. Core'
    BY <1>8, TakeFitStep, OpenFitStep
  <2>3. QED
    BY <2>1, <2>2, AudioUntouched
<1>9. CASE Accept \/ Begin
  <2>1. audio' = audio
    BY <1>9 DEF Accept, Begin, speechFiles
  <2>2. Core'
    BY <1>9, AcceptStep, BeginStep
  <2>3. QED
    BY <2>1, <2>2, AudioUntouched
<1>10. CASE Produce
  BY <1>10, ProduceStep
<1>11. CASE Finish
  <2>1. audio' = audio
    BY <1>11 DEF Finish, speechFiles
  <2>2. QED
    BY <1>11, <2>1, FinishStep, AudioUntouched
<1>12. CASE Rewrite \/ TacticFails
  <2>1. audio' = audio
    BY <1>12 DEF Rewrite, TacticFails, speechFiles
  <2>2. QED
    BY <1>12, <2>1, EndedStep, AudioUntouched
<1>13. CASE Conclude
  <2>1. audio' = audio
    BY <1>13 DEF Conclude, speechFiles
  <2>2. QED
    BY <1>13, <2>1, ConcludeStep, AudioUntouched
<1>14. CASE PublishFit \/ ProveFit
  <2>1. audio' = audio
    BY <1>14 DEF PublishFit, ProveFit, speechFiles
  <2>2. Core'
    BY <1>14, PublishFitStep, ProveFitStep
  <2>3. QED
    BY <2>1, <2>2, AudioUntouched
<1>15. CASE Die \/ Deliver
  <2>1. audio' = audio
    BY <1>15 DEF Die, Deliver, speechFiles
  <2>2. QED
    BY <1>15, <2>1, StopStep, AudioUntouched
<1>16. CASE \E U \in SUBSET Utterance \ {{}} : RetrySpeech(U)
  <2>1. PICK U : RetrySpeech(U)
    BY <1>16
  <2>2. audio' = audio
    BY <2>1 DEF RetrySpeech
  <2>3. QED
    BY <2>1, <2>2, RetryStep, AudioUntouched
<1>17. CASE UNCHANGED vars
  <2>1. /\ audio' = audio /\ result' = result /\ history' = history /\ ledger' = ledger
        /\ fits' = fits /\ task' = task /\ takes' = takes
    BY <1>17 DEF vars
  <2>2. SpeechTypeOK'
    BY <2>1 DEF Core, SpeechTypeOK
  <2>3. OnDisk'
    BY <2>1 DEF Core, OnDisk
  <2>4. InMemory'
    BY <2>1 DEF Core, InMemory
  <2>5. QED
    BY <2>1, <2>2, <2>3, <2>4, AudioUntouched DEF Core
<1>18. QED
  BY <1>1, <1>2, <1>3, <1>4, <1>5, <1>6, <1>7, <1>8, <1>9, <1>10, <1>11, <1>12, <1>13, <1>14,
     <1>15, <1>16, <1>17 DEF Next, Run, Speaking, FittingStep, Correcting

LEMMA SpeechStep ==
    ASSUME SpeechInductive, [Next]_vars
    PROVE  SpeechInductive'
<1>1. PICK k \in Nat : NumberedUpTo(k)
  BY DEF SpeechInductive
<1>2. Core' /\ (NumberedUpTo(k)' \/ NumberedUpTo(k + 1)')
  BY <1>1, CoreStep DEF SpeechInductive
<1>3. PICK j \in Nat : NumberedUpTo(j)'
  <2>1. PICK i \in Nat : i = k + 1
    OBVIOUS
  <2>2. NumberedUpTo(k)' \/ NumberedUpTo(i)'
    BY <1>2, <2>1
  <2>3. QED
    BY <2>2
<1>4. QED
  BY <1>2, <1>3 DEF SpeechInductive

LEMMA SpeechInvariance == Spec => []SpeechInductive
  BY SpeechInit, SpeechStep, PTL DEF Spec

-----------------------------------------------------------------------------
(* What follows from it.                                                    *)

\* synthesize.py: a take that a process proved and died before recording is
\* recorded once, by whoever finds it, before anything else is spoken.
THEOREM OnRecordTheorem == Spec => []TakesAreOnRecord
<1>1. ASSUME Core
      PROVE  TakesAreOnRecord
  <2>1. ASSUME NEW u \in Utterance
        PROVE  /\ \A r \in Verified(u) :
                     \/ result[u][r].attempt = Len(history[u]) + 1
                     \/ /\ result[u][r].attempt <= Len(history[u])
                        /\ history[u][result[u][r].attempt] =
                              [status |-> "completed", revision |-> r]
               /\ \A i, j \in DOMAIN history[u] :
                     /\ history[u][i].status = "completed"
                     /\ history[u][i] = history[u][j]
                     => i = j
    <3>1. PICK a, s, h : a = audio[u] /\ s = result[u] /\ h = history[u] /\ h \in Seq(Attempt)
      BY <1>1 DEF Core, SpeechTypeOK
    <3>2. SpokenOnDisk(a, s, h)
      BY <1>1, <3>1 DEF Core, OnDisk
    <3>3. PICK n \in Nat : n = Len(h) /\ DOMAIN h = 1 .. n
      BY <3>1
    <3>4. ASSUME NEW r \in Verified(u)
          PROVE  \/ s[r].attempt = Len(h) + 1
                 \/ /\ s[r].attempt <= Len(h)
                    /\ h[s[r].attempt] = [status |-> "completed", revision |-> r]
      <4>1. r \in DOMAIN s /\ s[r].status = "completed"
        BY <1>1, <3>1, VerifiedAre DEF Core
      <4>2. PICK i \in 1 .. n + 1 : i = s[r].attempt
        BY <3>2, <3>3, <4>1 DEF SpokenOnDisk
      <4>3. i <= n => h[i] = [status |-> "completed", revision |-> r]
        BY <3>2, <3>3, <4>1, <4>2 DEF SpokenOnDisk
      <4>4. i = n + 1 \/ i <= n
        OBVIOUS
      <4>5. QED
        BY <3>3, <4>2, <4>3, <4>4
    <3>5. \A i, j \in DOMAIN h : h[i].status = "completed" /\ h[i] = h[j] => i = j
      BY <3>2, <3>3 DEF SpokenOnDisk
    <3>6. QED
      BY <3>1, <3>4, <3>5
  <2>2. QED
    BY <2>1 DEF TakesAreOnRecord
<1>2. SpeechInductive => TakesAreOnRecord
  BY <1>1 DEF SpeechInductive
<1>3. QED
  BY <1>2, SpeechInvariance, PTL

\* synthesize.py: every call takes the number above those of all wav files there
\* are, so every result, a replaced or invalidated one too, keeps its audio.
THEOREM KeptAudioTheorem == Spec => []TakesKeepTheirAudio
<1>1. Core => TakesKeepTheirAudio
  BY DEF Core, OnDisk, SpokenOnDisk, TakesKeepTheirAudio
<1>2. SpeechInductive => TakesKeepTheirAudio
  BY <1>1 DEF SpeechInductive
<1>3. QED
  BY <1>2, SpeechInvariance, PTL

\* duration.py: max_total_attempts bounds the corrections of a take over all the
\* processes that die while they fit it.
THEOREM BoundTheorem == Spec => []CorrectionsAreBounded
<1>1. ASSUME Core, NEW u \in Utterance, NEW r \in DOMAIN ledger[u]
      PROVE  Cardinality({i \in DOMAIN ledger[u][r] : ledger[u][r][i].tactic # "accept"})
                <= MaxTotalAttempts
  <2>1. LedgerOnDisk(ledger[u][r])
    BY <1>1 DEF Core, OnDisk, FittedOnDisk
  <2>2. QED
    BY <2>1 DEF LedgerOnDisk, Corrections
<1>2. SpeechInductive => CorrectionsAreBounded
  BY <1>1 DEF SpeechInductive, CorrectionsAreBounded
<1>3. QED
  BY <1>2, SpeechInvariance, PTL

LEMMA PrefixIs ==
    ASSUME NEW h \in Seq(Correction), NEW g \in Seq(Correction), Len(h) <= Len(g),
           \A i \in 1 .. Len(h) : h[i] = g[i]
    PROVE  h = SubSeq(g, 1, Len(h))
<1>1. Len(h) \in Nat /\ Len(g) \in Nat
  OBVIOUS
<1>2. PICK s : s = SubSeq(g, 1, Len(h))
  OBVIOUS
<1>3. s = [i \in 1 .. Len(h) |-> g[i]]
  BY <1>1, <1>2
<1>4. h = [i \in 1 .. Len(h) |-> h[i]]
  OBVIOUS
<1>5. QED
  BY <1>2, <1>3, <1>4, Zenon

\* duration.py: what a published fit says of its audio is true, and its ledger is
\* that of its take with the corrections of dead processes ended.
THEOREM HonestyTheorem == Spec => []FitsAreHonest
<1>1. ASSUME Core, NEW u \in Utterance, NEW r \in DOMAIN fits[u], NEW n \in DOMAIN fits[u][r]
      PROVE  LET fit == fits[u][r][n]
                 log == fit.attempts
             IN
             /\ Magnitude(fit.take.off) <= Magnitude(result[u][r].take.off)
             /\ fit.status = "unresolved" <=> Magnitude(fit.take.off) > HardTolerance
             /\ fit.status \in {"accepted", "corrected"} =>
                   Satisfied(fit.take.off) /\ ~fit.rewritten
             /\ fit.status = "accepted" => fit.name = Raw(r)
             /\ \A i \in DOMAIN log : log[i].status # "running"
             /\ log = SubSeq(ledger[u][r], 1, Len(log))
  <2>1. PICK s, l, f : s = result[u] /\ l = ledger[u] /\ f = fits[u] /\ FittedOnDisk(s, l, f)
    BY <1>1 DEF Core, OnDisk
  <2>2. f[r] \in Seq(Fit) /\ r \in DOMAIN l
    BY <1>1, <2>1 DEF FittedOnDisk
  <2>3. PICK fit \in Fit : fit = f[r][n] /\ n \in 1 .. Len(f[r])
    BY <1>1, <2>1, <2>2
  <2>4. HonestFit(fit, r, s[r].take.off, l[r])
    BY <1>1, <2>1, <2>3 DEF FittedOnDisk
  <2>5. PICK log \in Seq(Correction), g \in Seq(Correction) : log = fit.attempts /\ g = l[r]
    BY <2>1, <2>2 DEF Fit, FittedOnDisk, LedgerOnDisk
  <2>6. Len(log) <= Len(g) /\ \A i \in 1 .. Len(log) : log[i] = g[i]
    BY <2>4, <2>5 DEF HonestFit
  <2>7. log = SubSeq(g, 1, Len(log))
    BY <2>6, PrefixIs
  <2>8. \A i \in DOMAIN log : log[i].status # "running"
    BY <2>4, <2>5 DEF HonestFit, Settled
  <2>9. /\ Magnitude(fit.take.off) <= Magnitude(s[r].take.off)
        /\ fit.status = "unresolved" <=> Magnitude(fit.take.off) > HardTolerance
        /\ fit.status \in {"accepted", "corrected"} =>
              Satisfied(fit.take.off) /\ ~fit.rewritten
        /\ fit.status = "accepted" => fit.name = Raw(r)
    BY <2>4 DEF HonestFit
  <2>10. QED
    BY <2>1, <2>3, <2>5, <2>7, <2>8, <2>9
<1>2. SpeechInductive => FitsAreHonest
  BY <1>1 DEF SpeechInductive, FitsAreHonest
<1>3. QED
  BY <1>2, SpeechInvariance, PTL

LEMMA ChosenIsNewest ==
    ASSUME NEW S, S \subseteq Nat, NEW r \in S, \A q \in S : q <= r
    PROVE  r = Newest(S)
<1>1. PICK m : m = Newest(S)
  OBVIOUS
<1>2. m \in S /\ \A q \in S : q <= m
  BY <1>1, NewestIsGreatest
<1>3. m \in Nat /\ r \in Nat /\ m <= r /\ r <= m
  BY <1>2
<1>4. QED
  BY <1>1, <1>3

\* synthesize.py: a stage that took takes and fits over from its predecessors
\* delivers the newest proven take of every utterance, and its fit was judged by
\* the audio that is there.
THEOREM DeliveryTheorem == Spec => DeliveredIsAsJudged
<1>1. ASSUME SpeechInductive, [Next]_vars, output' # output, output' # NoOutput,
             NEW u \in Utterance
      PROVE  /\ output'[u].revision = Newest(Verified(u)')
             /\ audio'[u][fits'[u][output'[u].revision][output'[u].fit].name] =
                   fits'[u][output'[u].revision][output'[u].fit].take.id
  <2>1. Deliver
    BY <1>1 DEF Next, Run, Speaking, FittingStep, Correcting, Start, StartForced, TakeSpoken,
       TakeUnspoken, Speak, SpeakFails, ProveSpoken, RecordSpoken, TakeFit, OpenFit, Accept, Begin,
       Produce, Finish, Rewrite, TacticFails, Conclude, PublishFit, ProveFit, Die, RetrySpeech, vars
  <2>2. PICK t \in Task : t = task /\ t.pc = "deliver"
    BY <1>1, <2>1 DEF Deliver, At, SpeechInductive, Core, SpeechTypeOK
  <2>3. /\ audio' = audio /\ result' = result /\ history' = history /\ fits' = fits
        /\ output' = [v \in Utterance |-> [revision |-> t.revision[v], fit |-> t.fit[v]]]
    BY <2>1, <2>2 DEF Deliver, speechFiles, fitFiles
  <2>4. PICK r, n : r = t.revision[u] /\ n = t.fit[u]
    OBVIOUS
  <2>5. output'[u].revision = r /\ output'[u].fit = n
    BY <2>3, <2>4
  <2>6. Chosen(result[u], r) /\ Judged(audio[u], fits[u], r, n)
    BY <1>1, <2>2, <2>4 DEF SpeechInductive, Core, InMemory, Knows
  <2>7. PICK V : V = Verified(u) /\ V = {q \in DOMAIN result[u] : result[u][q].status = "completed"}
    BY <1>1, VerifiedAre DEF SpeechInductive, Core
  <2>8. V \subseteq Nat /\ r \in V /\ \A q \in V : q <= r
    BY <1>1, <2>6, <2>7 DEF SpeechInductive, Core, OnDisk, SpokenOnDisk, Chosen
  <2>9. r = Newest(V)
    BY <2>8, ChosenIsNewest
  <2>10. V = Verified(u)'
    BY <2>3, <2>7 DEF Verified
  <2>11. QED
    BY <2>3, <2>5, <2>6, <2>9, <2>10 DEF Judged
<1>2. ASSUME SpeechInductive, [Next]_vars, output' # output, output' # NoOutput
      PROVE  AsJudged'
  BY <1>1, <1>2 DEF AsJudged, Intact
<1>3. QED
  BY <1>2, SpeechInvariance, PTL DEF Spec, DeliveredIsAsJudged

=============================================================================
