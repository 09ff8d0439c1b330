---------------------------- MODULE LocalizeProofs ----------------------------
(* Theorems about the translation stage on disk while at most one process     *)
(* executes it, for any number of batches, deaths, failed calls, retries and  *)
(* forced runs.                                                               *)
EXTENDS Localize, NumberedProofs, FiniteSetTheorems

USE LocalizeAssumption

\* What the lease is for.  (Workers has the executions that outlive theirs.)
OneAtATime == \A p, q \in Process : p = q

Record == [status : {"completed", "failed"}, result : Nat]
Phase == {"idle", "batch", "call", "write", "prove", "record", "publish", "return"}
Task ==
    [pc : Phase, forced : BOOLEAN, batch : 1 .. NBatches + 1,
     previous : Seq(Record), result : Nat, text : Text, paths : Text,
     name : Text \X Nat]
Troubles == {"deaths", "failures", "retries", "forced"}

LocalizeTypeOK ==
    /\ history \in [Batch -> Seq(Record)]
    /\ file = [b \in Batch |-> file[b]]
    /\ proof = [b \in Batch |-> proof[b]]
    /\ task \in [Process -> Task]
    /\ calls \in Nat
    /\ trouble \in [Troubles -> Nat]

\* A sidecar of the revision n of a batch proves x; none is newer than n.
Proves(s, n, x) == n \in DOMAIN s /\ s[n] = Proven(x)
Current(s, n, x) ==
    /\ Proves(s, n, x)
    /\ \A m \in DOMAIN s : s[m].status = "completed" => m <= n

\* Of one batch, its history h, files f and sidecars s.
BatchOnDisk(h, f, s) ==
    /\ \A n \in DOMAIN f : f[n] \in Nat
    /\ \A n \in DOMAIN s :
          /\ n \in DOMAIN f
          /\ s[n] = [status |-> s[n].status, of |-> s[n].of]
          /\ s[n].status = "completed" =>
                /\ n \in 1 .. Len(h) + 1
                /\ s[n].of = f[n]
                /\ n <= Len(h) => h[n] = Attempt("completed", f[n])

OnDisk == \A b \in Batch : BatchOnDisk(history[b], file[b], proof[b])

\* The localized files are what their names say, and there are only so many.
Aggregates ==
    /\ DOMAIN localized \subseteq Text \X Nat
    /\ IsFiniteSet(DOMAIN localized)
    /\ DOMAIN certificate \subseteq DOMAIN localized
    /\ \A name \in DOMAIN localized : localized[name] = name[1]
NumberedUpTo(k) == \A name \in DOMAIN localized : name[2] <= k

\* What the process at work knows: the batches it has done with are current,
\* the attempts it read are all there are, and where it writes nothing is proven.
InHand(t, h, f, s) ==
    /\ t.previous = h
    /\ t.pc \in {"call", "write", "prove"} =>
          \A n \in DOMAIN s : s[n].status = "completed" => n # Revision(t)
    /\ t.pc \in {"prove", "record"} => Revision(t) \in DOMAIN f /\ f[Revision(t)] = t.result
    /\ t.pc = "record" => Proves(s, Revision(t), t.result)
    /\ t.pc = "call" /\ ~t.forced => \A n \in DOMAIN s : s[n].status # "completed"

Done(t, f, s) ==
    \A b \in Batch : b < t.batch =>
        /\ Current(s[b], t.paths[b], t.text[b])
        /\ f[b][t.paths[b]] = t.text[b]

Knows(t, h, f, s, l) ==
    t.pc # "idle" =>
        /\ Done(t, f, s)
        /\ t.pc \in {"call", "write", "prove", "record"} =>
              /\ t.batch \in Batch
              /\ InHand(t, h[t.batch], f[t.batch], s[t.batch])
        /\ t.pc \in {"publish", "return"} =>
              /\ t.batch \notin Batch
              /\ t.name \in DOMAIN l
              /\ t.name[1] = t.text
InMemory == \A p \in Process : Knows(task[p], history, file, proof, localized)

\* The batches to be paid for: those without proof, but for the one whose call
\* has returned; and those a forced run has yet to translate again.
Paid(t) == t.pc \in {"write", "prove", "record"}
Owed ==
    {b \in Batch :
        /\ Verified(b) = {}
        /\ \A p \in Process : Paid(task[p]) => task[p].batch # b}
Ordered(t) ==
    IF t.pc = "idle" \/ ~t.forced THEN 0
    ELSE IF Paid(t) THEN NBatches - t.batch
    ELSE NBatches + 1 - t.batch
Budget == NBatches * (1 + trouble.forced + trouble.retries) + trouble.deaths

Frugal ==
    /\ calls + Cardinality(Owed) <= Budget
    /\ \A p \in Process : calls + Cardinality(Owed) + Ordered(task[p]) <= Budget

Core == LocalizeTypeOK /\ OnDisk /\ Aggregates /\ InMemory
LocalizeInductive == Core /\ Frugal /\ \E k \in Nat : NumberedUpTo(k)

-----------------------------------------------------------------------------
(* Helpers.                                                                 *)

LEMMA VerifiedAre ==
    ASSUME OnDisk, NEW b \in Batch
    PROVE  /\ Verified(b) = {n \in DOMAIN proof[b] : proof[b][n].status = "completed"}
           /\ \A n \in Verified(b) : n \in 1 .. Len(history[b]) + 1 /\ n \in DOMAIN file[b]
<1>1. BatchOnDisk(history[b], file[b], proof[b])
  BY DEF OnDisk
<1>2. ASSUME NEW n \in DOMAIN proof[b]
      PROVE  proof[b][n] = Proven(file[b][n]) <=> proof[b][n].status = "completed"
  <2>1. PICK e : e = proof[b][n] /\ e = [status |-> e.status, of |-> e.of]
    BY <1>1 DEF BatchOnDisk
  <2>2. e.status = "completed" => e.of = file[b][n]
    BY <1>1, <2>1 DEF BatchOnDisk
  <2>3. QED
    BY <2>1, <2>2 DEF Proven
<1>3. QED
  BY <1>1, <1>2 DEF Verified, BatchOnDisk

LEMMA NewestVerified ==
    ASSUME LocalizeTypeOK, OnDisk, NEW b \in Batch, Verified(b) # {}
    PROVE  /\ Newest(Verified(b)) \in Verified(b)
           /\ \A m \in Verified(b) : m <= Newest(Verified(b))
<1>1. history[b] \in Seq(Record)
  BY DEF LocalizeTypeOK
<1>2. PICK k \in Nat : k = Len(history[b]) + 1
  BY <1>1
<1>3. Verified(b) \in SUBSET Nat /\ \A n \in Verified(b) : n <= k
  BY <1>2, VerifiedAre
<1>4. QED
  BY <1>3, NewestIsGreatest

LEMMA GotoTask ==
    ASSUME OneAtATime, LocalizeTypeOK, NEW p \in Process, NEW x \in Task, Goto(p, x)
    PROVE  /\ task' \in [Process -> Task]
           /\ \A q \in Process : task'[q] = x
  BY DEF OneAtATime, LocalizeTypeOK, Goto

LEMMA StrikeTrouble ==
    ASSUME trouble \in [Troubles -> Nat], NEW kind \in Troubles, NEW bound, Strike(kind, bound)
    PROVE  /\ trouble' \in [Troubles -> Nat]
           /\ trouble'[kind] = trouble[kind] + 1
           /\ \A k \in Troubles : k # kind => trouble'[k] = trouble[k]
  BY DEF Strike

LEMMA IdleTask == Idle \in Task /\ Idle.pc = "idle"
<1>1. NoText \in Text /\ << >> \in Seq(Record) /\ 1 \in 1 .. NBatches + 1
  BY DEF NoText, Text, LocalizeAssumption
<1>2. QED
  BY <1>1 DEF Idle, Task, Phase, NoOutput

LEMMA BatchNumbers ==
    /\ \A b \in Batch : b + 1 \in 1 .. NBatches + 1
    /\ \A b \in 1 .. NBatches + 1 : b \notin Batch => b = NBatches + 1
    /\ \A b \in Batch : b < NBatches + 1
  BY DEF Batch

\* The process is done with one batch more.
PassOn(t, n, r) == [t EXCEPT !.pc = "batch", !.batch = t.batch + 1,
                             !.text[t.batch] = r, !.paths[t.batch] = n]

LEMMA PassedOn ==
    ASSUME NEW t \in Task, t.batch \in Batch, NEW r \in Nat, NEW n \in Nat,
           NEW x, x = PassOn(t, n, r)
    PROVE  /\ x \in Task /\ x.pc = "batch" /\ x.batch = t.batch + 1
           /\ x.forced = t.forced
           /\ x.text = [t.text EXCEPT ![t.batch] = r]
           /\ x.paths = [t.paths EXCEPT ![t.batch] = n]
<1>1. PICK m \in 1 .. NBatches + 1 : m = t.batch + 1
  BY BatchNumbers
<1> DEFINE text == [t.text EXCEPT ![t.batch] = r]
           paths == [t.paths EXCEPT ![t.batch] = n]
<1>2. x = [t EXCEPT !.pc = "batch", !.batch = m, !.text = text, !.paths = paths]
  BY <1>1 DEF PassOn
<1>3. text \in Text /\ paths \in Text
  BY DEF Task, Text
<1> HIDE DEF text, paths
<1>4. x \in Task /\ x.pc = "batch" /\ x.batch = m /\ x.forced = t.forced
  BY <1>2, <1>3 DEF Task, Phase
<1>5. /\ x.text = [t.text EXCEPT ![t.batch] = r]
      /\ x.paths = [t.paths EXCEPT ![t.batch] = n]
  BY <1>2, <1>3 DEF Task, text, paths
<1>6. QED
  BY <1>1, <1>4, <1>5

LEMMA DoneMore ==
    ASSUME NEW t \in Task, NEW x \in Task, NEW c \in Batch, t.batch = c, x.batch = c + 1,
           NEW r, NEW n,
           x.text = [t.text EXCEPT ![c] = r], x.paths = [t.paths EXCEPT ![c] = n],
           NEW f, NEW s, Done(t, f, s), Current(s[c], n, r), f[c][n] = r
    PROVE  Done(x, f, s)
<1>1. ASSUME NEW b \in Batch, b < x.batch
      PROVE  Current(s[b], x.paths[b], x.text[b]) /\ f[b][x.paths[b]] = x.text[b]
  <2>1. t.text \in Text /\ t.paths \in Text
    BY DEF Task
  <2>2. CASE b = c
    <3>1. x.paths[b] = n /\ x.text[b] = r
      BY <2>1, <2>2 DEF Text
    <3>2. QED
      BY <2>2, <3>1
  <2>3. CASE b # c
    <3>1. b < t.batch
      BY <1>1, <2>3 DEF Batch
    <3>2. x.paths[b] = t.paths[b] /\ x.text[b] = t.text[b]
      BY <2>1, <2>3 DEF Text
    <3>3. QED
      BY <3>1, <3>2 DEF Done
  <2>4. QED
    BY <2>2, <2>3
<1>2. QED
  BY <1>1 DEF Done

\* The other fields keep what they hold.
LEMMA PhaseOnly ==
    ASSUME NEW t \in Task, NEW pc \in Phase, NEW x, x = [t EXCEPT !.pc = pc]
    PROVE  /\ x \in Task /\ x.pc = pc /\ x.batch = t.batch
           /\ x.forced = t.forced /\ x.previous = t.previous /\ x.result = t.result
           /\ x.text = t.text /\ x.paths = t.paths /\ x.name = t.name
  BY DEF Task

LEMMA CoreAgain ==
    ASSUME Core, OneAtATime, NEW p \in Process, NEW x \in Task, Goto(p, x),
           calls' \in Nat, trouble' \in [Troubles -> Nat],
           history' \in [Batch -> Seq(Record)],
           file' = [b \in Batch |-> file'[b]], proof' = [b \in Batch |-> proof'[b]],
           OnDisk', Aggregates', Knows(x, history', file', proof', localized')
    PROVE  Core'
<1>1. /\ task' \in [Process -> Task]
      /\ \A q \in Process : task'[q] = x
  BY GotoTask DEF Core
<1>2. LocalizeTypeOK'
  BY <1>1 DEF LocalizeTypeOK
<1>3. InMemory'
  BY <1>1 DEF InMemory
<1>4. QED
  BY <1>2, <1>3 DEF Core

LEMMA BatchChanged ==
    ASSUME OnDisk, NEW b \in Batch,
           \A c \in Batch : c # b => history'[c] = history[c] /\ file'[c] = file[c] /\ proof'[c] = proof[c],
           BatchOnDisk(history'[b], file'[b], proof'[b])
    PROVE  OnDisk'
<1>1. ASSUME NEW c \in Batch
      PROVE  BatchOnDisk(history'[c], file'[c], proof'[c])
  <2>1. CASE c = b
    BY <2>1
  <2>2. CASE c # b
    <3>1. history'[c] = history[c] /\ file'[c] = file[c] /\ proof'[c] = proof[c]
      BY <2>2
    <3>2. QED
      BY <3>1 DEF OnDisk
  <2>3. QED
    BY <2>1, <2>2
<1>2. QED
  BY <1>1 DEF OnDisk

LEMMA DiskUntouched ==
    ASSUME Core, OneAtATime, NEW p \in Process, NEW x \in Task, Goto(p, x),
           calls' \in Nat, trouble' \in [Troubles -> Nat],
           UNCHANGED << batchFiles, localized, certificate >>,
           Knows(x, history, file, proof, localized)
    PROVE  Core'
<1>1. /\ history' = history /\ file' = file /\ proof' = proof
      /\ localized' = localized /\ certificate' = certificate
  BY DEF batchFiles
<1>2. OnDisk'
  BY <1>1 DEF Core, OnDisk
<1>3. Aggregates'
  BY <1>1 DEF Core, Aggregates
<1>4. Knows(x, history', file', proof', localized')
  BY <1>1
<1>5. /\ history' \in [Batch -> Seq(Record)]
      /\ file' = [b \in Batch |-> file'[b]] /\ proof' = [b \in Batch |-> proof'[b]]
  BY <1>1 DEF Core, LocalizeTypeOK
<1>6. QED
  BY <1>2, <1>3, <1>4, <1>5, CoreAgain

LEMMA HistoryChanged ==
    ASSUME Core, OneAtATime, NEW p \in Process, NEW x \in Task, Goto(p, x),
           calls' \in Nat, trouble' \in [Troubles -> Nat],
           history' \in [Batch -> Seq(Record)], NEW b \in Batch, NEW h, history'[b] = h,
           \A c \in Batch : c # b => history'[c] = history[c],
           UNCHANGED << file, proof, localized, certificate >>,
           BatchOnDisk(h, file[b], proof[b]),
           Knows(x, history', file, proof, localized)
    PROVE  Core'
<1>2. /\ file' = file /\ proof' = proof
      /\ localized' = localized /\ certificate' = certificate
  OBVIOUS
<1>3. OnDisk'
  BY <1>2, BatchChanged DEF Core
<1>4. Aggregates'
  BY <1>2 DEF Core, Aggregates
<1>5. Knows(x, history', file', proof', localized')
  BY <1>2
<1>6. /\ file' = [c \in Batch |-> file'[c]] /\ proof' = [c \in Batch |-> proof'[c]]
  BY <1>2 DEF Core, LocalizeTypeOK
<1>7. QED
  BY <1>2, <1>3, <1>4, <1>5, <1>6, CoreAgain

-----------------------------------------------------------------------------
(* The steps of the process.                                                *)

LEMMA StartStep ==
    ASSUME Core, OneAtATime, NEW p \in Process, Start(p) \/ StartForced(p)
    PROVE  Core'
<1>1. PICK t : /\ Goto(p, t)
               /\ t \in {[Idle EXCEPT !.pc = "batch"],
                         [Idle EXCEPT !.pc = "batch", !.forced = TRUE]}
  BY DEF Start, StartForced
<1>2. Idle \in Task /\ Idle.batch = 1
  BY IdleTask DEF Idle
<1>3. t \in Task /\ t.pc = "batch" /\ t.batch = 1
  BY <1>1, <1>2 DEF Task, Phase
<1>4. Knows(t, history, file, proof, localized)
  BY <1>3 DEF Knows, Done, Batch
<1>5. calls' \in Nat /\ trouble' \in [Troubles -> Nat]
  BY StrikeTrouble DEF Start, StartForced, Core, LocalizeTypeOK, Troubles
<1>6. UNCHANGED << batchFiles, localized, certificate >>
  BY DEF Start, StartForced
<1>7. QED
  BY <1>1, <1>2, <1>3, <1>4, <1>5, <1>6, DiskUntouched

LEMMA DieStep ==
    ASSUME Core, OneAtATime, NEW p \in Process, Die(p)
    PROVE  Core'
<1>1. Goto(p, Idle) /\ UNCHANGED << batchFiles, localized, certificate, calls >>
  BY DEF Die
<1>2. trouble' \in [Troubles -> Nat]
  BY StrikeTrouble DEF Die, Core, LocalizeTypeOK, Troubles
<1>3. Knows(Idle, history, file, proof, localized)
  BY IdleTask DEF Knows
<1>4. calls' \in Nat
  BY <1>1 DEF Core, LocalizeTypeOK
<1>5. QED
  BY <1>1, <1>2, <1>3, <1>4, IdleTask, DiskUntouched

LEMMA TakeMissingStep ==
    ASSUME Core, OneAtATime, NEW p \in Process, TakeMissing(p)
    PROVE  Core'
<1>1. PICK t : t = task[p] /\ t \in Task /\ t.pc = "batch" /\ t.batch \in Batch
  BY DEF TakeMissing, At, Core, LocalizeTypeOK
<1>2. PICK b \in Batch : b = t.batch
  BY <1>1
<1>3. PICK h \in Seq(Record) : h = history[b]
  BY DEF Core, LocalizeTypeOK
<1>4. PICK x : x = [t EXCEPT !.pc = "call", !.previous = h]
  OBVIOUS
<1>5. /\ Verified(b) = {} /\ Goto(p, x)
      /\ UNCHANGED << batchFiles, localized, certificate, calls, trouble >>
  BY <1>1, <1>2, <1>3, <1>4 DEF TakeMissing
<1>6. Done(t, file, proof)
  BY <1>1 DEF Core, InMemory, Knows
<1>7. /\ x \in Task /\ x.pc = "call" /\ x.batch = b /\ x.previous = h
      /\ x.text = t.text /\ x.paths = t.paths
  BY <1>1, <1>2, <1>3, <1>4 DEF Task, Phase
<1>12. Done(x, file, proof)
  BY <1>1, <1>2, <1>6, <1>7 DEF Done
<1>8. \A n \in DOMAIN proof[b] : proof[b][n].status # "completed"
  BY <1>5, VerifiedAre DEF Core
<1>9. InHand(x, h, file[b], proof[b])
  BY <1>7, <1>8 DEF InHand
<1>10. Knows(x, history, file, proof, localized)
  BY <1>3, <1>7, <1>9, <1>12 DEF Knows
<1>11. QED
  BY <1>5, <1>7, <1>10, DiskUntouched DEF Core, LocalizeTypeOK

LEMMA TranslateStep ==
    ASSUME Core, OneAtATime, NEW p \in Process, Translate(p)
    PROVE  Core'
<1>1. PICK t : t = task[p] /\ t \in Task /\ t.pc = "call"
  BY DEF Translate, At, Core, LocalizeTypeOK
<1>2. PICK n \in Nat : n = calls + 1
  BY DEF Core, LocalizeTypeOK
<1>3. PICK x : x = [t EXCEPT !.pc = "write", !.result = n]
  OBVIOUS
<1>4. /\ Goto(p, x) /\ calls' = n
      /\ UNCHANGED << batchFiles, localized, certificate, trouble >>
  BY <1>1, <1>2, <1>3 DEF Translate
<1>5. /\ x \in Task /\ x.pc = "write" /\ x.batch = t.batch
      /\ x.previous = t.previous /\ x.text = t.text /\ x.paths = t.paths
  BY <1>1, <1>3 DEF Task, Phase
<1>6. Knows(t, history, file, proof, localized)
  BY <1>1 DEF Core, InMemory
<1>7. Knows(x, history, file, proof, localized)
  BY <1>1, <1>5, <1>6 DEF Knows, Done, InHand, Revision
<1>8. QED
  BY <1>4, <1>5, <1>7, DiskUntouched DEF Core, LocalizeTypeOK

LEMMA ReturnStep ==
    ASSUME Core, OneAtATime, NEW p \in Process, Return(p)
    PROVE  Core'
<1>1. /\ Goto(p, Idle)
      /\ UNCHANGED << batchFiles, localized, certificate, calls, trouble >>
  BY DEF Return
<1>2. Knows(Idle, history, file, proof, localized)
  BY IdleTask DEF Knows
<1>3. QED
  BY <1>1, <1>2, IdleTask, DiskUntouched DEF Core, LocalizeTypeOK

-----------------------------------------------------------------------------
(* The history of a batch.                                                  *)

\* What is on record stays on record.
Extends(g, h) ==
    /\ Len(h) <= Len(g)
    /\ \A i \in 1 .. Len(h) : g[i] = h[i]

LEMMA Appended ==
    ASSUME NEW h \in Seq(Record), NEW e \in Record
    PROVE  /\ Append(h, e) \in Seq(Record)
           /\ Len(Append(h, e)) = Len(h) + 1
           /\ Append(h, e)[Len(h) + 1] = e
           /\ \A i \in 1 .. Len(h) : Append(h, e)[i] = h[i]
           /\ Extends(Append(h, e), h)
  BY DEF Extends

\* The results of a batch are proven under numbers its history has or is about
\* to have; one attempt more leaves them on record.
LEMMA MoreOnRecord ==
    ASSUME NEW h \in Seq(Record), NEW f, NEW s, BatchOnDisk(h, f, s), NEW e \in Record,
           Len(h) + 1 \in DOMAIN s /\ s[Len(h) + 1].status = "completed"
                => e = Attempt("completed", f[Len(h) + 1])
    PROVE  BatchOnDisk(Append(h, e), f, s)
<1>1. PICK k \in Nat : k = Len(h)
  OBVIOUS
<1>2. PICK g : g = Append(h, e)
  OBVIOUS
<1>3. /\ Len(g) = k + 1 /\ g[k + 1] = e
      /\ \A i \in 1 .. k : g[i] = h[i]
  BY <1>1, <1>2, Appended
<1>4. ASSUME NEW n \in DOMAIN s, s[n].status = "completed"
      PROVE  n \in 1 .. Len(g) + 1 /\ (n <= Len(g) => g[n] = Attempt("completed", f[n]))
  <2>1. n \in 1 .. k + 1 /\ (n <= k => h[n] = Attempt("completed", f[n]))
    BY <1>1, <1>4 DEF BatchOnDisk
  <2>2. n = k + 1 => e = Attempt("completed", f[n])
    BY <1>1, <1>4
  <2>3. CASE n = k + 1
    BY <1>3, <2>2, <2>3
  <2>4. CASE n \in 1 .. k
    BY <1>3, <2>1, <2>4
  <2>5. QED
    BY <2>1, <2>3, <2>4
<1>5. QED
  BY <1>2, <1>4 DEF BatchOnDisk

LEMMA Reconciling ==
    ASSUME Core, NEW b \in Batch, NEW n \in Verified(b), \A m \in Verified(b) : m <= n
    PROVE  /\ Consistent(b, n)
           /\ file[b][n] \in Nat /\ n \in Nat
           /\ Reconciled(b, n) \in Seq(Record)
           /\ Extends(Reconciled(b, n), history[b])
           /\ n <= Len(Reconciled(b, n))
           /\ BatchOnDisk(Reconciled(b, n), file[b], proof[b])
<1>1. PICK h \in Seq(Record) : h = history[b]
  BY DEF Core, LocalizeTypeOK
<1>2. BatchOnDisk(h, file[b], proof[b])
  BY <1>1 DEF Core, OnDisk
<1>3. n \in 1 .. Len(h) + 1 /\ n \in DOMAIN file[b] /\ Consistent(b, n)
  BY <1>1, VerifiedAre DEF Core, Consistent
<1>4. PICK e : e = Attempt("completed", file[b][n])
  OBVIOUS
<1>5. file[b][n] \in Nat /\ e \in Record
  BY <1>2, <1>3, <1>4 DEF BatchOnDisk, Attempt, Record
<1>6. CASE n = Len(h) + 1
  <2>1. Reconciled(b, n) = Append(h, e)
    BY <1>1, <1>4, <1>6 DEF Reconciled
  <2>2. BatchOnDisk(Append(h, e), file[b], proof[b])
    BY <1>2, <1>4, <1>5, <1>6, MoreOnRecord
  <2>3. PICK g : g = Append(h, e)
    OBVIOUS
  <2>4. g \in Seq(Record) /\ Extends(g, h) /\ Len(g) = Len(h) + 1
    BY <1>5, <2>3, Appended
  <2>5. n <= Len(g) /\ n \in Nat
    BY <1>3, <1>6, <2>4
  <2>6. QED
    BY <1>1, <1>3, <1>5, <2>1, <2>2, <2>3, <2>4, <2>5
<1>7. CASE n # Len(h) + 1
  <2>1. Reconciled(b, n) = h
    BY <1>1, <1>7 DEF Reconciled
  <2>2. QED
    BY <1>1, <1>2, <1>3, <1>5, <1>7, <2>1 DEF Extends
<1>8. QED
  BY <1>6, <1>7

-----------------------------------------------------------------------------
(* The steps on a batch.                                                    *)

LEMMA TakeProvenStep ==
    ASSUME Core, OneAtATime, NEW p \in Process, TakeProven(p)
    PROVE  /\ Core'
           /\ \A b \in Batch : history'[b] = history[b] \/ Extends(history'[b], history[b])
<1>1. PICK t : t = task[p] /\ t \in Task /\ t.pc = "batch" /\ t.batch \in Batch
  BY DEF TakeProven, At, Core, LocalizeTypeOK
<1>2. PICK b \in Batch : b = t.batch
  BY <1>1
<1>3. PICK n : n = Newest(Verified(b))
  OBVIOUS
<1>4. n \in Verified(b) /\ \A m \in Verified(b) : m <= n
  BY <1>1, <1>2, <1>3, NewestVerified DEF TakeProven, Core
<1>5. PICK h : h = Reconciled(b, n)
  OBVIOUS
<1>6. PICK r : r = file[b][n]
  OBVIOUS
<1>7. /\ Consistent(b, n) /\ r \in Nat /\ n \in Nat /\ h \in Seq(Record)
      /\ Extends(h, history[b]) /\ n <= Len(h)
      /\ BatchOnDisk(h, file[b], proof[b])
  BY <1>4, <1>5, <1>6, Reconciling
<1>8. /\ history' = [history EXCEPT ![b] = h]
      /\ Goto(p, IF t.forced
                 THEN [t EXCEPT !.pc = "call", !.previous = h]
                 ELSE [t EXCEPT !.batch = b + 1, !.text[b] = r, !.paths[b] = n])
      /\ UNCHANGED << file, proof, localized, certificate, output, calls, trouble >>
  BY <1>1, <1>2, <1>3, <1>5, <1>6, <1>7 DEF TakeProven
<1>9. /\ history' \in [Batch -> Seq(Record)] /\ history'[b] = h
      /\ \A c \in Batch : c # b => history'[c] = history[c]
  BY <1>7, <1>8 DEF Core, LocalizeTypeOK
<1>10. Done(t, file, proof)
  BY <1>1 DEF Core, InMemory, Knows
<1>11. calls' \in Nat /\ trouble' \in [Troubles -> Nat]
  BY <1>8 DEF Core, LocalizeTypeOK
<1>16. UNCHANGED << file, proof, localized, certificate >>
  BY <1>8
<1>12. CASE t.forced
  <2>1. PICK x : x = [t EXCEPT !.pc = "call", !.previous = h]
    OBVIOUS
  <2>2. /\ x \in Task /\ x.pc = "call" /\ x.batch = b /\ x.previous = h /\ x.forced
        /\ x.text = t.text /\ x.paths = t.paths
    BY <1>1, <1>2, <1>7, <1>12, <2>1 DEF Task, Phase
  <2>3. Done(x, file, proof)
    BY <1>1, <1>2, <1>10, <2>2 DEF Done
  <2>4. \A m \in DOMAIN proof[b] : proof[b][m].status = "completed" => m # Revision(x)
    <3>1. PICK k \in Nat : k = Len(h)
      BY <1>7
    <3>2. ASSUME NEW m \in Verified(b)
          PROVE  m # k + 1
      <4>1. m \in Nat
        BY VerifiedAre DEF Core
      <4>2. QED
        BY <1>4, <1>7, <3>1, <4>1
    <3>3. QED
      BY <2>2, <3>1, <3>2, VerifiedAre DEF Core, Revision
  <2>5. InHand(x, h, file[b], proof[b])
    BY <2>2, <2>4 DEF InHand
  <2>6. Knows(x, history', file, proof, localized)
    BY <1>9, <2>2, <2>3, <2>5 DEF Knows
  <2>7. Goto(p, x)
    BY <1>8, <1>12, <2>1
  <2>8. QED
    BY <1>7, <1>9, <1>11, <1>16, <2>2, <2>6, <2>7, HistoryChanged
<1>13. CASE ~t.forced
  <2>1. PICK x : x = PassOn(t, n, r)
    OBVIOUS
  <2>2. Goto(p, x)
    <3>1. [t EXCEPT !.pc = "batch"] = t
      BY <1>1 DEF Task
    <3>2. x = [t EXCEPT !.batch = b + 1, !.text[b] = r, !.paths[b] = n]
      BY <1>1, <1>2, <2>1, <3>1 DEF Task, PassOn
    <3>3. QED
      BY <1>8, <1>13, <3>2
  <2>3. Current(proof[b], n, r)
    BY <1>4, <1>6, VerifiedAre DEF Core, Current, Proves, Verified
  <2>4. x \in Task /\ x.pc = "batch" /\ Done(x, file, proof)
    <3>1. PICK f, s : f = file /\ s = proof
      OBVIOUS
    <3>2. Done(t, f, s) /\ Current(s[b], n, r) /\ f[b][n] = r
      BY <1>6, <1>10, <2>3, <3>1
    <3>3. /\ x \in Task /\ x.pc = "batch" /\ x.batch = b + 1
          /\ x.text = [t.text EXCEPT ![b] = r] /\ x.paths = [t.paths EXCEPT ![b] = n]
      BY <1>1, <1>2, <1>7, <2>1, PassedOn
    <3>4. Done(x, f, s)
      BY <1>1, <1>2, <3>2, <3>3, DoneMore
    <3>5. QED
      BY <3>1, <3>3, <3>4
  <2>5. Knows(x, history', file, proof, localized)
    BY <2>4 DEF Knows
  <2>6. QED
    BY <1>7, <1>9, <1>11, <1>16, <2>2, <2>4, <2>5, HistoryChanged
<1>14. \A c \in Batch : history'[c] = history[c] \/ Extends(history'[c], history[c])
  BY <1>7, <1>9
<1>15. QED
  BY <1>12, <1>13, <1>14

\* What the process has in hand when it calls, writes, proves or records.
LEMMA Handled ==
    ASSUME Core, NEW p \in Process, NEW pc \in {"call", "write", "prove", "record"}, At(p, pc)
    PROVE  \E t \in Task, b \in Batch, h \in Seq(Record) :
              /\ t = task[p] /\ t.pc = pc /\ t.batch = b
              /\ h = history[b] /\ t.previous = h
              /\ Revision(t) = Len(h) + 1 /\ Len(h) \in Nat
              /\ Done(t, file, proof)
              /\ InHand(t, h, file[b], proof[b])
              /\ BatchOnDisk(h, file[b], proof[b])
<1>1. PICK t \in Task : t = task[p] /\ t.pc = pc
  BY DEF At, Core, LocalizeTypeOK
<1>2. Knows(t, history, file, proof, localized)
  BY <1>1 DEF Core, InMemory
<1>3. /\ t.batch \in Batch /\ Done(t, file, proof)
      /\ InHand(t, history[t.batch], file[t.batch], proof[t.batch])
  BY <1>1, <1>2 DEF Knows
<1>4. PICK b \in Batch : b = t.batch
  BY <1>3
<1>5. PICK h \in Seq(Record) : h = history[b]
  BY DEF Core, LocalizeTypeOK
<1>6. BatchOnDisk(h, file[b], proof[b])
  BY <1>5 DEF Core, OnDisk
<1>7. t.previous = h /\ Revision(t) = Len(h) + 1 /\ Len(h) \in Nat
  BY <1>3, <1>4, <1>5 DEF InHand, Revision
<1>8. QED
  BY <1>1, <1>3, <1>4, <1>5, <1>6, <1>7

LEMMA TranslateFailsStep ==
    ASSUME Core, OneAtATime, NEW p \in Process, TranslateFails(p)
    PROVE  /\ Core'
           /\ \A b \in Batch : history'[b] = history[b] \/ Extends(history'[b], history[b])
<1>1. PICK t \in Task, b \in Batch, h \in Seq(Record) :
         /\ t = task[p] /\ t.pc = "call" /\ t.batch = b
         /\ h = history[b] /\ t.previous = h
         /\ Revision(t) = Len(h) + 1 /\ Len(h) \in Nat
         /\ InHand(t, h, file[b], proof[b]) /\ BatchOnDisk(h, file[b], proof[b])
  BY Handled DEF TranslateFails
<1>2. PICK g : g = Append(h, Attempt("failed", 0))
  OBVIOUS
<1>3. /\ history' = [history EXCEPT ![b] = g] /\ Goto(p, Idle)
      /\ UNCHANGED << file, proof, localized, certificate, output, calls >>
  BY <1>1, <1>2 DEF TranslateFails
<1>4. Attempt("failed", 0) \in Record
  BY DEF Attempt, Record
<1>5. Len(h) + 1 \in DOMAIN proof[b] => proof[b][Len(h) + 1].status # "completed"
  BY <1>1 DEF InHand
<1>6. /\ g \in Seq(Record) /\ Extends(g, h) /\ BatchOnDisk(g, file[b], proof[b])
  BY <1>1, <1>2, <1>4, <1>5, Appended, MoreOnRecord
<1>7. /\ history' \in [Batch -> Seq(Record)] /\ history'[b] = g
      /\ \A c \in Batch : c # b => history'[c] = history[c]
  BY <1>3, <1>6 DEF Core, LocalizeTypeOK
<1>8. calls' \in Nat /\ trouble' \in [Troubles -> Nat]
  BY <1>3, StrikeTrouble DEF TranslateFails, Core, LocalizeTypeOK, Troubles
<1>9. Knows(Idle, history', file, proof, localized)
  BY IdleTask DEF Knows
<1>10. Core'
  BY <1>3, <1>6, <1>7, <1>8, <1>9, IdleTask, HistoryChanged
<1>11. QED
  BY <1>1, <1>6, <1>7, <1>10

LEMMA RecordBatchStep ==
    ASSUME Core, OneAtATime, NEW p \in Process, RecordBatch(p)
    PROVE  /\ Core'
           /\ \A b \in Batch : history'[b] = history[b] \/ Extends(history'[b], history[b])
<1>1. PICK t \in Task, b \in Batch, h \in Seq(Record) :
         /\ t = task[p] /\ t.pc = "record" /\ t.batch = b
         /\ h = history[b] /\ t.previous = h
         /\ Revision(t) = Len(h) + 1 /\ Len(h) \in Nat
         /\ Done(t, file, proof)
         /\ InHand(t, h, file[b], proof[b]) /\ BatchOnDisk(h, file[b], proof[b])
  BY Handled DEF RecordBatch
<1>2. PICK r \in Nat : r = t.result
  BY <1>1 DEF Task
<1>3. PICK n \in Nat : n = Len(h) + 1
  BY <1>1
<1>4. PICK e \in Record : e = Attempt("completed", r)
  BY DEF Attempt, Record
<1>5. PICK g : g = Append(h, e)
  OBVIOUS
<1>6. PICK x : x = PassOn(t, n, r)
  OBVIOUS
<1>7. /\ history' = [history EXCEPT ![b] = g] /\ Goto(p, x)
      /\ UNCHANGED << file, proof, localized, certificate, output, calls, trouble >>
  BY <1>1, <1>2, <1>3, <1>4, <1>5, <1>6 DEF RecordBatch, PassOn
<1>8. /\ Proves(proof[b], n, r) /\ n \in DOMAIN file[b] /\ file[b][n] = r
  BY <1>1, <1>2, <1>3 DEF InHand
<1>9. /\ g \in Seq(Record) /\ Extends(g, h) /\ BatchOnDisk(g, file[b], proof[b])
  BY <1>1, <1>3, <1>4, <1>5, <1>8, Appended, MoreOnRecord
<1>10. /\ history' \in [Batch -> Seq(Record)] /\ history'[b] = g
       /\ \A c \in Batch : c # b => history'[c] = history[c]
  BY <1>7, <1>9 DEF Core, LocalizeTypeOK
<1>11. /\ x \in Task /\ x.pc = "batch" /\ x.batch = b + 1
       /\ x.text = [t.text EXCEPT ![b] = r] /\ x.paths = [t.paths EXCEPT ![b] = n]
  BY <1>1, <1>2, <1>3, <1>6, PassedOn
<1>12. Current(proof[b], n, r)
  <2>1. ASSUME NEW m \in DOMAIN proof[b], proof[b][m].status = "completed"
        PROVE  m <= n
    <3>1. m \in 1 .. Len(h) + 1
      BY <1>1, <2>1 DEF BatchOnDisk
    <3>2. QED
      BY <1>1, <1>3, <3>1
  <2>2. QED
    BY <1>8, <2>1 DEF Current
<1>13. Done(x, file, proof)
  <2>1. PICK f, s : f = file /\ s = proof
    OBVIOUS
  <2>2. Done(t, f, s) /\ Current(s[b], n, r) /\ f[b][n] = r
    BY <1>1, <1>8, <1>12, <2>1
  <2>3. Done(x, f, s)
    BY <1>1, <1>11, <2>2, DoneMore
  <2>4. QED
    BY <2>1, <2>3
<1>14. Knows(x, history', file, proof, localized)
  BY <1>11, <1>13 DEF Knows
<1>15. calls' \in Nat /\ trouble' \in [Troubles -> Nat]
  BY <1>7 DEF Core, LocalizeTypeOK
<1>16. UNCHANGED << file, proof, localized, certificate >> /\ Goto(p, x)
  BY <1>7
<1>17. Core'
  BY <1>9, <1>10, <1>11, <1>14, <1>15, <1>16, HistoryChanged
<1>18. QED
  BY <1>1, <1>9, <1>10, <1>17

LEMMA WriteBatchStep ==
    ASSUME Core, OneAtATime, NEW p \in Process, WriteBatch(p)
    PROVE  Core'
<1>1. PICK t \in Task, b \in Batch, h \in Seq(Record) :
         /\ t = task[p] /\ t.pc = "write" /\ t.batch = b
         /\ h = history[b] /\ t.previous = h
         /\ Revision(t) = Len(h) + 1 /\ Len(h) \in Nat
         /\ Done(t, file, proof)
         /\ InHand(t, h, file[b], proof[b]) /\ BatchOnDisk(h, file[b], proof[b])
  BY Handled DEF WriteBatch
<1>2. PICK n, r : n = Revision(t) /\ r = t.result
  OBVIOUS
<1>3. PICK f : f = With(file[b], n, r)
  OBVIOUS
<1>4. PICK x : x = [t EXCEPT !.pc = "prove"]
  OBVIOUS
<1>5. /\ file' = [file EXCEPT ![b] = f] /\ Goto(p, x)
      /\ UNCHANGED << history, proof, localized, certificate, output, calls, trouble >>
  BY <1>1, <1>2, <1>3, <1>4 DEF WriteBatch
<1>6. /\ DOMAIN f = DOMAIN file[b] \cup {n} /\ f[n] = r
      /\ \A m \in DOMAIN file[b] : m # n => f[m] = file[b][m]
  BY <1>3 DEF With
<1>7. /\ x \in Task /\ x.pc = "prove" /\ x.batch = b /\ x.previous = h /\ x.result = r
      /\ x.text = t.text /\ x.paths = t.paths
  BY <1>1, <1>2, <1>4 DEF Task, Phase
<1>8. /\ file' = [c \in Batch |-> file'[c]] /\ file'[b] = f
      /\ \A c \in Batch : c # b => file'[c] = file[c]
      /\ history' = history /\ proof' = proof
      /\ localized' = localized /\ certificate' = certificate
  BY <1>5 DEF Core, LocalizeTypeOK
<1>9. \A m \in DOMAIN proof[b] : proof[b][m].status = "completed" => m # n
  BY <1>1, <1>2 DEF InHand
<1>10. BatchOnDisk(h, f, proof[b])
  <2>1. r \in Nat
    BY <1>2 DEF Task
  <2>2. \A m \in DOMAIN f : f[m] \in Nat
    BY <1>1, <1>6, <2>1 DEF BatchOnDisk
  <2>3. ASSUME NEW m \in DOMAIN proof[b]
        PROVE  /\ m \in DOMAIN f
               /\ proof[b][m] = [status |-> proof[b][m].status, of |-> proof[b][m].of]
               /\ proof[b][m].status = "completed" =>
                     /\ m \in 1 .. Len(h) + 1
                     /\ proof[b][m].of = f[m]
                     /\ m <= Len(h) => h[m] = Attempt("completed", f[m])
    <3>1. /\ m \in DOMAIN file[b]
          /\ proof[b][m] = [status |-> proof[b][m].status, of |-> proof[b][m].of]
      BY <1>1 DEF BatchOnDisk
    <3>2. ASSUME proof[b][m].status = "completed"
          PROVE  /\ m \in 1 .. Len(h) + 1
                 /\ proof[b][m].of = file[b][m]
                 /\ m <= Len(h) => h[m] = Attempt("completed", file[b][m])
                 /\ f[m] = file[b][m]
      BY <1>1, <1>6, <1>9, <3>1, <3>2 DEF BatchOnDisk
    <3>3. QED
      BY <1>6, <3>1, <3>2
  <2>4. QED
    BY <2>2, <2>3 DEF BatchOnDisk
<1>11. OnDisk'
  BY <1>1, <1>8, <1>10, BatchChanged DEF Core
<1>12. Aggregates'
  BY <1>8 DEF Core, Aggregates
<1>13. InHand(x, h, f, proof[b])
  BY <1>1, <1>2, <1>6, <1>7, <1>9 DEF InHand, Revision
<1>14. Done(x, file', proof)
  <2>1. \A c \in Batch : c < b => c # b
    BY DEF Batch
  <2>2. QED
    BY <1>1, <1>7, <1>8, <2>1 DEF Done
<1>15. Knows(x, history', file', proof', localized')
  BY <1>1, <1>7, <1>8, <1>13, <1>14 DEF Knows
<1>16. /\ history' \in [Batch -> Seq(Record)] /\ proof' = [c \in Batch |-> proof'[c]]
       /\ calls' \in Nat /\ trouble' \in [Troubles -> Nat]
  BY <1>5, <1>8 DEF Core, LocalizeTypeOK
<1>17. QED
  BY <1>5, <1>7, <1>8, <1>11, <1>12, <1>15, <1>16, CoreAgain

LEMMA ProveBatchStep ==
    ASSUME Core, OneAtATime, NEW p \in Process, ProveBatch(p)
    PROVE  Core'
<1>1. PICK t \in Task, b \in Batch, h \in Seq(Record) :
         /\ t = task[p] /\ t.pc = "prove" /\ t.batch = b
         /\ h = history[b] /\ t.previous = h
         /\ Revision(t) = Len(h) + 1 /\ Len(h) \in Nat
         /\ Done(t, file, proof)
         /\ InHand(t, h, file[b], proof[b]) /\ BatchOnDisk(h, file[b], proof[b])
  BY Handled DEF ProveBatch
<1>2. PICK n, r : n = Revision(t) /\ r = t.result
  OBVIOUS
<1>3. n \in DOMAIN file[b] /\ file[b][n] = r
  BY <1>1, <1>2 DEF InHand
<1>4. PICK s : s = With(proof[b], n, Proven(r))
  OBVIOUS
<1>5. PICK x : x = [t EXCEPT !.pc = "record"]
  OBVIOUS
<1>6. /\ proof' = [proof EXCEPT ![b] = s] /\ Goto(p, x)
      /\ UNCHANGED << history, file, localized, certificate, output, calls, trouble >>
  BY <1>1, <1>2, <1>3, <1>4, <1>5 DEF ProveBatch
<1>7. /\ DOMAIN s = DOMAIN proof[b] \cup {n} /\ s[n] = Proven(r)
      /\ \A m \in DOMAIN proof[b] : m # n => s[m] = proof[b][m]
  BY <1>4 DEF With
<1>8. /\ x \in Task /\ x.pc = "record" /\ x.batch = b /\ x.previous = h /\ x.result = r
      /\ x.text = t.text /\ x.paths = t.paths
  BY <1>1, <1>2, <1>5 DEF Task, Phase
<1>9. /\ proof' = [c \in Batch |-> proof'[c]] /\ proof'[b] = s
      /\ \A c \in Batch : c # b => proof'[c] = proof[c]
      /\ history' = history /\ file' = file
      /\ localized' = localized /\ certificate' = certificate
  BY <1>6 DEF Core, LocalizeTypeOK
<1>10. BatchOnDisk(h, file[b], s)
  <2>1. ASSUME NEW m \in DOMAIN s
        PROVE  /\ m \in DOMAIN file[b]
               /\ s[m] = [status |-> s[m].status, of |-> s[m].of]
               /\ s[m].status = "completed" =>
                     /\ m \in 1 .. Len(h) + 1
                     /\ s[m].of = file[b][m]
                     /\ m <= Len(h) => h[m] = Attempt("completed", file[b][m])
    <3>1. CASE m = n
      BY <1>1, <1>2, <1>3, <1>7, <3>1 DEF Proven
    <3>2. CASE m # n
      BY <1>1, <1>7, <3>2 DEF BatchOnDisk
    <3>3. QED
      BY <3>1, <3>2
  <2>2. QED
    BY <1>1, <2>1 DEF BatchOnDisk
<1>11. OnDisk'
  BY <1>1, <1>9, <1>10, BatchChanged DEF Core
<1>12. Aggregates'
  BY <1>9 DEF Core, Aggregates
<1>13. InHand(x, h, file[b], s)
  <2>1. Revision(x) = n /\ n \in DOMAIN s
    BY <1>1, <1>2, <1>7, <1>8 DEF Revision
  <2>2. QED
    BY <1>3, <1>7, <1>8, <2>1 DEF InHand, Proves
<1>14. Done(x, file, proof')
  <2>1. \A c \in Batch : c < b => c # b
    BY DEF Batch
  <2>2. QED
    BY <1>1, <1>8, <1>9, <2>1 DEF Done
<1>15. Knows(x, history', file', proof', localized')
  BY <1>1, <1>8, <1>9, <1>13, <1>14 DEF Knows
<1>16. /\ history' \in [Batch -> Seq(Record)] /\ file' = [c \in Batch |-> file'[c]]
       /\ calls' \in Nat /\ trouble' \in [Troubles -> Nat]
  BY <1>6, <1>9 DEF Core, LocalizeTypeOK
<1>17. QED
  BY <1>6, <1>8, <1>9, <1>11, <1>12, <1>15, <1>16, CoreAgain

-----------------------------------------------------------------------------
(* The steps on the localized file.                                         *)

\* All batches are done and hashed again: they still hold what is in memory.
LEMMA AllDone ==
    ASSUME Core, NEW p \in Process, At(p, "batch"), task[p].batch \notin Batch
    PROVE  \E t \in Task :
              /\ t = task[p] /\ t.pc = "batch" /\ t.batch \notin Batch
              /\ Done(t, file, proof)
              /\ Suffix(t) = t.text
<1>1. PICK t \in Task : t = task[p] /\ t.pc = "batch" /\ t.batch \notin Batch
  BY DEF At, Core, LocalizeTypeOK
<1>2. Done(t, file, proof)
  BY <1>1 DEF Core, InMemory, Knows
<1>3. t.text \in Text /\ t.batch = NBatches + 1
  BY <1>1, BatchNumbers DEF Task
<1>4. \A b \in Batch : file[b][t.paths[b]] = t.text[b]
  BY <1>2, <1>3, BatchNumbers DEF Done
<1>5. Suffix(t) = t.text
  BY <1>3, <1>4 DEF Suffix, Text
<1>6. QED
  BY <1>1, <1>2, <1>5

LEMMA ReusableNamed ==
    ASSUME Core, NEW k \in Nat, NumberedUpTo(k), NEW s, Reusable(s) # {}
    PROVE  << s, Newest(Reusable(s)) >> \in DOMAIN localized
<1>1. PICK S : S = Reusable(s)
  OBVIOUS
<1>2. ASSUME NEW n \in S
      PROVE  << s, n >> \in DOMAIN localized /\ n \in Nat /\ n <= k
  <2>1. << s, n >> \in DOMAIN certificate
    BY <1>1 DEF Reusable
  <2>2. << s, n >> \in DOMAIN localized
    BY <2>1 DEF Core, Aggregates
  <2>3. n \in Nat
    BY <2>2 DEF Core, Aggregates
  <2>4. << s, n >>[2] <= k
    BY <2>2 DEF NumberedUpTo
  <2>5. QED
    BY <2>2, <2>3, <2>4
<1>3. S \in SUBSET Nat /\ S # {} /\ \A n \in S : n <= k
  BY <1>1, <1>2
<1>4. Newest(S) \in S
  BY <1>3, NewestIsGreatest
<1>5. QED
  BY <1>1, <1>2, <1>4

LEMMA TakeAggregateStep ==
    ASSUME Core, OneAtATime, NEW p \in Process, TakeAggregate(p),
           NEW k \in Nat, NumberedUpTo(k)
    PROVE  Core'
<1>1. PICK t \in Task :
         /\ t = task[p] /\ t.pc = "batch" /\ t.batch \notin Batch
         /\ Done(t, file, proof) /\ Suffix(t) = t.text
  BY AllDone DEF TakeAggregate
<1>2. PICK name : name = << Suffix(t), Newest(Reusable(Suffix(t))) >>
  OBVIOUS
<1>3. PICK x : x = [t EXCEPT !.pc = "return", !.name = name]
  OBVIOUS
<1>4. /\ Goto(p, x)
      /\ UNCHANGED << batchFiles, localized, certificate, output, calls, trouble >>
      /\ Reusable(Suffix(t)) # {}
  BY <1>1, <1>2, <1>3 DEF TakeAggregate
<1>5. name \in DOMAIN localized /\ name[1] = t.text
  BY <1>1, <1>2, <1>4, ReusableNamed
<1>6. name \in Text \X Nat
  BY <1>5 DEF Core, Aggregates
<1>7. /\ x \in Task /\ x.pc = "return" /\ x.batch = t.batch /\ x.name = name
      /\ x.text = t.text /\ x.paths = t.paths
  BY <1>3, <1>6 DEF Task, Phase
<1>8. Done(x, file, proof)
  BY <1>1, <1>7 DEF Done
<1>9. Knows(x, history, file, proof, localized)
  BY <1>1, <1>5, <1>7, <1>8 DEF Knows
<1>10. calls' \in Nat /\ trouble' \in [Troubles -> Nat]
       /\ UNCHANGED << batchFiles, localized, certificate >>
  BY <1>4 DEF Core, LocalizeTypeOK
<1>11. QED
  BY <1>4, <1>7, <1>9, <1>10, DiskUntouched

LEMMA WriteAggregateStep ==
    ASSUME Core, OneAtATime, NEW p \in Process, WriteAggregate(p),
           NEW k \in Nat, NumberedUpTo(k)
    PROVE  Core' /\ \E m \in Nat : NumberedUpTo(m)'
<1>1. PICK t \in Task :
         /\ t = task[p] /\ t.pc = "batch" /\ t.batch \notin Batch
         /\ Done(t, file, proof) /\ Suffix(t) = t.text
  BY AllDone DEF WriteAggregate
<1>2. PICK s \in Text : s = t.text
  BY DEF Task
<1>3. PICK c : c = Cardinality({m \in DOMAIN localized : m[1] = s}) + 1
  OBVIOUS
<1>4. c \in Nat
  <2>1. IsFiniteSet({m \in DOMAIN localized : m[1] = s})
    <3>1. {m \in DOMAIN localized : m[1] = s} \subseteq DOMAIN localized
      OBVIOUS
    <3>2. QED
      BY <3>1, FS_Subset DEF Core, Aggregates
  <2>2. QED
    BY <1>3, <2>1, FS_CardinalityType
<1>5. PICK name : name = << s, c >>
  OBVIOUS
<1>6. PICK x : x = [t EXCEPT !.pc = "publish", !.name = name]
  OBVIOUS
<1>7. /\ localized' = With(localized, name, s) /\ Goto(p, x)
      /\ UNCHANGED << batchFiles, certificate, output, calls, trouble >>
  BY <1>1, <1>2, <1>3, <1>5, <1>6 DEF WriteAggregate
<1>8. /\ DOMAIN localized' = DOMAIN localized \cup {name}
      /\ \A m \in DOMAIN localized' :
            localized'[m] = IF m = name THEN s ELSE localized[m]
  BY <1>7 DEF With
<1>9. name \in Text \X Nat /\ name[1] = s /\ name[2] = c
  BY <1>4, <1>5
<1>10. /\ history' = history /\ file' = file /\ proof' = proof
       /\ certificate' = certificate
  BY <1>7 DEF batchFiles
<1>11. Aggregates'
  <2>1. IsFiniteSet(DOMAIN localized')
    BY <1>8, FS_AddElement DEF Core, Aggregates
  <2>2. DOMAIN localized' \subseteq Text \X Nat /\ DOMAIN certificate' \subseteq DOMAIN localized'
    BY <1>8, <1>9, <1>10 DEF Core, Aggregates
  <2>3. \A m \in DOMAIN localized' : localized'[m] = m[1]
    BY <1>8, <1>9 DEF Core, Aggregates
  <2>4. QED
    BY <2>1, <2>2, <2>3 DEF Aggregates
<1>12. /\ x \in Task /\ x.pc = "publish" /\ x.batch = t.batch /\ x.name = name
       /\ x.text = t.text /\ x.paths = t.paths
  BY <1>6, <1>9 DEF Task, Phase
<1>13. Done(x, file, proof)
  BY <1>1, <1>12 DEF Done
<1>14. Knows(x, history', file', proof', localized')
  BY <1>1, <1>2, <1>8, <1>9, <1>10, <1>12, <1>13 DEF Knows
<1>15. OnDisk'
  BY <1>10 DEF Core, OnDisk
<1>16. /\ history' \in [Batch -> Seq(Record)]
       /\ file' = [b \in Batch |-> file'[b]] /\ proof' = [b \in Batch |-> proof'[b]]
       /\ calls' \in Nat /\ trouble' \in [Troubles -> Nat]
  BY <1>7, <1>10 DEF Core, LocalizeTypeOK
<1>17. Core'
  BY <1>7, <1>11, <1>12, <1>14, <1>15, <1>16, CoreAgain
<1>18. \E m \in Nat : NumberedUpTo(m)'
  <2>1. PICK m \in Nat : k <= m /\ c <= m
    BY <1>4
  <2>2. \A q \in DOMAIN localized : q[2] \in Nat /\ q[2] <= k
    BY DEF NumberedUpTo, Core, Aggregates
  <2>3. \A q \in DOMAIN localized' : q[2] <= m
    BY <1>4, <1>8, <1>9, <2>1, <2>2
  <2>4. QED
    BY <2>3 DEF NumberedUpTo
<1>19. QED
  BY <1>17, <1>18

LEMMA PublishAggregateStep ==
    ASSUME Core, OneAtATime, NEW p \in Process, PublishAggregate(p)
    PROVE  Core'
<1>1. PICK t \in Task : t = task[p] /\ t.pc = "publish"
  BY DEF PublishAggregate, At, Core, LocalizeTypeOK
<1>2. PICK name : name = t.name
  OBVIOUS
<1>3. /\ t.batch \notin Batch /\ Done(t, file, proof)
      /\ name \in DOMAIN localized /\ name[1] = t.text
  BY <1>1, <1>2 DEF Core, InMemory, Knows
<1>4. PICK x : x = [t EXCEPT !.pc = "return"]
  OBVIOUS
<1>5. /\ certificate' = With(certificate, name, Proven(localized[name])) /\ Goto(p, x)
      /\ UNCHANGED << batchFiles, localized, output, calls, trouble >>
  BY <1>1, <1>2, <1>4 DEF PublishAggregate
<1>6. /\ history' = history /\ file' = file /\ proof' = proof
      /\ localized' = localized
      /\ DOMAIN certificate' = DOMAIN certificate \cup {name}
  BY <1>5 DEF batchFiles, With
<1>7. OnDisk' /\ Aggregates'
  BY <1>3, <1>6 DEF Core, OnDisk, Aggregates
<1>8. /\ x \in Task /\ x.pc = "return" /\ x.batch = t.batch /\ x.name = name
      /\ x.text = t.text /\ x.paths = t.paths
  BY <1>2, <1>4 DEF Task, Phase
<1>9. Done(x, file, proof)
  BY <1>3, <1>8 DEF Done
<1>10. Knows(x, history', file', proof', localized')
  BY <1>3, <1>6, <1>8, <1>9 DEF Knows
<1>11. /\ history' \in [Batch -> Seq(Record)]
       /\ file' = [b \in Batch |-> file'[b]] /\ proof' = [b \in Batch |-> proof'[b]]
       /\ calls' \in Nat /\ trouble' \in [Troubles -> Nat]
  BY <1>5, <1>6 DEF Core, LocalizeTypeOK
<1>12. QED
  BY <1>5, <1>7, <1>8, <1>10, <1>11, CoreAgain

-----------------------------------------------------------------------------
(* Every step.                                                              *)

LEMMA RetryLocalizeStep ==
    ASSUME Core, NEW B \in SUBSET Batch, RetryLocalize(B)
    PROVE  Core'
<1>1. /\ \A p \in Process : task[p].pc = "idle"
      /\ proof' = [b \in Batch |-> IF b \in B THEN Invalid(proof[b]) ELSE proof[b]]
      /\ history' = history /\ file' = file /\ localized' = localized
      /\ task' = task /\ calls' = calls
      /\ DOMAIN certificate' = DOMAIN certificate
  BY DEF RetryLocalize, At, Invalid
<1>2. trouble' \in [Troubles -> Nat]
  BY StrikeTrouble DEF RetryLocalize, Core, LocalizeTypeOK, Troubles
<1>3. ASSUME NEW b \in Batch
      PROVE  BatchOnDisk(history'[b], file'[b], proof'[b])
  <2>1. PICK h, f, s : h = history[b] /\ f = file[b] /\ s = proof[b]
    OBVIOUS
  <2>2. BatchOnDisk(h, f, s)
    BY <2>1 DEF Core, OnDisk
  <2>3. BatchOnDisk(h, f, Invalid(s))
    <3>1. ASSUME NEW n \in DOMAIN s
          PROVE  Invalid(s)[n] = [status |-> "invalid", of |-> s[n].of]
      <4>1. s[n] = [status |-> s[n].status, of |-> s[n].of]
        BY <2>2 DEF BatchOnDisk
      <4>2. Invalid(s)[n] = [s[n] EXCEPT !.status = "invalid"]
        BY DEF Invalid
      <4>3. QED
        BY <4>1, <4>2
    <3>2. DOMAIN Invalid(s) = DOMAIN s
      BY DEF Invalid
    <3>3. QED
      BY <2>2, <3>1, <3>2 DEF BatchOnDisk
  <2>4. QED
    BY <1>1, <2>1, <2>2, <2>3
<1>4. OnDisk'
  BY <1>3 DEF OnDisk
<1>5. Aggregates'
  BY <1>1 DEF Core, Aggregates
<1>6. InMemory'
  BY <1>1 DEF InMemory, Knows
<1>7. LocalizeTypeOK'
  BY <1>1, <1>2 DEF Core, LocalizeTypeOK
<1>8. QED
  BY <1>4, <1>5, <1>6, <1>7 DEF Core

LEMMA CoreStep ==
    ASSUME Core, OneAtATime, NEW k \in Nat, NumberedUpTo(k), [Next]_vars
    PROVE  /\ Core' /\ \E m \in Nat : NumberedUpTo(m)'
           /\ \A b \in Batch : history'[b] = history[b] \/ Extends(history'[b], history[b])
<1>1. CASE UNCHANGED vars
  <2>1. /\ history' = history /\ file' = file /\ proof' = proof /\ localized' = localized
        /\ certificate' = certificate /\ task' = task /\ calls' = calls /\ trouble' = trouble
    BY <1>1 DEF vars
  <2>2. LocalizeTypeOK' /\ OnDisk' /\ Aggregates' /\ NumberedUpTo(k)'
    BY <2>1 DEF Core, LocalizeTypeOK, OnDisk, Aggregates, NumberedUpTo
  <2>3. InMemory'
    BY <2>1 DEF Core, InMemory
  <2>4. QED
    BY <2>1, <2>2, <2>3 DEF Core
<1>2. ASSUME NEW B \in SUBSET Batch, RetryLocalize(B)
      PROVE  /\ Core' /\ NumberedUpTo(k)'
             /\ \A b \in Batch : history'[b] = history[b]
  BY <1>2, RetryLocalizeStep DEF RetryLocalize, NumberedUpTo
<1>3. ASSUME NEW p \in Process, WriteAggregate(p)
      PROVE  /\ Core' /\ \E m \in Nat : NumberedUpTo(m)'
             /\ \A b \in Batch : history'[b] = history[b]
  BY <1>3, WriteAggregateStep DEF WriteAggregate, batchFiles
<1>4. ASSUME NEW p \in Process, TakeProven(p) \/ TranslateFails(p) \/ RecordBatch(p)
      PROVE  /\ Core' /\ NumberedUpTo(k)'
             /\ \A b \in Batch : history'[b] = history[b] \/ Extends(history'[b], history[b])
  <2>1. UNCHANGED localized
    BY <1>4 DEF TakeProven, TranslateFails, RecordBatch
  <2>2. QED
    BY <1>4, <2>1, TakeProvenStep, TranslateFailsStep, RecordBatchStep DEF NumberedUpTo
<1>5. ASSUME NEW p \in Process,
             \/ Start(p) \/ StartForced(p) \/ TakeMissing(p) \/ Translate(p) \/ WriteBatch(p)
             \/ ProveBatch(p) \/ TakeAggregate(p) \/ PublishAggregate(p) \/ Return(p) \/ Die(p)
      PROVE  /\ Core' /\ NumberedUpTo(k)'
             /\ \A b \in Batch : history'[b] = history[b]
  <2>1. UNCHANGED << localized, history >>
    BY <1>5 DEF Start, StartForced, TakeMissing, Translate, WriteBatch, ProveBatch,
       TakeAggregate, PublishAggregate, Return, Die, batchFiles
  <2>2. Core'
    BY <1>5, StartStep, TakeMissingStep, TranslateStep, WriteBatchStep, ProveBatchStep,
       TakeAggregateStep, PublishAggregateStep, ReturnStep, DieStep
  <2>3. QED
    BY <2>1, <2>2 DEF NumberedUpTo
<1>6. CASE Next
  <2>1. ASSUME NEW p \in Process, Run(p) \/ StartForced(p) \/ Die(p)
        PROVE  /\ Core' /\ \E m \in Nat : NumberedUpTo(m)'
               /\ \A b \in Batch : history'[b] = history[b] \/ Extends(history'[b], history[b])
    BY <1>3, <1>4, <1>5, <2>1 DEF Run
  <2>2. QED
    BY <1>2, <1>6, <2>1 DEF Next
<1>7. QED
  BY <1>1, <1>6

LEMMA CoreInit ==
    ASSUME Init
    PROVE  Core /\ NumberedUpTo(0)
<1>1. DOMAIN << >> = {} /\ << >> \in Seq(Record)
  OBVIOUS
<1>2. LocalizeTypeOK
  BY <1>1, IdleTask DEF Init, LocalizeTypeOK, Troubles
<1>3. OnDisk
  BY <1>1 DEF Init, OnDisk, BatchOnDisk
<1>4. Aggregates /\ NumberedUpTo(0)
  BY <1>1, FS_EmptySet DEF Init, Aggregates, NumberedUpTo
<1>5. InMemory
  BY IdleTask DEF Init, InMemory, Knows
<1>6. QED
  BY <1>2, <1>3, <1>4, <1>5 DEF Core

-----------------------------------------------------------------------------
(* What the calls may cost.                                                 *)

LEMMA BatchesCounted == IsFiniteSet(Batch) /\ Cardinality(Batch) = NBatches
<1>1. NBatches \in Int /\ 1 \in Int /\ ~(1 > NBatches) /\ NBatches - 1 + 1 = NBatches
  BY LocalizeAssumption
<1>2. /\ IsFiniteSet(1 .. NBatches)
      /\ Cardinality(1 .. NBatches) = IF 1 > NBatches THEN 0 ELSE NBatches - 1 + 1
  BY <1>1, FS_Interval, Zenon
<1>3. QED
  BY <1>1, <1>2 DEF Batch

LEMMA OwedCounted ==
    /\ IsFiniteSet(Owed) /\ Cardinality(Owed) \in Nat
    /\ Cardinality(Owed) <= NBatches
<1>1. Owed \subseteq Batch
  BY DEF Owed
<1>2. QED
  BY <1>1, BatchesCounted, FS_Subset, FS_CardinalityType

LEMMA FewerOwed ==
    ASSUME NEW S, IsFiniteSet(S), NEW R, R \subseteq S
    PROVE  /\ Cardinality(R) \in Nat /\ Cardinality(S) \in Nat
           /\ Cardinality(R) <= Cardinality(S)
           /\ \A b \in S : b \notin R => Cardinality(R) + 1 <= Cardinality(S)
<1>1. IsFiniteSet(R) /\ Cardinality(R) <= Cardinality(S)
  BY FS_Subset
<1>2. Cardinality(R) \in Nat /\ Cardinality(S) \in Nat
  BY <1>1, FS_CardinalityType
<1>3. ASSUME NEW b \in S, b \notin R
      PROVE  Cardinality(R) + 1 <= Cardinality(S)
  <2>1. Cardinality(R \cup {b}) = Cardinality(R) + 1
    BY <1>1, <1>3, FS_AddElement
  <2>2. R \cup {b} \subseteq S
    BY <1>3
  <2>3. QED
    BY <2>1, <2>2, FS_Subset
<1>4. QED
  BY <1>1, <1>2, <1>3

LEMMA MoreOwed ==
    ASSUME NEW S, IsFiniteSet(S), NEW b, NEW R, R \subseteq S \cup {b}
    PROVE  Cardinality(R) <= Cardinality(S) + 1
<1>1. /\ IsFiniteSet(S \cup {b})
      /\ Cardinality(S \cup {b}) = Cardinality(S) \/ Cardinality(S \cup {b}) = Cardinality(S) + 1
  BY FS_AddElement
<1>2. Cardinality(R) <= Cardinality(S \cup {b})
  BY <1>1, FS_Subset
<1>3. Cardinality(R) \in Nat /\ Cardinality(S) \in Nat
  BY <1>1, FS_Subset, FS_CardinalityType
<1>4. QED
  BY <1>1, <1>2, <1>3

LEMMA BudgetIs ==
    ASSUME LocalizeTypeOK, LocalizeTypeOK'
    PROVE  /\ Budget \in Nat /\ Budget' \in Nat
           /\ UNCHANGED trouble => Budget' = Budget
           /\ Strike("deaths", MaxDeaths) => Budget' = Budget + 1
           /\ Strike("failures", MaxFailures) => Budget' = Budget
           /\ Strike("forced", MaxForced) => Budget' = Budget + NBatches
           /\ Strike("retries", MaxRetries) => Budget' = Budget + NBatches
<1>1. /\ trouble \in [Troubles -> Nat] /\ trouble' \in [Troubles -> Nat]
      /\ {"deaths", "failures", "retries", "forced"} = Troubles
  BY DEF LocalizeTypeOK, Troubles
<1>2. PICK f, r, d \in Nat : f = trouble.forced /\ r = trouble.retries /\ d = trouble.deaths
  BY <1>1
<1>3. PICK g, s, e \in Nat : g = trouble'.forced /\ s = trouble'.retries /\ e = trouble'.deaths
  BY <1>1
<1>4. Budget = NBatches * (1 + f + r) + d /\ Budget' = NBatches * (1 + g + s) + e
  BY <1>2, <1>3 DEF Budget
<1>5. /\ UNCHANGED trouble => f = g /\ r = s /\ d = e
      /\ Strike("deaths", MaxDeaths) => f = g /\ r = s /\ e = d + 1
      /\ Strike("failures", MaxFailures) => f = g /\ r = s /\ e = d
      /\ Strike("forced", MaxForced) => g = f + 1 /\ r = s /\ e = d
      /\ Strike("retries", MaxRetries) => f = g /\ s = r + 1 /\ e = d
  BY <1>1, <1>2, <1>3, StrikeTrouble
<1>6. \A m, n \in Nat : m * n \in Nat /\ m * (n + 1) = m * n + m
  OBVIOUS
<1>7. PICK x \in Nat : x = 1 + f + r
  OBVIOUS
<1>8. PICK y \in Nat : y = 1 + g + s
  OBVIOUS
<1>9. /\ NBatches * x \in Nat /\ NBatches * y \in Nat
      /\ Budget = NBatches * x + d /\ Budget' = NBatches * y + e
      /\ y = x + 1 => NBatches * y = NBatches * x + NBatches
  BY <1>4, <1>6, <1>7, <1>8
<1>10. /\ f = g /\ r = s => x = y
       /\ (g = f + 1 /\ r = s) \/ (f = g /\ s = r + 1) => y = x + 1
  BY <1>7, <1>8
<1>11. QED
  BY <1>5, <1>9, <1>10

\* Where nothing becomes unproven and no call is made, the balance is kept.
LEMMA BalanceKept ==
    ASSUME LocalizeTypeOK, LocalizeTypeOK', Frugal,
           calls' = calls, Budget' = Budget, Owed' \subseteq Owed,
           \A p \in Process : Ordered(task[p]) \in Nat /\ Ordered(task'[p]) \in Nat
                                 /\ Ordered(task'[p]) <= Ordered(task[p])
    PROVE  Frugal'
<1>1. PICK m, n : m = Cardinality(Owed) /\ n = Cardinality(Owed')
  OBVIOUS
<1>2. m \in Nat /\ n \in Nat /\ n <= m
  BY <1>1, OwedCounted, FewerOwed
<1>3. PICK c, z \in Nat : c = calls /\ z = Budget
  BY BudgetIs DEF LocalizeTypeOK
<1>4. calls' + Cardinality(Owed') <= Budget'
  BY <1>1, <1>2, <1>3 DEF Frugal
<1>5. ASSUME NEW p \in Process
      PROVE  calls' + Cardinality(Owed') + Ordered(task'[p]) <= Budget'
  <2>1. PICK u, v \in Nat : u = Ordered(task[p]) /\ v = Ordered(task'[p])
    OBVIOUS
  <2>2. v <= u /\ c + m + u <= z
    BY <1>1, <1>3, <2>1 DEF Frugal
  <2>3. QED
    BY <1>1, <1>2, <1>3, <2>1, <2>2
<1>6. QED
  BY <1>4, <1>5 DEF Frugal

LEMMA OrderedIs ==
    ASSUME NEW t \in Task, Paid(t) => t.batch \in Batch
    PROVE  Ordered(t) \in Nat
<1>1. t.batch \in 1 .. NBatches + 1
  BY DEF Task
<1>2. QED
  BY <1>1 DEF Ordered, Batch

LEMMA PaidIsInHand ==
    ASSUME Core, NEW p \in Process
    PROVE  /\ task[p] \in Task
           /\ Paid(task[p]) => task[p].batch \in Batch
           /\ Ordered(task[p]) \in Nat
<1>1. task[p] \in Task
  BY DEF Core, LocalizeTypeOK
<1>2. Paid(task[p]) => task[p].batch \in Batch
  BY DEF Core, InMemory, Knows, Paid
<1>3. QED
  BY <1>1, <1>2, OrderedIs

LEMMA GoneTo ==
    ASSUME Core, NEW p \in Process, NEW x, Goto(p, x)
    PROVE  task'[p] = x
  BY DEF Core, LocalizeTypeOK, Goto

\* Steps of the process that make no call and write no result.
LEMMA QuietBalance ==
    ASSUME Core, Core', OneAtATime, Frugal, NEW p \in Process,
           NEW t, t = task[p], NEW x, x = task'[p],
           UNCHANGED << file, proof, calls >>, Budget' = Budget,
           ~Paid(t), ~Paid(x), Ordered(x) <= Ordered(t)
    PROVE  Frugal'
<1>1. \A c \in Batch : Verified(c)' = Verified(c)
  BY DEF Verified
<1>2. \A q \in Process : q = p
  BY DEF OneAtATime
<1>3. Owed' \subseteq Owed
  BY <1>1, <1>2 DEF Owed
<1>4. \A q \in Process : Ordered(task[q]) \in Nat /\ Ordered(task'[q]) \in Nat
                             /\ Ordered(task'[q]) <= Ordered(task[q])
  <2>1. Ordered(t) \in Nat
    BY PaidIsInHand
  <2>2. x \in Task
    BY DEF Core, LocalizeTypeOK
  <2>3. Ordered(x) \in Nat
    BY <2>2, OrderedIs
  <2>4. QED
    BY <1>2, <2>1, <2>3
<1>5. QED
  BY <1>3, <1>4, BalanceKept DEF Core

LEMMA QuietSteps ==
    ASSUME Core, Core', OneAtATime, Frugal, NEW p \in Process,
           \/ Start(p) \/ TakeProven(p) \/ TakeMissing(p) \/ TranslateFails(p)
           \/ TakeAggregate(p) \/ WriteAggregate(p) \/ PublishAggregate(p) \/ Return(p)
    PROVE  Frugal'
<1>1. PICK t, x : t = task[p] /\ x = task'[p]
  OBVIOUS
<1>2. /\ t \in Task /\ x \in Task /\ Ordered(t) \in Nat
      /\ Paid(t) => t.batch \in Batch
  BY <1>1, PaidIsInHand DEF Core, LocalizeTypeOK
<1>3. task' = [task EXCEPT ![p] = x] /\ task \in [Process -> Task]
  BY <1>1, PaidIsInHand DEF Core, LocalizeTypeOK, Start, TakeProven, TakeMissing, TranslateFails,
     TakeAggregate, WriteAggregate, PublishAggregate, Return, Goto
<1>4. UNCHANGED << file, proof, calls >>
  BY DEF Start, TakeProven, TakeMissing, TranslateFails, TakeAggregate, WriteAggregate,
     PublishAggregate, Return, batchFiles
<1>5. Budget' = Budget
  <2>1. UNCHANGED trouble \/ Strike("failures", MaxFailures)
    BY DEF Start, TakeProven, TakeMissing, TranslateFails, TakeAggregate, WriteAggregate,
       PublishAggregate, Return
  <2>2. QED
    BY <2>1, BudgetIs DEF Core
<1>6. t.pc \in {"idle", "batch", "call", "publish", "return"}
  BY <1>1 DEF Start, TakeProven, TakeMissing, TranslateFails, TakeAggregate, WriteAggregate,
     PublishAggregate, Return, At
<1>7. \/ x.pc = "idle"
      \/ x.pc = "batch" /\ ~x.forced
      \/ /\ x.pc \in {"call", "publish", "return"} /\ t.pc # "idle"
         /\ x.batch = t.batch /\ x.forced = t.forced
  <2>1. ASSUME Goto(p, Idle)
        PROVE  x.pc = "idle"
    BY <1>1, <1>3, <2>1, IdleTask DEF Goto
  <2>2. ASSUME Start(p)
        PROVE  x.pc = "batch" /\ ~x.forced
    BY <1>1, <1>3, <2>2 DEF Start, Goto, Idle
  <2>3. CASE TakeProven(p)
    <3>1. t.pc = "batch"
      BY <1>1, <2>3 DEF TakeProven, At
    <3>2. \/ x = Idle
          \/ t.forced /\ \E l : x = [t EXCEPT !.pc = "call", !.previous = l]
          \/ ~t.forced /\ \E k, b, r, n :
                x = [t EXCEPT !.batch = k, !.text[b] = r, !.paths[b] = n]
      <4>1. PICK b, n, l, r : /\ b = t.batch /\ n = Newest(Verified(b))
                              /\ l = Reconciled(b, n) /\ r = file[b][n]
        OBVIOUS
      <4>2. \/ Goto(p, Idle)
            \/ Goto(p, IF t.forced
                       THEN [t EXCEPT !.pc = "call", !.previous = l]
                       ELSE [t EXCEPT !.batch = b + 1, !.text[b] = r, !.paths[b] = n])
        BY <1>1, <2>3, <4>1 DEF TakeProven
      <4>3. \/ Goto(p, Idle)
            \/ t.forced /\ Goto(p, [t EXCEPT !.pc = "call", !.previous = l])
            \/ ~t.forced /\ Goto(p, [t EXCEPT !.batch = b + 1, !.text[b] = r, !.paths[b] = n])
        BY <4>2
      <4>4. \/ x = Idle
            \/ t.forced /\ x = [t EXCEPT !.pc = "call", !.previous = l]
            \/ ~t.forced /\ x = [t EXCEPT !.batch = b + 1, !.text[b] = r, !.paths[b] = n]
        BY <1>1, <4>3, GoneTo
      <4>5. QED
        BY <4>4
    <3>3. QED
      BY <1>2, <3>1, <3>2, IdleTask DEF Task
  <2>4. CASE TakeMissing(p) \/ TakeAggregate(p) \/ WriteAggregate(p) \/ PublishAggregate(p)
    <3>1. t.pc \in {"batch", "publish"}
      BY <1>1, <2>4 DEF TakeMissing, TakeAggregate, WriteAggregate, PublishAggregate, At
    <3>2. \/ \E l : x = [t EXCEPT !.pc = "call", !.previous = l]
          \/ \E l : x = [t EXCEPT !.pc = "return", !.name = l]
          \/ \E l : x = [t EXCEPT !.pc = "publish", !.name = l]
          \/ x = [t EXCEPT !.pc = "return"]
      BY <1>1, <2>4, GoneTo DEF TakeMissing, TakeAggregate, WriteAggregate, PublishAggregate
    <3>3. QED
      BY <1>2, <3>1, <3>2 DEF Task
  <2>5. QED
    BY <2>1, <2>2, <2>3, <2>4 DEF TranslateFails, Return
<1>9. ~Paid(t) /\ ~Paid(x)
  BY <1>6, <1>7 DEF Paid
<1>10. Ordered(x) <= Ordered(t)
  BY <1>2, <1>6, <1>7, <1>9 DEF Ordered, Task
<1>11. QED
  BY <1>1, <1>4, <1>5, <1>9, <1>10, QuietBalance

LEMMA BatchSteps ==
    ASSUME Core, Core', OneAtATime, Frugal, NEW p \in Process,
           WriteBatch(p) \/ ProveBatch(p) \/ RecordBatch(p)
    PROVE  Frugal'
<1>1. PICK pc \in {"write", "prove", "record"} : At(p, pc)
  BY DEF WriteBatch, ProveBatch, RecordBatch
<1>2. PICK t \in Task, b \in Batch, h \in Seq(Record) :
         /\ t = task[p] /\ t.pc = pc /\ t.batch = b
         /\ h = history[b]
         /\ InHand(t, h, file[b], proof[b])
  BY <1>1, Handled
<1>3. PICK x : x = task'[p]
  OBVIOUS
<1>4. x \in Task /\ \A q \in Process : q = p
  BY <1>3 DEF Core, LocalizeTypeOK, OneAtATime
<1>5. UNCHANGED << calls, trouble >>
  BY DEF WriteBatch, ProveBatch, RecordBatch
<1>6. /\ \A c \in Batch : c # b => file'[c] = file[c] /\ proof'[c] = proof[c]
      /\ RecordBatch(p) => UNCHANGED << file, proof >>
  BY <1>2 DEF Core, LocalizeTypeOK, WriteBatch, ProveBatch, RecordBatch
<1>7. \/ x = [t EXCEPT !.pc = "prove"] \/ x = [t EXCEPT !.pc = "record"]
      \/ /\ RecordBatch(p) /\ pc = "record"
         /\ x = [t EXCEPT !.pc = "batch", !.batch = b + 1,
                          !.text[b] = t.result, !.paths[b] = Revision(t)]
  BY <1>1, <1>2, <1>3, GoneTo DEF WriteBatch, ProveBatch, RecordBatch, At
<1>8. /\ x.forced = t.forced
      /\ \/ x.pc \in {"prove", "record"} /\ x.batch = b
         \/ RecordBatch(p) /\ pc = "record" /\ x.pc = "batch" /\ x.batch = b + 1
  BY <1>2, <1>7 DEF Task
<1>9. pc = "record" => Verified(b) # {}
  BY <1>2 DEF InHand, Proves, Verified
<1>10. Owed' \subseteq Owed
  <2>1. ASSUME NEW c \in Owed'
        PROVE  c \in Owed
    <3>1. c \in Batch /\ Verified(c)' = {} /\ (Paid(x) => x.batch # c)
      BY <1>3 DEF Owed
    <3>2. c # b
      BY <1>6, <1>8, <1>9, <3>1 DEF Paid, Verified
    <3>3. Verified(c) = {}
      BY <1>6, <3>1, <3>2 DEF Verified
    <3>4. QED
      BY <1>2, <1>4, <3>1, <3>2, <3>3 DEF Owed
  <2>2. QED
    BY <2>1
<1>11. Ordered(x) = Ordered(t) /\ Ordered(t) \in Nat
  BY <1>1, <1>2, <1>8, PaidIsInHand DEF Ordered, Paid, Batch
<1>12. \A q \in Process : Ordered(task[q]) \in Nat /\ Ordered(task'[q]) \in Nat
                              /\ Ordered(task'[q]) <= Ordered(task[q])
  BY <1>2, <1>3, <1>4, <1>11
<1>13. Budget' = Budget
  BY <1>5, BudgetIs DEF Core
<1>14. QED
  BY <1>5, <1>10, <1>12, <1>13, BalanceKept DEF Core

LEMMA CallBalance ==
    ASSUME Core, Core', OneAtATime, Frugal, NEW p \in Process, Translate(p)
    PROVE  Frugal'
<1>1. PICK t \in Task, b \in Batch, h \in Seq(Record) :
         /\ t = task[p] /\ t.pc = "call" /\ t.batch = b
         /\ InHand(t, h, file[b], proof[b])
  BY Handled DEF Translate
<1>2. PICK x : x = task'[p]
  OBVIOUS
<1>3. x.pc = "write" /\ x.batch = b /\ x.forced = t.forced /\ x \in Task
  <2>1. PICK r \in Nat : r = calls + 1
    BY DEF Core, LocalizeTypeOK
  <2>2. x = [t EXCEPT !.pc = "write", !.result = r]
    BY <1>1, <1>2, <2>1, GoneTo DEF Translate
  <2>3. QED
    BY <1>1, <1>2, <2>2 DEF Task, Phase
<1>4. UNCHANGED << file, proof, trouble >> /\ calls' = calls + 1
  BY DEF Translate, batchFiles
<1>5. \A q \in Process : q = p
  BY DEF OneAtATime
<1>6. \A c \in Batch : Verified(c)' = Verified(c)
  BY <1>4 DEF Verified
<1>7. Owed' \subseteq Owed /\ b \notin Owed'
  BY <1>1, <1>2, <1>3, <1>5, <1>6 DEF Owed, Paid
<1>8. ~t.forced => b \in Owed
  <2>1. ~t.forced => Verified(b) = {}
    BY <1>1, VerifiedAre DEF Core, InHand
  <2>2. QED
    BY <1>1, <1>5, <2>1 DEF Owed, Paid
<1>9. PICK m, n \in Nat : m = Cardinality(Owed) /\ n = Cardinality(Owed')
  BY <1>7, OwedCounted, FewerOwed
<1>10. n <= m /\ (~t.forced => n + 1 <= m)
  BY <1>7, <1>8, <1>9, OwedCounted, FewerOwed
<1>11. PICK c, z \in Nat : c = calls /\ z = Budget
  BY BudgetIs DEF Core, LocalizeTypeOK
<1>12. Budget' = z
  BY <1>4, <1>11, BudgetIs DEF Core
<1>13. PICK u, v \in Nat : u = Ordered(t) /\ v = Ordered(x)
  BY <1>1, <1>3, OrderedIs
<1>14. IF t.forced THEN v + 1 = u ELSE v = 0 /\ u = 0
  BY <1>1, <1>3, <1>13 DEF Ordered, Paid, Batch
<1>15. c + m + u <= z
  BY <1>1, <1>9, <1>11, <1>13 DEF Frugal
<1>16. (c + 1) + n + v <= z
  BY <1>10, <1>14, <1>15
<1>17. calls' = c + 1 /\ (c + 1) + n <= z
  BY <1>4, <1>11, <1>16
<1>18. QED
  BY <1>2, <1>5, <1>9, <1>12, <1>13, <1>16, <1>17 DEF Frugal

LEMMA DeathBalance ==
    ASSUME Core, Core', OneAtATime, Frugal, NEW p \in Process, Die(p)
    PROVE  Frugal'
<1>1. PICK b : b = task[p].batch
  OBVIOUS
<1>2. /\ UNCHANGED << file, proof, calls >> /\ Strike("deaths", MaxDeaths)
      /\ task'[p] = Idle
  BY GoneTo DEF Die, batchFiles
<1>3. \A q \in Process : q = p
  BY DEF OneAtATime
<1>4. \A c \in Batch : Verified(c)' = Verified(c)
  BY <1>2 DEF Verified
<1>5. Owed' \subseteq Owed \cup {b}
  BY <1>1, <1>3, <1>4 DEF Owed
<1>6. PICK m, n \in Nat : m = Cardinality(Owed) /\ n = Cardinality(Owed') /\ n <= m + 1
  <2>1. Cardinality(Owed') <= Cardinality(Owed) + 1
    BY <1>5, OwedCounted, MoreOwed
  <2>2. Cardinality(Owed') \in Nat
    BY <1>5, OwedCounted, FS_AddElement, FewerOwed
  <2>3. QED
    BY <2>1, <2>2, OwedCounted
<1>7. PICK c, z \in Nat : c = calls /\ z = Budget
  BY BudgetIs DEF Core, LocalizeTypeOK
<1>8. Budget' = z + 1 /\ calls' = c
  BY <1>2, <1>7, BudgetIs DEF Core
<1>9. c + m <= z
  BY <1>6, <1>7 DEF Frugal
<1>10. c + n <= z + 1 /\ c + n + 0 <= z + 1
  BY <1>6, <1>9
<1>11. \A q \in Process : Ordered(task'[q]) = 0
  BY <1>2, <1>3, IdleTask DEF Ordered
<1>12. QED
  BY <1>6, <1>8, <1>10, <1>11 DEF Frugal

LEMMA ForceBalance ==
    ASSUME Core, Core', OneAtATime, Frugal, NEW p \in Process, StartForced(p)
    PROVE  Frugal'
<1>1. /\ UNCHANGED << file, proof, calls >> /\ Strike("forced", MaxForced)
      /\ task[p].pc = "idle"
      /\ task'[p] = [Idle EXCEPT !.pc = "batch", !.forced = TRUE]
  BY GoneTo DEF StartForced, batchFiles, At
<1>2. \A q \in Process : q = p
  BY DEF OneAtATime
<1>3. \A c \in Batch : Verified(c)' = Verified(c)
  BY <1>1 DEF Verified
<1>4. Owed' \subseteq Owed
  BY <1>1, <1>2, <1>3 DEF Owed, Paid
<1>5. PICK m, n \in Nat : m = Cardinality(Owed) /\ n = Cardinality(Owed') /\ n <= m
  BY <1>4, OwedCounted, FewerOwed
<1>6. PICK c, z \in Nat : c = calls /\ z = Budget
  BY BudgetIs DEF Core, LocalizeTypeOK
<1>7. Budget' = z + NBatches /\ calls' = c
  BY <1>1, <1>6, BudgetIs DEF Core
<1>8. c + m <= z
  BY <1>5, <1>6 DEF Frugal
<1>9. c + n <= z + NBatches /\ c + n + NBatches <= z + NBatches
  BY <1>5, <1>8
<1>10. \A q \in Process : Ordered(task'[q]) = NBatches
  <2>1. /\ task'[p].pc = "batch" /\ task'[p].forced /\ task'[p].batch = 1
    BY <1>1 DEF Idle
  <2>2. QED
    BY <1>2, <2>1 DEF Ordered, Paid
<1>11. QED
  BY <1>5, <1>7, <1>9, <1>10 DEF Frugal

LEMMA RetryBalance ==
    ASSUME Core, Core', Frugal, NEW B, RetryLocalize(B)
    PROVE  Frugal'
<1>1. /\ UNCHANGED << task, calls >> /\ Strike("retries", MaxRetries)
      /\ \A q \in Process : task'[q].pc = "idle"
  BY DEF RetryLocalize, At
<1>2. PICK m, n \in Nat : m = Cardinality(Owed) /\ n = Cardinality(Owed') /\ n <= NBatches
  <2>1. IsFiniteSet(Batch) /\ Cardinality(Batch) = NBatches
    BY BatchesCounted
  <2>2. Owed' \subseteq Batch
    BY DEF Owed
  <2>3. QED
    BY <2>1, <2>2, OwedCounted, FewerOwed
<1>3. PICK c, z \in Nat : c = calls /\ z = Budget
  BY BudgetIs DEF Core, LocalizeTypeOK
<1>4. Budget' = z + NBatches /\ calls' = c
  BY <1>1, <1>3, BudgetIs DEF Core
<1>5. c + m <= z
  BY <1>2, <1>3 DEF Frugal
<1>6. c + n <= z + NBatches /\ c + n + 0 <= z + NBatches
  BY <1>2, <1>5
<1>7. \A q \in Process : Ordered(task'[q]) = 0
  BY <1>1 DEF Ordered
<1>8. QED
  BY <1>2, <1>4, <1>6, <1>7 DEF Frugal

LEMMA FrugalStep ==
    ASSUME Core, Core', OneAtATime, Frugal, [Next]_vars
    PROVE  Frugal'
<1>1. CASE UNCHANGED vars
  <2>1. UNCHANGED << file, proof, task, calls, trouble >>
    BY <1>1 DEF vars
  <2>2. \A c \in Batch : Verified(c)' = Verified(c)
    BY <2>1 DEF Verified
  <2>3. Owed' = Owed /\ Budget' = Budget
    BY <2>1, <2>2 DEF Owed, Budget
  <2>4. QED
    BY <2>1, <2>3 DEF Frugal
<1>2. CASE Next
  BY <1>2, QuietSteps, BatchSteps, CallBalance, DeathBalance, ForceBalance, RetryBalance
     DEF Next, Run
<1>3. QED
  BY <1>1, <1>2

LEMMA FrugalInit ==
    ASSUME Init
    PROVE  Frugal
<1>1. PICK m \in Nat : m = Cardinality(Owed) /\ m <= NBatches
  BY OwedCounted
<1>2. calls = 0 /\ Budget = NBatches
  BY DEF Init, Budget
<1>3. \A p \in Process : Ordered(task[p]) = 0
  BY IdleTask DEF Init, Ordered
<1>4. QED
  BY <1>1, <1>2, <1>3 DEF Frugal

LEMMA LocalizeInvariance ==
    ASSUME OneAtATime
    PROVE  Spec => []LocalizeInductive
<1>1. Init => LocalizeInductive
  BY CoreInit, FrugalInit DEF LocalizeInductive
<1>2. LocalizeInductive /\ [Next]_vars => LocalizeInductive'
  BY CoreStep, FrugalStep DEF LocalizeInductive
<1>3. QED
  BY <1>1, <1>2, PTL DEF Spec

-----------------------------------------------------------------------------
(* The theorems.                                                            *)

\* localize.py:645-660: whatever a process died in the middle of, its successor
\* finds every proven result of a batch on record under its own number, or about
\* to be.
THEOREM OnRecordTheorem ==
    ASSUME OneAtATime
    PROVE  Spec => []ProofsAreOnRecord
<1>1. ASSUME Core
      PROVE  ProofsAreOnRecord
  <2>1. ASSUME NEW b \in Batch, NEW n \in Verified(b)
        PROVE  \/ n = Len(history[b]) + 1
               \/ /\ n <= Len(history[b])
                  /\ history[b][n] = Attempt("completed", file[b][n])
    <3>1. n \in 1 .. Len(history[b]) + 1 /\ history[b] \in Seq(Record)
      BY <1>1, VerifiedAre DEF Core, LocalizeTypeOK
    <3>2. n <= Len(history[b]) => history[b][n] = Attempt("completed", file[b][n])
      BY <1>1, VerifiedAre DEF Core, OnDisk, BatchOnDisk
    <3>3. QED
      BY <3>1, <3>2
  <2>2. QED
    BY <2>1 DEF ProofsAreOnRecord
<1>2. LocalizeInductive => ProofsAreOnRecord
  BY <1>1 DEF LocalizeInductive
<1>3. QED
  BY <1>2, LocalizeInvariance, PTL

\* localize.py: apart from what force and retries ask for, deaths cost at most
\* the one call that was in flight.
THEOREM CostTheorem ==
    ASSUME OneAtATime
    PROVE  Spec => []DeathCostsOneCall
<1>1. ASSUME Core, Frugal
      PROVE  DeathCostsOneCall
  <2>1. PICK m \in Nat : m = Cardinality(Owed)
    BY OwedCounted
  <2>2. PICK c \in Nat : c = calls
    BY <1>1 DEF Core, LocalizeTypeOK
  <2>3. PICK z \in Int : z = Budget
    <3>1. /\ trouble.forced \in Nat /\ trouble.retries \in Nat /\ trouble.deaths \in Nat
      BY <1>1 DEF Core, LocalizeTypeOK, Troubles
    <3>2. QED
      BY <3>1 DEF Budget
  <2>4. c <= z
    BY <1>1, <2>1, <2>2, <2>3 DEF Frugal
  <2>5. QED
    BY <2>2, <2>3, <2>4 DEF DeathCostsOneCall, Budget
<1>2. LocalizeInductive => DeathCostsOneCall
  BY <1>1 DEF LocalizeInductive
<1>3. QED
  BY <1>2, LocalizeInvariance, PTL

LEMMA PrefixIs ==
    ASSUME NEW h \in Seq(Record), NEW g \in Seq(Record), Extends(g, h)
    PROVE  SubSeq(g, 1, Len(h)) = h
<1>1. Len(h) \in Nat /\ Len(g) \in Nat /\ Len(h) <= Len(g)
  BY DEF Extends
<1>2. PICK s : s = SubSeq(g, 1, Len(h))
  OBVIOUS
<1>3. s = [i \in 1 .. Len(h) |-> g[i]]
  BY <1>1, <1>2
<1>4. h = [i \in 1 .. Len(h) |-> h[i]]
  OBVIOUS
<1>5. \A i \in 1 .. Len(h) : g[i] = h[i]
  BY DEF Extends
<1>6. QED
  BY <1>2, <1>3, <1>4, <1>5, Zenon

\* localize.py: attempts are appended to the history of their batch and never
\* rewritten, across failures, deaths and the reconciliation after them.
THEOREM HistoryTheorem ==
    ASSUME OneAtATime
    PROVE  Spec => HistoryOnlyGrows
<1>1. ASSUME LocalizeInductive, [Next]_vars
      PROVE  \A b \in Batch :
                /\ Len(history[b]) <= Len(history'[b])
                /\ SubSeq(history'[b], 1, Len(history[b])) = history[b]
  <2>1. ASSUME NEW b \in Batch
        PROVE  /\ Len(history[b]) <= Len(history'[b])
               /\ SubSeq(history'[b], 1, Len(history[b])) = history[b]
    <3>1. Core' /\ (history'[b] = history[b] \/ Extends(history'[b], history[b]))
      BY <1>1, CoreStep DEF LocalizeInductive
    <3>2. PICK h, g : h = history[b] /\ g = history'[b]
      OBVIOUS
    <3>3. h \in Seq(Record) /\ g \in Seq(Record)
      BY <1>1, <3>1, <3>2 DEF LocalizeInductive, Core, LocalizeTypeOK
    <3>4. Extends(g, h)
      BY <3>1, <3>2, <3>3 DEF Extends
    <3>5. Len(h) <= Len(g) /\ SubSeq(g, 1, Len(h)) = h
      BY <3>3, <3>4, PrefixIs DEF Extends
    <3>6. QED
      BY <3>2, <3>5
  <2>2. QED
    BY <2>1
<1>2. QED
  BY <1>1, LocalizeInvariance, PTL DEF Spec, HistoryOnlyGrows

\* localize.py: what the stage delivers, written now or taken over, is made of
\* the newest proven result of every batch.
THEOREM DeliveryTheorem ==
    ASSUME OneAtATime
    PROVE  Spec => DeliveredIsCurrent
<1>1. ASSUME LocalizeInductive, [Next]_vars, output' # output, output' # NoOutput
      PROVE  \A b \in Batch :
                \E n \in DOMAIN proof'[b] :
                   /\ proof'[b][n] = Proven(localized'[output'][b])
                   /\ \A m \in DOMAIN proof'[b] :
                         proof'[b][m].status = "completed" => m <= n
  <2>1. PICK p \in Process : Return(p)
    BY <1>1 DEF Next, Run, Start, StartForced, TakeProven, TakeMissing, Translate, TranslateFails,
       WriteBatch, ProveBatch, RecordBatch, TakeAggregate, WriteAggregate, PublishAggregate,
       Die, RetryLocalize, vars
  <2>2. PICK t : t = task[p]
    OBVIOUS
  <2>3. /\ t \in Task /\ t.pc = "return" /\ output' = t.name
        /\ proof' = proof /\ localized' = localized
    BY <1>1, <2>1, <2>2 DEF Return, At, batchFiles, LocalizeInductive, Core, LocalizeTypeOK
  <2>4. Knows(t, history, file, proof, localized)
    BY <1>1, <2>2 DEF LocalizeInductive, Core, InMemory
  <2>5. /\ Done(t, file, proof) /\ t.batch \notin Batch
        /\ t.name \in DOMAIN localized /\ t.name[1] = t.text
    BY <2>3, <2>4 DEF Knows
  <2>6. localized[t.name] = t.text
    BY <1>1, <2>5 DEF LocalizeInductive, Core, Aggregates
  <2>7. ASSUME NEW b \in Batch
        PROVE  Current(proof[b], t.paths[b], t.text[b])
    <3>1. b < t.batch
      BY <2>3, <2>5, BatchNumbers DEF Task
    <3>2. QED
      BY <2>5, <3>1 DEF Done
  <2>8. ASSUME NEW b \in Batch
        PROVE  \E n \in DOMAIN proof'[b] :
                  /\ proof'[b][n] = Proven(localized'[output'][b])
                  /\ \A m \in DOMAIN proof'[b] :
                        proof'[b][m].status = "completed" => m <= n
    BY <2>3, <2>6, <2>7 DEF Current, Proves
  <2>9. QED
    BY <2>8
<1>2. QED
  BY <1>1, LocalizeInvariance, PTL DEF Spec, DeliveredIsCurrent

=============================================================================
