----------------------------- MODULE RenderProofs -----------------------------
(* Theorems about the render stage on disk, for any number of deaths, failed  *)
(* commands, retries, forced runs and losses of the report directory.         *)
EXTENDS Render, NumberedProofs

USE RenderAssumption

Proved == Text \cup Media

Phase == {"idle", "work", "making", "checking", "place", "prove",
          "seal", "report", "certify", "deliver"}

Task ==
    [pc : Phase, at : 1 .. 7, forced : BOOLEAN, new : BOOLEAN, revision : Nat,
     path : [Proved -> Nat]]

\* Verifies, of any contents of the directories.
Valid(f, p, k, r) ==
    /\ r \in DOMAIN p[k] /\ r \in DOMAIN f[k]
    /\ p[k][r].status = "completed"
    /\ f[k][r] = p[k][r].seen

\* The directories: every sidecar lies beside its file.
Directories ==
    /\ file = [k \in Kind |-> file[k]]
    /\ proof = [k \in Kind |-> proof[k]]
    /\ \A k \in Kind : \A r \in DOMAIN proof[k] :
          /\ r \in DOMAIN file[k]
          /\ proof[k][r] = [status |-> proof[k][r].status, seen |-> proof[k][r].seen]

\* The revisions that exist, or that are being made, are numbered up to n.
NumberedUpTo(n) ==
    /\ \A k \in Kind : DOMAIN file[k] \subseteq 0 .. n
    /\ task.revision \in 0 .. n
    /\ \A k \in Proved : task.path[k] \in 0 .. n

\* A history that was sealed has no command in it that still runs.
SealedLogs ==
    \A r \in DOMAIN proof[Log] :
        proof[Log][r].status = "completed" =>
            \A i \in DOMAIN proof[Log][r].seen : proof[Log][r].seen[i] # "running"

\* The media a proven report refers to were published with a sidecar.
ReportsReferToProven ==
    \A r \in DOMAIN proof[Report] : \A k \in Media :
        file[Report][r].path[k] \in DOMAIN proof[k]

OnDisk == Directories /\ SealedLogs /\ ReportsReferToProven /\ ReportsTellTheTruth

\* What the process has in memory and at which point of its work it is.  Where
\* it is going to write there is no sidecar, or a valid one and no need to.
Started ==
    \/ task.at > 3
    \/ At("making") \/ At("checking")

Underway ==
    /\ At("work") \/ At("making") \/ At("checking") \/ At("place") \/ At("prove")
          => task.at \in 1 .. 6
    /\ At("seal") \/ At("report") \/ At("certify") \/ At("deliver") => task.at = 7
    /\ \A k \in Proved : task.path[k] \in DOMAIN proof[k] => Valid(file, proof, k, task.path[k])
    /\ \A j \in 1 .. 6 : j < task.at /\ Work[j] \in Proved
          => Valid(file, proof, Work[j], task.path[Work[j]])
    /\ At("making") \/ At("place") => kind \in Media /\ ~Valid(file, proof, kind, path)
    /\ At("checking") => kind \notin Text /\ (kind \in Media => task.new \/ Valid(file, proof, kind, path))
    /\ At("prove") => kind \in Proved /\ path \in DOMAIN file[kind]
    /\ task.new => task.at # 7 /\ kind \in Media /\ path \in DOMAIN file[kind]
    /\ Started => rev \in DOMAIN file[Log]
    /\ ~At("deliver") => rev \notin DOMAIN proof[Report]
    /\ At("report") \/ At("certify") \/ At("deliver") =>
          /\ Valid(file, proof, Log, rev)
          /\ \A i \in DOMAIN LogOf(rev) : LogOf(rev)[i] # "running"
    /\ At("certify") \/ At("deliver") =>
          /\ rev \in DOMAIN file[Report]
          /\ file[Report][rev].path = task.path
          /\ file[Report][rev].log = LogOf(rev)
          /\ \A k \in Media : file[Report][rev].media[k] = file[k][task.path[k]]
    /\ At("deliver") => Valid(file, proof, Report, rev)

InMemory == task \in Task /\ (~At("idle") => Underway)

RenderInductive == OnDisk /\ InMemory /\ \E n \in Nat : NumberedUpTo(n)

-----------------------------------------------------------------------------
(* The directories.                                                         *)

LEMMA KindsApart ==
    /\ Proved \subseteq Kind /\ Text \subseteq Proved /\ Media \subseteq Proved
    /\ Log \in Kind /\ Report \in Kind /\ Log # Report
    /\ Log \notin Proved /\ Report \notin Proved
    /\ \A k \in Media : k \notin Text
    /\ Kind = Proved \cup {Log, Report}
  BY DEF Kind, Proved, Text, Media, Log, Report

LEMMA WriteFacts ==
    ASSUME Directories, NEW k \in Kind, NEW r, NEW c, Write(k, r, c)
    PROVE  /\ file' = [q \in Kind |-> file'[q]]
           /\ \A q \in Kind : q # k => file'[q] = file[q]
           /\ DOMAIN file'[k] = DOMAIN file[k] \cup {r}
           /\ file'[k][r] = c
           /\ \A n \in DOMAIN file[k] : n # r => file'[k][n] = file[k][n]
<1>1. file' = [file EXCEPT ![k] = With(file[k], r, c)] /\ file = [q \in Kind |-> file[q]]
  BY DEF Write, Directories
<1>2. file'[k] = With(file[k], r, c)
  BY <1>1
<1>3. /\ file' = [q \in Kind |-> file'[q]]
      /\ \A q \in Kind : q # k => file'[q] = file[q]
  BY <1>1
<1>4. QED
  BY <1>2, <1>3 DEF With

LEMMA ProveFacts ==
    ASSUME Directories, NEW k \in Kind, NEW r, Prove(k, r)
    PROVE  /\ proof' = [q \in Kind |-> proof'[q]]
           /\ \A q \in Kind : q # k => proof'[q] = proof[q]
           /\ DOMAIN proof'[k] = DOMAIN proof[k] \cup {r}
           /\ proof'[k][r] = [status |-> "completed", seen |-> file[k][r]]
           /\ \A n \in DOMAIN proof[k] : n # r => proof'[k][n] = proof[k][n]
<1> DEFINE c == [status |-> "completed", seen |-> file[k][r]]
<1>1. proof' = [proof EXCEPT ![k] = With(proof[k], r, c)] /\ proof = [q \in Kind |-> proof[q]]
  BY DEF Prove, Directories
<1>2. proof'[k] = With(proof[k], r, c)
  BY <1>1
<1>3. /\ proof' = [q \in Kind |-> proof'[q]]
      /\ \A q \in Kind : q # k => proof'[q] = proof[q]
  BY <1>1
<1>4. QED
  BY <1>2, <1>3 DEF With

LEMMA DiskUntouched ==
    ASSUME OnDisk, UNCHANGED << file, proof >>
    PROVE  OnDisk'
<1>1. file' = file /\ proof' = proof
  OBVIOUS
<1>2. Directories'
  BY <1>1 DEF OnDisk, Directories
<1>3. SealedLogs' /\ ReportsReferToProven'
  BY <1>1 DEF OnDisk, SealedLogs, ReportsReferToProven
<1>4. ReportsTellTheTruth'
  BY <1>1 DEF OnDisk, ReportsTellTheTruth, LogOf
<1>5. QED
  BY <1>2, <1>3, <1>4 DEF OnDisk

LEMMA LogWritten ==
    ASSUME OnDisk, NEW r, r \notin DOMAIN proof[Report], NEW c, Write(Log, r, c),
           UNCHANGED proof
    PROVE  /\ OnDisk'
           /\ \A q \in Kind \ {Log} : file'[q] = file[q]
           /\ \A q \in Kind \ {Log} : \A n : Valid(file', proof', q, n) <=> Valid(file, proof, q, n)
           /\ r \in DOMAIN file'[Log]
           /\ DOMAIN file[Log] \subseteq DOMAIN file'[Log]
<1>1. /\ file' = [q \in Kind |-> file'[q]]
      /\ \A q \in Kind : q # Log => file'[q] = file[q]
      /\ DOMAIN file'[Log] = DOMAIN file[Log] \cup {r}
      /\ \A n \in DOMAIN file[Log] : n # r => file'[Log][n] = file[Log][n]
  <2>1. Directories /\ Log \in Kind
    BY KindsApart DEF OnDisk
  <2>2. QED
    BY <2>1, WriteFacts
<1>2. Directories'
  BY <1>1, KindsApart DEF OnDisk, Directories
<1>3. SealedLogs' /\ ReportsReferToProven'
  BY <1>1, KindsApart DEF OnDisk, SealedLogs, ReportsReferToProven
<1>4. \A x \in DOMAIN proof[Report] : LogOf(x)' = LogOf(x)
  BY <1>1 DEF LogOf
<1>5. ReportsTellTheTruth'
  BY <1>1, <1>4, KindsApart DEF OnDisk, ReportsTellTheTruth
<1>6. \A q \in Kind \ {Log} : \A n : Valid(file', proof', q, n) <=> Valid(file, proof, q, n)
  BY <1>1 DEF Valid
<1>7. QED
  BY <1>1, <1>2, <1>3, <1>5, <1>6 DEF OnDisk

LEMMA UnprovenWritten ==
    ASSUME OnDisk, NEW k \in Proved, NEW r, r \notin DOMAIN proof[k], NEW c,
           Write(k, r, c), UNCHANGED proof
    PROVE  /\ OnDisk'
           /\ \A q \in Kind : \A n : Valid(file, proof, q, n) => Valid(file', proof', q, n)
           /\ \A q \in Kind : \A n \in DOMAIN proof[q] : file'[q][n] = file[q][n]
           /\ \A q \in Kind : q # k => file'[q] = file[q]
           /\ r \in DOMAIN file'[k]
<1> k \in Kind
  BY KindsApart
<1>1. /\ file' = [q \in Kind |-> file'[q]]
      /\ \A q \in Kind : q # k => file'[q] = file[q]
      /\ DOMAIN file'[k] = DOMAIN file[k] \cup {r}
      /\ \A n \in DOMAIN file[k] : n # r => file'[k][n] = file[k][n]
  BY WriteFacts DEF OnDisk
<1>2. Directories'
  BY <1>1 DEF OnDisk, Directories
<1>3. SealedLogs' /\ ReportsReferToProven'
  BY <1>1, KindsApart DEF OnDisk, SealedLogs, ReportsReferToProven
<1>4. \A q \in Kind : \A n \in DOMAIN proof[q] : file'[q][n] = file[q][n]
  BY <1>1 DEF OnDisk, Directories
<1>5. ReportsTellTheTruth'
  <2>1. \A x : LogOf(x)' = LogOf(x)
    BY <1>1, KindsApart DEF LogOf
  <2>2. file'[Report] = file[Report]
    BY <1>1, KindsApart
  <2>3. QED
    BY <1>4, <2>1, <2>2, KindsApart DEF OnDisk, ReportsTellTheTruth, ReportsReferToProven
<1>6. \A q \in Kind : \A n : Valid(file, proof, q, n) => Valid(file', proof', q, n)
  BY <1>1 DEF Valid
<1>7. QED
  BY <1>1, <1>2, <1>3, <1>4, <1>5, <1>6 DEF OnDisk

\* A sidecar is written beside its file.
LEMMA SidecarWritten ==
    ASSUME OnDisk, NEW k \in Kind, NEW r \in DOMAIN file[k], Prove(k, r),
           UNCHANGED file,
           k = Log => \A i \in DOMAIN file[Log][r] : file[Log][r][i] # "running",
           k = Report => /\ file[Report][r].log = LogOf(r)
                         /\ \A q \in Media :
                               /\ file[Report][r].path[q] \in DOMAIN proof[q]
                               /\ file[Report][r].media[q] = file[q][file[Report][r].path[q]]
    PROVE  /\ OnDisk'
           /\ Valid(file', proof', k, r)
           /\ \A q \in Kind : \A n : Valid(file, proof, q, n) => Valid(file', proof', q, n)
           /\ \A q \in Kind : q # k => DOMAIN proof'[q] = DOMAIN proof[q]
           /\ DOMAIN proof'[k] = DOMAIN proof[k] \cup {r}
<1>1. /\ proof' = [q \in Kind |-> proof'[q]]
      /\ \A q \in Kind : q # k => proof'[q] = proof[q]
      /\ DOMAIN proof'[k] = DOMAIN proof[k] \cup {r}
      /\ proof'[k][r] = [status |-> "completed", seen |-> file[k][r]]
      /\ \A n \in DOMAIN proof[k] : n # r => proof'[k][n] = proof[k][n]
  BY ProveFacts DEF OnDisk
<1>2. Directories'
  BY <1>1 DEF OnDisk, Directories
<1>3. SealedLogs'
  BY <1>1, KindsApart DEF OnDisk, SealedLogs
<1>4. \A q \in Kind : DOMAIN proof[q] \subseteq DOMAIN proof'[q]
  BY <1>1
<1>5. ReportsReferToProven'
  <2>1. ASSUME NEW x \in DOMAIN proof'[Report], NEW q \in Media
        PROVE  file[Report][x].path[q] \in DOMAIN proof[q]
    BY <1>1, KindsApart DEF OnDisk, ReportsReferToProven
  <2>2. QED
    BY <1>4, <2>1, KindsApart DEF ReportsReferToProven
<1>6. ReportsTellTheTruth'
  <2>1. ASSUME NEW x \in DOMAIN proof'[Report]
        PROVE  \/ x \in DOMAIN proof[Report]
               \/ k = Report /\ x = r
    BY <1>1, KindsApart
  <2>2. QED
    BY <2>1 DEF OnDisk, ReportsTellTheTruth, LogOf
<1>7. Valid(file', proof', k, r)
  BY <1>1 DEF Valid
<1>8. \A q \in Kind : \A n : Valid(file, proof, q, n) => Valid(file', proof', q, n)
  BY <1>1 DEF Valid
<1>9. QED
  BY <1>1, <1>2, <1>3, <1>5, <1>6, <1>7, <1>8 DEF OnDisk

-----------------------------------------------------------------------------
(* The process.                                                             *)

LEMMA WorkKinds ==
    /\ \A j \in 1 .. 6 : Work[j] \in Text <=> j \in {1, 2}
    /\ \A j \in 1 .. 6 : Work[j] \in Media <=> j \in {4, 6}
    /\ \A k \in Proved : \E j \in 1 .. 6 : Work[j] = k
    /\ Len(Work) = 6
  BY DEF Work, Text, Media, Proved

LEMMA GotoTask ==
    ASSUME task \in Task, NEW pc \in Phase, Goto(pc)
    PROVE  /\ task' \in Task /\ task'.pc = pc
           /\ task'.at = task.at /\ task'.new = task.new
           /\ task'.revision = task.revision /\ task'.path = task.path
  BY DEF Goto, Task

LEMMA AdvanceTask ==
    ASSUME task \in Task, task.at \in 1 .. 6, Advance
    PROVE  /\ task' \in Task
           /\ task'.pc = IF task.at = 6 THEN "seal" ELSE "work"
           /\ task'.at = task.at + 1 /\ task'.new = FALSE
           /\ task'.revision = task.revision /\ task'.path = task.path
<1>1. PICK n \in 1 .. 7 : n = task.at + 1
  OBVIOUS
<1>2. PICK pc \in Phase : pc = IF task.at = 6 THEN "seal" ELSE "work"
  BY DEF Phase
<1>3. task' = [task EXCEPT !.at = n, !.new = FALSE, !.pc = pc]
  BY <1>1, <1>2, WorkKinds DEF Advance, Task
<1>4. QED
  BY <1>1, <1>2, <1>3 DEF Task

LEMMA GiveUpTask ==
    ASSUME GiveUp
    PROVE  InMemory'
  BY DEF GiveUp, Idle, InMemory, Task, Phase, Proved, At

\* The step of the work that was under way has been done.
LEMMA Advanced ==
    ASSUME task \in Task, Underway, task.at \in 1 .. 6, Advance,
           ~At("deliver"), NEW k, k = kind, NEW n, n = path,
           \A q \in Proved : \A m : Valid(file, proof, q, m) => Valid(file', proof', q, m),
           \A q \in Proved : task.path[q] \in DOMAIN proof'[q] =>
                task.path[q] \in DOMAIN proof[q] \/ q = k,
           k \in Proved => Valid(file', proof', k, n),
           task.at > 2 => rev \in DOMAIN file'[Log],
           DOMAIN proof'[Report] = DOMAIN proof[Report]
    PROVE  InMemory'
<1>1. /\ task' \in Task
      /\ task'.pc = IF task.at = 6 THEN "seal" ELSE "work"
      /\ task'.at = task.at + 1 /\ task'.new = FALSE
      /\ task'.revision = task.revision /\ task'.path = task.path
  BY AdvanceTask
<1>2. \A q \in Proved : task.path[q] \in DOMAIN proof[q] => Valid(file, proof, q, task.path[q])
  BY DEF Underway
<1>3. \A q \in Proved : task.path[q] \in DOMAIN proof'[q] => Valid(file', proof', q, task.path[q])
  BY <1>1, <1>2 DEF path
<1>4. \A j \in 1 .. 6 : j < task'.at /\ Work[j] \in Proved
                           => Valid(file', proof', Work[j], task.path[Work[j]])
  <2>1. ASSUME NEW j \in 1 .. 6, j < task'.at, Work[j] \in Proved
        PROVE  Valid(file', proof', Work[j], task.path[Work[j]])
    <3>1. j < task.at \/ j = task.at
      BY <1>1, <2>1
    <3>2. CASE j = task.at
      BY <1>1, <2>1, <3>2 DEF kind, path
    <3>3. CASE j < task.at
      BY <1>1, <2>1, <3>3 DEF Underway
    <3>4. QED
      BY <3>1, <3>2, <3>3
  <2>2. QED
    BY <1>1, <2>1
<1>5. /\ Started' => rev' \in DOMAIN file'[Log]
      /\ rev' \notin DOMAIN proof'[Report]
      /\ At("work")' => task'.at \in 1 .. 6
      /\ At("seal")' => task'.at = 7
  BY <1>1 DEF Started, rev, At, Underway
<1>6. Underway'
  BY <1>1, <1>3, <1>4, <1>5 DEF Underway, At
<1>7. QED
  BY <1>1, <1>6 DEF InMemory

-----------------------------------------------------------------------------
(* The steps of the stage.                                                  *)

\* What holds at any step of the work, its log being free to write.
LEMMA Working ==
    ASSUME OnDisk, InMemory, ~At("idle"), ~At("deliver")
    PROVE  /\ task \in Task /\ Underway
           /\ rev \notin DOMAIN proof[Report] /\ rev = task.revision
           /\ \A k, r : Verifies(k, r) <=> Valid(file, proof, k, r)
  BY DEF InMemory, Underway, rev, Verifies, Valid

LEMMA KeepTextStep ==
    ASSUME OnDisk, InMemory, KeepText
    PROVE  OnDisk' /\ InMemory'
<1>1. /\ At("work") /\ kind \in Text /\ Verifies(kind, path) /\ Advance
      /\ UNCHANGED << file, proof >>
  BY DEF KeepText
<1>2. OnDisk'
  BY <1>1, DiskUntouched
<1>3. /\ task \in Task /\ Underway /\ Valid(file, proof, kind, path)
      /\ ~At("deliver")
  BY <1>1, Working DEF At
<1>4. task.at \in {1, 2}
  BY <1>1, <1>3, WorkKinds DEF Underway, kind
<1>5. PICK k, n : k = kind /\ n = path
  OBVIOUS
<1>6. InMemory'
  BY <1>1, <1>3, <1>4, <1>5, Advanced
<1>7. QED
  BY <1>2, <1>6

LEMMA WriteTextStep ==
    ASSUME OnDisk, InMemory, WriteText
    PROVE  OnDisk' /\ InMemory'
<1>1. /\ At("work") /\ kind \in Text /\ ~Verifies(kind, path)
      /\ Write(kind, path, 0) /\ Goto("prove") /\ UNCHANGED proof
  BY DEF WriteText
<1>2. task \in Task /\ Underway /\ ~Valid(file, proof, kind, path) /\ ~At("deliver")
  BY <1>1, Working DEF At
<1>3. PICK k, n : k \in Proved /\ k = kind /\ n = path /\ n = task.path[k]
  BY <1>1, KindsApart DEF path
<1> k \in Proved
  BY <1>3
<1>4. n \notin DOMAIN proof[k]
  BY <1>2, <1>3 DEF Underway
<1>5. /\ OnDisk'
      /\ \A q \in Kind : \A m : Valid(file, proof, q, m) => Valid(file', proof', q, m)
      /\ \A q \in Kind : q # k => file'[q] = file[q]
      /\ n \in DOMAIN file'[k]
  BY <1>1, <1>3, <1>4, UnprovenWritten
<1>6. task' \in Task /\ task'.pc = "prove" /\ task'.at = task.at
      /\ task'.new = task.new /\ task'.revision = task.revision /\ task'.path = task.path
  BY <1>1, <1>2, GotoTask DEF Phase
<1>7. kind' = k /\ path' = n
  BY <1>3, <1>6 DEF kind, path
<1>8. ~task.new /\ task.at \in 1 .. 6 /\ ~(task.at > 3)
  BY <1>1, <1>2, KindsApart, WorkKinds DEF Underway, kind
<1>9. \A q \in Proved : task.path[q] \in DOMAIN proof[q] => Valid(file', proof', q, task.path[q])
  BY <1>2, <1>5, KindsApart DEF Underway
<1>10. \A j \in 1 .. 6 : j < task.at /\ Work[j] \in Proved
                           => Valid(file', proof', Work[j], task.path[Work[j]])
  BY <1>2, <1>5, KindsApart DEF Underway
<1>11. rev' \notin DOMAIN proof'[Report] /\ ~Started'
  BY <1>1, <1>2, <1>6, <1>8 DEF Underway, Started, At, rev
<1>12. Underway'
  BY <1>1, <1>3, <1>5, <1>6, <1>7, <1>8, <1>9, <1>10, <1>11 DEF Underway, At
<1>13. QED
  BY <1>5, <1>6, <1>12 DEF InMemory

\* A step that writes the history of the commands and stays with the same file.
LEMMA LoggedStep ==
    ASSUME OnDisk, InMemory, NEW c, Write(Log, rev, c), UNCHANGED proof,
           At("work") \/ At("making") \/ At("checking"),
           NEW pc \in {"making", "checking", "place", "prove"}, Goto(pc),
           pc \in {"making", "place"} => kind \in Media /\ ~Verifies(kind, path),
           pc = "checking" => kind \notin Text
                             /\ (kind \in Media => task.new \/ Verifies(kind, path)),
           pc = "prove" => task.new
    PROVE  OnDisk' /\ InMemory'
<1>1. /\ task \in Task /\ Underway /\ rev \notin DOMAIN proof[Report]
      /\ \A k, r : Verifies(k, r) <=> Valid(file, proof, k, r)
  BY Working DEF At
<1>2. /\ OnDisk'
      /\ \A q \in Proved : file'[q] = file[q]
      /\ \A q \in Proved : \A n : Valid(file', proof', q, n) <=> Valid(file, proof, q, n)
      /\ rev \in DOMAIN file'[Log]
  <2>1. PICK r : r = rev
    OBVIOUS
  <2>2. QED
    BY <1>1, <2>1, LogWritten, KindsApart
<1>3. task' \in Task /\ task'.pc = pc /\ task'.at = task.at
      /\ task'.new = task.new /\ task'.revision = task.revision /\ task'.path = task.path
  BY <1>1, GotoTask DEF Phase
<1>4. kind' = kind /\ path' = path /\ rev' = rev
  BY <1>3 DEF kind, path, rev
<1>5. task.at \in 1 .. 6
  BY <1>1 DEF Underway
<1>6. path = task.path[kind]
  BY DEF path
<1>7. kind \in Proved =>
         /\ Valid(file', proof', kind, path) <=> Valid(file, proof, kind, path)
         /\ file'[kind] = file[kind]
  BY <1>2
<1>8. \A q \in Proved : task.path[q] \in DOMAIN proof[q] => Valid(file', proof', q, task.path[q])
  BY <1>1, <1>2 DEF Underway
<1>9. \A j \in 1 .. 6 : j < task.at /\ Work[j] \in Proved
                           => Valid(file', proof', Work[j], task.path[Work[j]])
  BY <1>1, <1>2 DEF Underway
<1>10. /\ At("making")' \/ At("place")' =>
             kind' \in Media /\ ~Valid(file', proof', kind', path')
       /\ At("checking")' => kind' \notin Text
             /\ (kind' \in Media => task'.new \/ Valid(file', proof', kind', path'))
       /\ At("prove")' => kind' \in Proved /\ path' \in DOMAIN file'[kind']
       /\ task'.new => kind' \in Media /\ path' \in DOMAIN file'[kind']
  BY <1>1, <1>3, <1>4, <1>7, KindsApart DEF Underway, At
<1>11. Underway'
  BY <1>1, <1>2, <1>3, <1>4, <1>5, <1>8, <1>9, <1>10 DEF Underway, At
<1>12. QED
  BY <1>2, <1>3, <1>11 DEF InMemory

LEMMA CommandSteps ==
    ASSUME OnDisk, InMemory, BeginCommand \/ EndMaking \/ EndChecking
    PROVE  OnDisk' /\ InMemory'
<1>1. CASE BeginCommand
  <2>1. /\ At("work") /\ kind \notin Text /\ UNCHANGED proof
        /\ Write(Log, rev, Append(LogOf(rev), "running"))
        /\ Goto(IF Makes THEN "making" ELSE "checking")
    BY <1>1 DEF BeginCommand
  <2>2. PICK pc \in {"making", "checking"} : pc = IF Makes THEN "making" ELSE "checking"
    OBVIOUS
  <2>3. /\ pc = "making" => kind \in Media /\ ~Verifies(kind, path)
        /\ kind \in Media => pc = "making" \/ task.new \/ Verifies(kind, path)
    BY <2>2 DEF Makes
  <2>4. QED
    BY <2>1, <2>2, <2>3, LoggedStep
<1>2. CASE EndMaking
  <2>1. /\ At("making") /\ Goto("place") /\ UNCHANGED proof
        /\ Write(Log, rev, [LogOf(rev) EXCEPT ![Len(LogOf(rev))] = "completed"])
    BY <1>2 DEF EndMaking, Ended
  <2>2. kind \in Media /\ ~Verifies(kind, path)
    BY <2>1, Working DEF Underway, At
  <2>3. QED
    BY <2>1, <2>2, LoggedStep
<1>3. ASSUME EndChecking
      PROVE  OnDisk' /\ InMemory'
  <2>1. /\ At("checking") /\ UNCHANGED proof
        /\ IF task.new THEN Goto("prove") ELSE Advance
        /\ Write(Log, rev, [LogOf(rev) EXCEPT ![Len(LogOf(rev))] = "completed"])
    BY <1>3 DEF EndChecking, Ended
  <2>2. CASE task.new
    BY <2>1, <2>2, LoggedStep
  <2>3. CASE ~task.new
    <3>1. /\ task \in Task /\ Underway /\ rev \notin DOMAIN proof[Report]
          /\ ~At("deliver")
      BY <2>1, Working DEF At
    <3>2. /\ OnDisk'
          /\ \A q \in Proved : \A n : Valid(file, proof, q, n) => Valid(file', proof', q, n)
          /\ rev \in DOMAIN file'[Log]
      <4>1. PICK r : r = rev
        OBVIOUS
      <4>2. QED
        BY <2>1, <3>1, <4>1, LogWritten, KindsApart
    <3>3. PICK k, n : k = kind /\ n = path
      OBVIOUS
    <3>4. task.at \in 1 .. 6
      BY <2>1, <3>1 DEF Underway
    <3>5. k \in Proved => Valid(file, proof, k, n)
      BY <2>1, <2>3, <3>1, <3>3, Working DEF Underway, At, Proved
    <3>6. InMemory'
      BY <2>1, <2>3, <3>1, <3>2, <3>3, <3>4, <3>5, Advanced
    <3>7. QED
      BY <3>2, <3>6
  <2>4. QED
    BY <2>2, <2>3
<1>4. QED
  BY <1>1, <1>2, <1>3

LEMMA GivingUpSteps ==
    ASSUME OnDisk, InMemory, CommandFails \/ Refuse \/ Deliver \/ Die
    PROVE  OnDisk' /\ InMemory'
<1>1. InMemory'
  BY GiveUpTask DEF CommandFails, Refuse, Deliver, Die
<1>2. CASE Deliver \/ Die
  BY <1>1, <1>2, DiskUntouched DEF Deliver, Die
<1>3. ASSUME CommandFails \/ Refuse
      PROVE  OnDisk'
  <2>1. /\ At("making") \/ At("checking")
        /\ UNCHANGED proof
        /\ \E c : Write(Log, rev, c)
    BY <1>3 DEF CommandFails, Refuse, Ended
  <2>2. rev \notin DOMAIN proof[Report]
    BY <2>1, Working DEF At
  <2>3. UNCHANGED proof
    BY <1>3 DEF CommandFails, Refuse
  <2>4. PICK r : r = rev
    OBVIOUS
  <2>5. QED
    BY <2>1, <2>2, <2>3, <2>4, LogWritten
<1>4. QED
  BY <1>1, <1>2, <1>3

\* What was made is renamed to where nothing proven lies.
LEMMA PlaceStep ==
    ASSUME OnDisk, InMemory, Place
    PROVE  /\ OnDisk' /\ InMemory'
           /\ \A q \in Kind : \A n \in DOMAIN proof[q] : file'[q][n] = file[q][n]
<1>1. /\ At("place") /\ Write(kind, path, made + 1) /\ UNCHANGED proof
      /\ task' = [task EXCEPT !.pc = "work", !.new = TRUE]
  BY DEF Place
<1>2. task \in Task /\ Underway /\ ~At("deliver") /\ kind \in Media
      /\ ~Valid(file, proof, kind, path)
  BY <1>1, Working DEF At, Underway
<1>3. PICK k, n : k \in Media /\ k = kind /\ n = path /\ n = task.path[k]
  BY <1>2 DEF path
<1> k \in Media
  BY <1>3
<1>4. k \in Proved /\ k \in Kind
  BY KindsApart
<1>5. n \notin DOMAIN proof[k]
  BY <1>2, <1>3, <1>4 DEF Underway
<1>6. /\ OnDisk'
      /\ \A q \in Kind : \A m : Valid(file, proof, q, m) => Valid(file', proof', q, m)
      /\ \A q \in Kind : \A m \in DOMAIN proof[q] : file'[q][m] = file[q][m]
      /\ \A q \in Kind : q # k => file'[q] = file[q]
      /\ n \in DOMAIN file'[k]
  BY <1>1, <1>3, <1>4, <1>5, UnprovenWritten
<1>7. task' \in Task /\ task'.pc = "work" /\ task'.at = task.at
      /\ task'.new = TRUE /\ task'.revision = task.revision /\ task'.path = task.path
  BY <1>1, <1>2 DEF Task, Phase
<1>8. kind' = k /\ path' = n /\ rev' = rev
  BY <1>3, <1>7 DEF kind, path, rev
<1>9. task.at \in 1 .. 6 /\ task.at > 3
  BY <1>1, <1>2, WorkKinds DEF Underway, kind
<1>10. rev \in DOMAIN file'[Log]
  BY <1>2, <1>4, <1>6, <1>9, KindsApart DEF Underway, Started
<1>11. \A q \in Proved : task.path[q] \in DOMAIN proof[q] => Valid(file', proof', q, task.path[q])
  BY <1>2, <1>6, KindsApart DEF Underway
<1>12. \A j \in 1 .. 6 : j < task.at /\ Work[j] \in Proved
                           => Valid(file', proof', Work[j], task.path[Work[j]])
  BY <1>2, <1>6, KindsApart DEF Underway
<1>13. rev \notin DOMAIN proof[Report]
  BY <1>2 DEF Underway
<1>14. Underway'
  BY <1>1, <1>6, <1>7, <1>8, <1>9, <1>10, <1>11, <1>12, <1>13 DEF Underway, At
<1>15. QED
  BY <1>6, <1>7, <1>14 DEF InMemory

LEMMA ProveFileStep ==
    ASSUME OnDisk, InMemory, ProveFile
    PROVE  OnDisk' /\ InMemory'
<1>1. At("prove") /\ Prove(kind, path) /\ Advance /\ UNCHANGED file
  BY DEF ProveFile
<1>2. task \in Task /\ Underway /\ ~At("deliver") /\ kind \in Proved
      /\ path \in DOMAIN file[kind] /\ rev \notin DOMAIN proof[Report]
  BY <1>1, Working DEF At, Underway
<1>3. PICK k, n : k \in Proved /\ k = kind /\ n = path
  BY <1>2
<1> k \in Proved
  BY <1>3
<1>4. k \in Kind /\ k # Log /\ k # Report
  BY KindsApart
<1>5. /\ OnDisk'
      /\ Valid(file', proof', k, n)
      /\ \A q \in Kind : \A m : Valid(file, proof, q, m) => Valid(file', proof', q, m)
      /\ \A q \in Kind : q # k => DOMAIN proof'[q] = DOMAIN proof[q]
  BY <1>1, <1>2, <1>3, <1>4, SidecarWritten
<1>6. task.at \in 1 .. 6
  BY <1>1, <1>2 DEF Underway
<1>7. task.at > 2 => rev \in DOMAIN file'[Log]
  <2>1. task.at # 3
    BY <1>2, WorkKinds DEF kind, Proved
  <2>2. QED
    BY <1>1, <1>2, <1>6, <2>1 DEF Underway, Started
<1>8. InMemory'
  BY <1>1, <1>2, <1>3, <1>4, <1>5, <1>6, <1>7, Advanced, KindsApart
<1>9. QED
  BY <1>5, <1>8

\* All that was to be done has been done, and the work is at its end.
LEMMA WorkDone ==
    ASSUME OnDisk, InMemory, At("seal") \/ At("report") \/ At("certify") \/ At("deliver")
    PROVE  /\ task \in Task /\ Underway /\ task.at = 7 /\ ~task.new
           /\ \A q \in Proved : Valid(file, proof, q, task.path[q])
           /\ rev \in DOMAIN file[Log]
<1>1. task \in Task /\ Underway /\ task.at = 7
  BY DEF InMemory, Underway, At
<1>2. \A q \in Proved : Valid(file, proof, q, task.path[q])
  BY <1>1, WorkKinds DEF Underway
<1>3. rev \in DOMAIN file[Log]
  BY <1>1 DEF Underway, Started
<1>4. QED
  BY <1>1, <1>2, <1>3 DEF InMemory, Underway, Task

LEMMA SealStep ==
    ASSUME OnDisk, InMemory, Seal
    PROVE  OnDisk' /\ InMemory'
<1>1. At("seal") /\ UNCHANGED file
  BY DEF Seal
<1>2. CASE Sealable /\ Prove(Log, rev) /\ Goto("report")
  <2>1. /\ task \in Task /\ Underway /\ task.at = 7 /\ rev \in DOMAIN file[Log]
        /\ \A q \in Proved : Valid(file, proof, q, task.path[q])
        /\ rev \notin DOMAIN proof[Report] /\ ~task.new
    BY <1>1, WorkDone, Working DEF At
  <2>2. \A i \in DOMAIN LogOf(rev) : LogOf(rev)[i] # "running"
    BY <1>2 DEF Sealable
  <2>3. PICK r : r = rev
    OBVIOUS
  <2>4. /\ OnDisk'
        /\ Valid(file', proof', Log, r)
        /\ \A q \in Kind : \A m : Valid(file, proof, q, m) => Valid(file', proof', q, m)
        /\ \A q \in Kind : q # Log => DOMAIN proof'[q] = DOMAIN proof[q]
    <3>1. LogOf(r) = file[Log][r]
      BY <2>1, <2>3 DEF LogOf
    <3>2. QED
      BY <1>1, <1>2, <2>1, <2>2, <2>3, <3>1, SidecarWritten, KindsApart
  <2>5. task' \in Task /\ task'.pc = "report" /\ task'.at = task.at
        /\ task'.new = task.new /\ task'.revision = task.revision /\ task'.path = task.path
    BY <1>2, <2>1, GotoTask DEF Phase
  <2>6. rev' = r /\ LogOf(rev)' = LogOf(r)
    BY <1>1, <2>3, <2>5 DEF rev, LogOf
  <2>7. \A q \in Proved : Valid(file', proof', q, task.path[q])
    BY <2>1, <2>4, KindsApart
  <2>8. r \notin DOMAIN proof'[Report] /\ r \in DOMAIN file'[Log]
    BY <1>1, <2>1, <2>3, <2>4, KindsApart
  <2>9. Underway'
    BY <2>1, <2>2, <2>3, <2>4, <2>5, <2>6, <2>7, <2>8 DEF Underway, At
  <2>10. QED
    BY <2>4, <2>5, <2>9 DEF InMemory
<1>3. CASE UNCHANGED proof /\ GiveUp
  BY <1>1, <1>3, GiveUpTask, DiskUntouched
<1>4. QED
  BY <1>2, <1>3 DEF Seal

LEMMA WriteReportStep ==
    ASSUME OnDisk, InMemory, WriteReport
    PROVE  OnDisk' /\ InMemory'
<1> DEFINE report == [path |-> task.path, log |-> LogOf(rev),
                      media |-> [k \in Media |-> file[k][task.path[k]]]]
<1>1. At("report") /\ Write(Report, rev, report) /\ Goto("certify") /\ UNCHANGED proof
  BY DEF WriteReport
<1>2. /\ task \in Task /\ Underway /\ task.at = 7 /\ rev \in DOMAIN file[Log]
      /\ \A q \in Proved : Valid(file, proof, q, task.path[q])
      /\ rev \notin DOMAIN proof[Report] /\ ~task.new
  BY <1>1, WorkDone, Working DEF At
<1>3. PICK r, c : r = rev /\ c = report /\ Write(Report, r, c)
  BY <1>1
<1>4. /\ file' = [q \in Kind |-> file'[q]]
      /\ \A q \in Kind : q # Report => file'[q] = file[q]
      /\ DOMAIN file'[Report] = DOMAIN file[Report] \cup {r}
      /\ file'[Report][r] = c
      /\ \A n \in DOMAIN file[Report] : n # r => file'[Report][n] = file[Report][n]
  <2>1. Write(Report, r, c) /\ Report \in Kind /\ Directories
    BY <1>3, KindsApart DEF OnDisk
  <2>2. QED
    BY <2>1, WriteFacts
<1>5. Directories'
  BY <1>1, <1>4 DEF OnDisk, Directories
<1>6. \A n \in DOMAIN proof[Report] : n # r /\ file'[Report][n] = file[Report][n]
  BY <1>2, <1>3, <1>4, KindsApart DEF OnDisk, Directories
<1>7. SealedLogs' /\ ReportsReferToProven'
  BY <1>1, <1>6 DEF OnDisk, SealedLogs, ReportsReferToProven
<1>8. \A x : LogOf(x)' = LogOf(x)
  BY <1>4, KindsApart DEF LogOf
<1>9. ReportsTellTheTruth'
  BY <1>1, <1>4, <1>6, <1>8, KindsApart DEF OnDisk, ReportsTellTheTruth
<1>10. task' \in Task /\ task'.pc = "certify" /\ task'.at = task.at
       /\ task'.new = task.new /\ task'.revision = task.revision /\ task'.path = task.path
  BY <1>1, <1>2, GotoTask DEF Phase
<1>11. rev' = r /\ LogOf(rev)' = LogOf(rev)
  BY <1>3, <1>4, <1>10, KindsApart DEF rev, LogOf
<1>12. \A q \in Proved : file'[q] = file[q] /\ Valid(file', proof', q, task.path[q])
  BY <1>1, <1>2, <1>4, KindsApart DEF Valid
<1>13. Valid(file', proof', Log, r) /\ r \in DOMAIN file'[Log]
  BY <1>1, <1>2, <1>3, <1>4, KindsApart DEF Valid, Underway, At
<1>14. \A i \in DOMAIN LogOf(rev) : LogOf(rev)[i] # "running"
  BY <1>1, <1>2 DEF Underway
<1>15. /\ r \in DOMAIN file'[Report]
       /\ file'[Report][r].path = task.path
       /\ file'[Report][r].log = LogOf(rev)
       /\ \A k \in Media : file'[Report][r].media[k] = file'[k][task.path[k]]
  BY <1>3, <1>4, <1>12, KindsApart
<1>16. Underway'
  BY <1>1, <1>2, <1>3, <1>10, <1>11, <1>12, <1>13, <1>14, <1>15 DEF Underway, At
<1>17. QED
  BY <1>5, <1>7, <1>9, <1>10, <1>16 DEF OnDisk, InMemory

LEMMA ProveReportStep ==
    ASSUME OnDisk, InMemory, ProveReport
    PROVE  OnDisk' /\ InMemory'
<1>1. At("certify") /\ Prove(Report, rev) /\ Goto("deliver") /\ UNCHANGED file
  BY DEF ProveReport
<1>2. /\ task \in Task /\ Underway /\ task.at = 7 /\ rev \in DOMAIN file[Log]
      /\ \A q \in Proved : Valid(file, proof, q, task.path[q])
      /\ ~task.new
  BY <1>1, WorkDone
<1>3. /\ Valid(file, proof, Log, rev)
      /\ \A i \in DOMAIN LogOf(rev) : LogOf(rev)[i] # "running"
      /\ rev \in DOMAIN file[Report]
      /\ file[Report][rev].path = task.path
      /\ file[Report][rev].log = LogOf(rev)
      /\ \A k \in Media : file[Report][rev].media[k] = file[k][task.path[k]]
  BY <1>1, <1>2 DEF Underway
<1>4. PICK r : r = rev
  OBVIOUS
<1>5. \A q \in Media : /\ file[Report][r].path[q] \in DOMAIN proof[q]
                      /\ file[Report][r].media[q] = file[q][file[Report][r].path[q]]
  BY <1>2, <1>3, <1>4, KindsApart DEF Valid
<1>6. /\ OnDisk'
      /\ Valid(file', proof', Report, r)
      /\ \A q \in Kind : \A m : Valid(file, proof, q, m) => Valid(file', proof', q, m)
  BY <1>1, <1>3, <1>4, <1>5, SidecarWritten, KindsApart
<1>7. task' \in Task /\ task'.pc = "deliver" /\ task'.at = task.at
      /\ task'.new = task.new /\ task'.revision = task.revision /\ task'.path = task.path
  BY <1>1, <1>2, GotoTask DEF Phase
<1>8. rev' = r /\ LogOf(rev)' = LogOf(rev)
  BY <1>1, <1>4, <1>7 DEF rev, LogOf
<1>9. \A q \in Proved : Valid(file', proof', q, task.path[q])
  BY <1>2, <1>6, KindsApart
<1>10. Valid(file', proof', Log, r)
  BY <1>3, <1>4, <1>6, KindsApart
<1>11. Underway'
  BY <1>1, <1>2, <1>3, <1>4, <1>6, <1>7, <1>8, <1>9, <1>10 DEF Underway, At
<1>12. QED
  BY <1>6, <1>7, <1>11 DEF InMemory

-----------------------------------------------------------------------------
(* A process opens a revision.                                              *)

LEMMA RevisionsNumbered ==
    ASSUME OnDisk, NEW n \in Nat, NumberedUpTo(n)
    PROVE  /\ Revisions \in SUBSET Nat /\ \A r \in Revisions : r <= n
           /\ \A k \in Kind : DOMAIN file[k] \cup DOMAIN proof[k] \subseteq Revisions
           /\ \A k \in Kind : Reusable(k) \in SUBSET Nat /\ \A r \in Reusable(k) : r <= n
<1>1. \A k \in Kind : DOMAIN file[k] \cup DOMAIN proof[k] \subseteq 0 .. n
  BY DEF OnDisk, Directories, NumberedUpTo
<1>2. QED
  BY <1>1 DEF Revisions, Reusable

LEMMA SelectedIsFree ==
    ASSUME OnDisk, NEW n \in Nat, NumberedUpTo(n), NEW forced \in BOOLEAN,
           NEW r, r = SelectedRevision(forced)
    PROVE  /\ r \in 0 .. (n + 1)
           /\ r \notin DOMAIN proof[Report]
           /\ \A k \in Kind : r \in DOMAIN proof[k] => Valid(file, proof, k, r)
<1>1. CASE Revisions = {}
  BY <1>1, RevisionsNumbered, KindsApart DEF SelectedRevision
<1>2. ASSUME Revisions # {}
      PROVE  /\ Newest(Revisions) \in Revisions
             /\ \A x \in Revisions : x <= Newest(Revisions)
  BY <1>2, RevisionsNumbered, NewestIsGreatest
<1>3. CASE Revisions # {} /\ ~forced /\ Resumable(Newest(Revisions))
  <2>1. r = Newest(Revisions) /\ Resumable(r)
    BY <1>3 DEF SelectedRevision
  <2>2. r \in 0 .. n
    BY <1>2, <1>3, <2>1, RevisionsNumbered
  <2>3. QED
    BY <2>1, <2>2 DEF Resumable, Verifies, Valid
<1>4. CASE Revisions # {} /\ (forced \/ ~Resumable(Newest(Revisions)))
  <2>1. PICK x \in Revisions : x = Newest(Revisions)
    BY <1>2, <1>4
  <2>2. x \in 0 .. n /\ r = x + 1 /\ \A y \in Revisions : y <= x
    BY <1>2, <1>4, <2>1, RevisionsNumbered DEF SelectedRevision
  <2>3. r \notin Revisions
    BY <2>2
  <2>4. QED
    BY <2>2, <2>3, RevisionsNumbered, KindsApart
<1>5. QED
  BY <1>1, <1>3, <1>4

LEMMA OpenStep ==
    ASSUME OnDisk, NEW n \in Nat, NumberedUpTo(n), NEW forced \in BOOLEAN, Open(forced)
    PROVE  /\ OnDisk' /\ InMemory' /\ NumberedUpTo(n + 1)'
           /\ \A k \in Media : file'[k] = file[k]
<1> DEFINE found(k) == IF forced \/ Reusable(k) = {} THEN SelectedRevision(forced)
                       ELSE Newest(Reusable(k))
<1>1. PICK r : r = SelectedRevision(forced)
  OBVIOUS
<1>2. /\ r \in 0 .. (n + 1)
      /\ r \notin DOMAIN proof[Report]
      /\ \A k \in Kind : r \in DOMAIN proof[k] => Valid(file, proof, k, r)
  BY <1>1, SelectedIsFree
<1>3. PICK p : p = [k \in Proved |-> found(k)]
  OBVIOUS
<1>4. ASSUME NEW k \in Proved
      PROVE  p[k] \in 0 .. (n + 1) /\ (p[k] \in DOMAIN proof[k] => Valid(file, proof, k, p[k]))
  <2>1. k \in Kind /\ p[k] = found(k)
    BY <1>3, KindsApart
  <2>2. CASE forced \/ Reusable(k) = {}
    BY <1>1, <1>2, <2>1, <2>2
  <2>3. CASE ~forced /\ Reusable(k) # {}
    <3>1. p[k] \in Reusable(k) /\ p[k] <= n /\ p[k] \in Nat
      <4>1. Newest(Reusable(k)) \in Reusable(k)
        BY <2>1, <2>3, RevisionsNumbered, NewestIsGreatest
      <4>2. QED
        BY <2>1, <2>3, <4>1, RevisionsNumbered
    <3>2. QED
      BY <3>1 DEF Reusable, Verifies, Valid
  <2>4. QED
    BY <2>2, <2>3
<1>5. task' = [pc |-> "work", at |-> 1, forced |-> forced, new |-> FALSE,
               revision |-> r, path |-> p]
  BY <1>1, <1>3 DEF Open, Idle, Proved
<1>6. p \in [Proved -> Nat]
  BY <1>3, <1>4
<1>7. task' \in Task
  BY <1>2, <1>5, <1>6 DEF Task, Phase
<1>8. UNCHANGED proof /\ (UNCHANGED file \/ \E c : Write(Log, r, c))
  BY <1>1 DEF Open
<1>9. /\ OnDisk'
      /\ \A q \in Kind \ {Log} : file'[q] = file[q]
      /\ \A q \in Kind \ {Log} : \A m : Valid(file', proof', q, m) <=> Valid(file, proof, q, m)
  <2>1. CASE UNCHANGED file
    BY <1>8, <2>1, DiskUntouched
  <2>2. CASE \E c : Write(Log, r, c)
    BY <1>2, <1>8, <2>2, LogWritten
  <2>3. QED
    BY <1>8, <2>1, <2>2
<1>10. \A k \in Proved : p[k] \in DOMAIN proof'[k] => Valid(file', proof', k, p[k])
  BY <1>4, <1>8, <1>9, KindsApart
<1>11. Underway'
  BY <1>2, <1>5, <1>8, <1>10 DEF Underway, At, Started, rev
<1>12. NumberedUpTo(n + 1)'
  <2>1. \A k \in Kind : DOMAIN file'[k] \subseteq DOMAIN file[k] \cup {r}
    <3>1. CASE UNCHANGED file
      BY <3>1
    <3>2. ASSUME NEW c, Write(Log, r, c)
          PROVE  \A k \in Kind : DOMAIN file'[k] \subseteq DOMAIN file[k] \cup {r}
      BY <3>2, WriteFacts, KindsApart DEF OnDisk
    <3>3. QED
      BY <1>8, <3>1, <3>2
  <2>2. QED
    BY <1>2, <1>4, <1>5, <2>1, KindsApart DEF NumberedUpTo, Proved
<1>13. QED
  BY <1>7, <1>9, <1>11, <1>12, KindsApart DEF InMemory

-----------------------------------------------------------------------------
(* An operator retries; the directory of the reports is lost.               *)

LEMMA RetryRenderStep ==
    ASSUME OnDisk, InMemory, NEW last \in Kind, NEW m, RetryRender(last, m)
    PROVE  OnDisk' /\ InMemory'
<1>1. /\ At("idle") /\ UNCHANGED << file, task >>
      /\ proof' = [k \in Kind |-> [r \in DOMAIN proof[k] |->
                      IF UpTo(k, r, last, m)
                      THEN [proof[k][r] EXCEPT !.status = "invalid"] ELSE proof[k][r]]]
  BY DEF RetryRender
<1>2. \A k \in Kind : DOMAIN proof'[k] = DOMAIN proof[k]
  BY <1>1
<1>3. ASSUME NEW k \in Kind, NEW r \in DOMAIN proof[k]
      PROVE  /\ proof'[k][r] = [status |-> proof'[k][r].status, seen |-> proof'[k][r].seen]
             /\ proof'[k][r].status = "completed" => proof'[k][r] = proof[k][r]
  <2>1. proof[k][r] = [status |-> proof[k][r].status, seen |-> proof[k][r].seen]
    BY DEF OnDisk, Directories
  <2>2. proof'[k][r] \in {proof[k][r], [proof[k][r] EXCEPT !.status = "invalid"]}
    BY <1>1
  <2>3. [proof[k][r] EXCEPT !.status = "invalid"]
           = [status |-> "invalid", seen |-> proof[k][r].seen]
    BY <2>1
  <2>4. QED
    BY <2>1, <2>2, <2>3
<1>4. Directories'
  BY <1>1, <1>2, <1>3 DEF OnDisk, Directories
<1>5. SealedLogs' /\ ReportsReferToProven'
  BY <1>1, <1>2, <1>3, KindsApart DEF OnDisk, SealedLogs, ReportsReferToProven
<1>6. ReportsTellTheTruth'
  BY <1>1, <1>2, KindsApart DEF OnDisk, ReportsTellTheTruth, LogOf
<1>7. InMemory'
  BY <1>1 DEF InMemory, At
<1>8. QED
  BY <1>4, <1>5, <1>6, <1>7 DEF OnDisk

LEMMA LoseReportsStep ==
    ASSUME OnDisk, InMemory, LoseReports
    PROVE  /\ OnDisk' /\ InMemory'
           /\ \A k \in Media : file'[k] = file[k]
           /\ \A k \in Kind : DOMAIN file'[k] \subseteq DOMAIN file[k]
<1>1. /\ At("idle") /\ UNCHANGED task
      /\ file' = [file EXCEPT ![Log] = << >>, ![Report] = << >>]
      /\ proof' = [proof EXCEPT ![Log] = << >>, ![Report] = << >>]
  BY DEF LoseReports
<1>2. /\ file' = [k \in Kind |-> file'[k]] /\ proof' = [k \in Kind |-> proof'[k]]
      /\ file'[Log] = << >> /\ file'[Report] = << >>
      /\ proof'[Log] = << >> /\ proof'[Report] = << >>
      /\ \A k \in Proved : file'[k] = file[k] /\ proof'[k] = proof[k]
  BY <1>1, KindsApart DEF OnDisk, Directories
<1>3. DOMAIN << >> = {}
  OBVIOUS
<1>4. Directories'
  <2>1. ASSUME NEW k \in Kind, NEW r \in DOMAIN proof'[k]
        PROVE  /\ r \in DOMAIN file'[k]
               /\ proof'[k][r] = [status |-> proof'[k][r].status, seen |-> proof'[k][r].seen]
    <3>1. k \in Proved
      BY <1>2, <1>3, <2>1, KindsApart
    <3>2. file'[k] = file[k] /\ proof'[k] = proof[k]
      BY <1>2, <3>1
    <3>3. QED
      BY <2>1, <3>2 DEF OnDisk, Directories
  <2>2. QED
    BY <1>2, <2>1 DEF Directories
<1>5. SealedLogs' /\ ReportsReferToProven' /\ ReportsTellTheTruth'
  BY <1>2, <1>3 DEF SealedLogs, ReportsReferToProven, ReportsTellTheTruth
<1>6. InMemory'
  BY <1>1 DEF InMemory, At
<1>7. \A k \in Kind : DOMAIN file'[k] \subseteq DOMAIN file[k]
  <2>1. ASSUME NEW k \in Kind
        PROVE  DOMAIN file'[k] \subseteq DOMAIN file[k]
    BY <1>2, <1>3, KindsApart
  <2>2. QED
    BY <2>1
<1>8. QED
  BY <1>2, <1>4, <1>5, <1>6, <1>7, KindsApart DEF OnDisk

-----------------------------------------------------------------------------
(* Every step.                                                              *)

\* Files are written at the revision opened, or at the one taken over for them.
LEMMA NumbersKept ==
    ASSUME OnDisk, InMemory, NEW n \in Nat, NumberedUpTo(n), ~At("idle"),
           \/ UNCHANGED file
           \/ \E c : Write(Log, rev, c) \/ Write(Report, rev, c)
           \/ kind \in Proved /\ \E c : Write(kind, path, c),
           \/ task' = Idle
           \/ task'.revision = task.revision /\ task'.path = task.path
    PROVE  NumberedUpTo(n)'
<1>1. rev \in 0 .. n /\ (kind \in Proved => path \in 0 .. n)
  BY DEF NumberedUpTo, rev, path
<1>2. ASSUME NEW q \in Kind, NEW r \in 0 .. n, NEW c, Write(q, r, c)
      PROVE  \A k \in Kind : DOMAIN file'[k] \subseteq 0 .. n
  <2>1. \A k \in Kind : DOMAIN file'[k] \subseteq DOMAIN file[k] \cup {r}
    BY <1>2, WriteFacts DEF OnDisk
  <2>2. QED
    BY <2>1 DEF NumberedUpTo
<1>3. \A k \in Kind : DOMAIN file'[k] \subseteq 0 .. n
  <2>1. CASE UNCHANGED file
    BY <2>1 DEF NumberedUpTo
  <2>2. ASSUME NEW c, Write(Log, rev, c) \/ Write(Report, rev, c)
        PROVE  \A k \in Kind : DOMAIN file'[k] \subseteq 0 .. n
    BY <1>1, <1>2, <2>2, KindsApart
  <2>3. ASSUME NEW c, kind \in Proved, Write(kind, path, c)
        PROVE  \A k \in Kind : DOMAIN file'[k] \subseteq 0 .. n
    BY <1>1, <1>2, <2>3, KindsApart
  <2>4. QED
    BY <2>1, <2>2, <2>3
<1>4. task'.revision \in 0 .. n /\ \A k \in Proved : task'.path[k] \in 0 .. n
  BY DEF NumberedUpTo, Idle, Proved
<1>5. QED
  BY <1>3, <1>4 DEF NumberedUpTo

\* The steps between opening a revision and leaving it.
Process ==
    \/ KeepText \/ WriteText \/ BeginCommand \/ CommandFails \/ EndMaking \/ Place
    \/ EndChecking \/ Refuse \/ ProveFile \/ Seal \/ WriteReport \/ ProveReport
    \/ Deliver \/ Die

LEMMA ProcessStep ==
    ASSUME OnDisk, InMemory, Process
    PROVE  OnDisk' /\ InMemory'
  BY KeepTextStep, WriteTextStep, CommandSteps, GivingUpSteps, PlaceStep, ProveFileStep,
     SealStep, WriteReportStep, ProveReportStep DEF Process

LEMMA ProcessNumbers ==
    ASSUME OnDisk, InMemory, NEW n \in Nat, NumberedUpTo(n), Process
    PROVE  NumberedUpTo(n)'
<1>1. ~At("idle") /\ task \in Task
  BY DEF Process, KeepText, WriteText, BeginCommand, CommandFails, EndMaking, Place,
     EndChecking, Refuse, ProveFile, Seal, WriteReport, ProveReport, Deliver, Die, At,
     InMemory
<1>2. ASSUME Advance \/ (\E pc : Goto(pc))
      PROVE  task'.revision = task.revision /\ task'.path = task.path
  BY <1>1, <1>2 DEF Advance, Goto, Task
<1>3. \/ UNCHANGED file
      \/ \E c : Write(Log, rev, c) \/ Write(Report, rev, c)
      \/ kind \in Proved /\ \E c : Write(kind, path, c)
  <2>1. Place => kind \in Media
    BY DEF Place, InMemory, Underway, At
  <2>2. QED
    BY <2>1, KindsApart
       DEF Process, KeepText, WriteText, BeginCommand, CommandFails, EndMaking, Place,
           EndChecking, Refuse, ProveFile, Seal, WriteReport, ProveReport, Deliver, Die, Ended
<1>4. \/ task' = Idle
      \/ task'.revision = task.revision /\ task'.path = task.path
  <2>1. Place => task'.revision = task.revision /\ task'.path = task.path
    BY <1>1 DEF Place, Task
  <2>2. QED
    BY <1>2, <2>1
       DEF Process, KeepText, WriteText, BeginCommand, CommandFails, EndMaking,
           EndChecking, Refuse, ProveFile, Seal, WriteReport, ProveReport, Deliver, Die, GiveUp
<1>5. QED
  BY <1>1, <1>3, <1>4, NumbersKept

LEMMA RenderStep ==
    ASSUME RenderInductive, [Next]_vars
    PROVE  RenderInductive'
<1>1. PICK n \in Nat : NumberedUpTo(n)
  BY DEF RenderInductive
<1>2. OnDisk /\ InMemory /\ n + 1 \in Nat
  BY DEF RenderInductive
<1>3. CASE Process
  BY <1>1, <1>2, <1>3, ProcessStep, ProcessNumbers DEF RenderInductive
<1>4. CASE TakeRender \/ UNCHANGED vars
  <2>1. UNCHANGED << file, proof, task >>
    BY <1>4 DEF TakeRender, vars
  <2>2. InMemory'
    BY <1>2, <2>1 DEF InMemory, Underway, At, Started, rev, kind, path, LogOf
  <2>3. NumberedUpTo(n)'
    BY <1>1, <2>1 DEF NumberedUpTo
  <2>4. QED
    BY <1>2, <2>1, <2>2, <2>3, DiskUntouched DEF RenderInductive
<1>5. CASE Start \/ StartForced
  <2>1. \E forced \in BOOLEAN : Open(forced)
    BY <1>5 DEF Start, StartForced
  <2>2. QED
    BY <1>1, <1>2, <2>1, OpenStep DEF RenderInductive
<1>6. ASSUME NEW k \in Kind, NEW m \in {0} \cup DOMAIN proof[k], RetryRender(k, m)
      PROVE  RenderInductive'
  <2>1. NumberedUpTo(n)'
    BY <1>1, <1>6 DEF RetryRender, NumberedUpTo
  <2>2. QED
    BY <1>2, <1>6, <2>1, RetryRenderStep DEF RenderInductive
<1>7. CASE LoseReports
  <2>1. NumberedUpTo(n)'
    BY <1>1, <1>2, <1>7, LoseReportsStep DEF LoseReports, NumberedUpTo
  <2>2. QED
    BY <1>2, <1>7, <2>1, LoseReportsStep DEF RenderInductive
<1>8. QED
  BY <1>3, <1>4, <1>5, <1>6, <1>7 DEF Next, Run, Process

LEMMA RenderInit ==
    ASSUME Init
    PROVE  RenderInductive
<1>1. DOMAIN << >> = {}
  OBVIOUS
<1>2. OnDisk
  BY <1>1, KindsApart
     DEF Init, OnDisk, Directories, SealedLogs, ReportsReferToProven, ReportsTellTheTruth
<1>3. InMemory
  BY DEF Init, InMemory, Idle, Task, Phase, Proved, At
<1>4. NumberedUpTo(0)
  BY <1>1 DEF Init, NumberedUpTo, Idle, Proved
<1>5. QED
  BY <1>2, <1>3, <1>4 DEF RenderInductive

LEMMA RenderInvariance == Spec => []RenderInductive
  BY RenderInit, RenderStep, PTL DEF Spec

-----------------------------------------------------------------------------
(* The theorems.                                                            *)

\* render.py: a report with a sidecar is about the very bytes its media had when
\* it was written, and about the history of commands it was sealed with, however
\* often the stage was interrupted, forced, retried or deprived of its records.
THEOREM TruthTheorem == Spec => []ReportsTellTheTruth
<1>1. RenderInductive => ReportsTellTheTruth
  BY DEF RenderInductive, OnDisk
<1>2. QED
  BY <1>1, RenderInvariance, PTL

\* render.py:1363-1365 and 1393-1395: media published with a sidecar are never
\* written over.
THEOREM KeepingTheorem == Spec => RenderedIsKept
<1>1. ASSUME RenderInductive, [Next]_vars
      PROVE  \A k \in Media : \A r \in DOMAIN proof[k] : file'[k][r] = file[k][r]
  <2>1. OnDisk /\ InMemory
    BY <1>1 DEF RenderInductive
  <2>2. CASE Place
    BY <2>1, <2>2, PlaceStep, KindsApart
  <2>3. CASE Start \/ StartForced
    <3>1. PICK n \in Nat : NumberedUpTo(n)
      BY <1>1 DEF RenderInductive
    <3>2. \E forced \in BOOLEAN : Open(forced)
      BY <2>3 DEF Start, StartForced
    <3>3. QED
      BY <2>1, <3>1, <3>2, OpenStep
  <2>4. CASE LoseReports
    BY <2>1, <2>4, LoseReportsStep
  <2>5. ASSUME NEW q \in Kind \ Media, NEW r, NEW c, Write(q, r, c)
        PROVE  \A k \in Media : file'[k] = file[k]
    BY <2>1, <2>5, WriteFacts, KindsApart DEF OnDisk
  <2>6. CASE WriteText
    BY <2>5, <2>6, KindsApart DEF WriteText
  <2>7. CASE BeginCommand \/ CommandFails \/ EndMaking \/ EndChecking \/ Refuse \/ WriteReport
    <3>1. \E q \in {Log, Report} : \E r, c : Write(q, r, c)
      BY <2>7 DEF BeginCommand, CommandFails, EndMaking, EndChecking, Refuse, WriteReport, Ended
    <3>2. QED
      BY <2>5, <3>1, KindsApart
  <2>8. CASE UNCHANGED file
    BY <2>8
  <2>9. QED
    BY <1>1, <2>2, <2>3, <2>4, <2>6, <2>7, <2>8
       DEF Next, Run, TakeRender, KeepText, ProveFile, Seal, ProveReport, Deliver, Die,
           RetryRender, vars
<1>2. QED
  BY <1>1, RenderInvariance, PTL DEF Spec, RenderedIsKept

LEMMA TakenOverIsProven ==
    ASSUME RenderInductive, TakeRender
    PROVE  Proven(output)'
<1>1. /\ Takeover # {} /\ output' = Newest(Takeover) /\ UNCHANGED << file, proof >>
  BY DEF TakeRender
<1>2. output' \in Takeover
  <2>1. PICK n \in Nat : NumberedUpTo(n)
    BY DEF RenderInductive
  <2>2. Takeover \in SUBSET Nat /\ \A r \in Takeover : r <= n
    <3>1. Report \in Kind /\ OnDisk
      BY KindsApart DEF RenderInductive
    <3>2. DOMAIN proof[Report] \subseteq 0 .. n
      BY <2>1, <3>1 DEF OnDisk, Directories, NumberedUpTo
    <3>3. Takeover \subseteq DOMAIN proof[Report]
      BY DEF Takeover
    <3>4. QED
      BY <3>2, <3>3
  <2>3. QED
    BY <1>1, <2>1, <2>2, NewestIsGreatest
<1>3. PICK r : r = output' /\ Stands(r)
  BY <1>2 DEF Takeover
<1>4. \A i \in DOMAIN LogOf(r) : LogOf(r)[i] # "running"
  BY <1>3 DEF Stands, Verifies, LogOf, RenderInductive, OnDisk, SealedLogs
<1>5. /\ \A k \in {Log, Report} : Valid(file', proof', k, r)
      /\ \A k \in Text \cup Media : Valid(file', proof', k, file'[Report][r].path[k])
      /\ LogOf(r)' = LogOf(r)
  BY <1>1, <1>3 DEF Stands, Verifies, Valid, LogOf
<1>6. QED
  BY <1>3, <1>4, <1>5 DEF Proven, Verifies, Valid, LogOf

LEMMA DeliveredWasProven ==
    ASSUME RenderInductive, Deliver
    PROVE  Proven(output)'
<1>1. At("deliver") /\ output' = rev /\ UNCHANGED << file, proof >>
  BY DEF Deliver
<1>2. /\ Underway /\ \A q \in Proved : Valid(file, proof, q, task.path[q])
  BY <1>1, WorkDone DEF RenderInductive
<1>3. PICK r : r = rev
  OBVIOUS
<1>4. /\ Valid(file, proof, Log, r) /\ Valid(file, proof, Report, r)
      /\ \A i \in DOMAIN LogOf(r) : LogOf(r)[i] # "running"
      /\ file[Report][r].path = task.path
  BY <1>1, <1>2, <1>3 DEF Underway
<1>5. /\ \A k \in {Log, Report} : Valid(file', proof', k, r)
      /\ \A k \in Text \cup Media : Valid(file', proof', k, file'[Report][r].path[k])
      /\ LogOf(r)' = LogOf(r)
  BY <1>1, <1>2, <1>4 DEF Valid, LogOf, Proved
<1>6. QED
  BY <1>1, <1>3, <1>4, <1>5 DEF Proven, Verifies, Valid, LogOf

\* render.py: whatever the manifest comes to name, made now or taken over, is
\* proven in all its parts at that moment, with no command of it left running.
THEOREM DeliveryTheorem == Spec => DeliveredIsProven
<1>1. ASSUME RenderInductive, [Next]_vars,
             (pending /\ ~pending') \/ output' \notin {output, 0}
      PROVE  Proven(output)'
  <2>1. TakeRender \/ Deliver
    <3>1. ~UNCHANGED << output, pending >>
      BY <1>1
    <3>2. ASSUME NEW k \in Kind, NEW n, RetryRender(k, n)
          PROVE  FALSE
      <4>1. pending' = TRUE /\ output' \in {0, output}
        BY <3>2 DEF RetryRender
      <4>2. QED
        BY <1>1, <4>1
    <3>3. ~LoseReports
      BY <1>1 DEF LoseReports
    <3>4. \/ TakeRender \/ Deliver \/ LoseReports \/ UNCHANGED << output, pending >>
          \/ \E k \in Kind : \E n \in {0} \cup DOMAIN proof[k] : RetryRender(k, n)
      BY <1>1 DEF Next, Run, Start, StartForced, Open, KeepText, WriteText, BeginCommand,
         CommandFails, EndMaking, Place, EndChecking, Refuse, ProveFile, Seal, WriteReport,
         ProveReport, Die, vars
    <3>5. QED
      BY <3>1, <3>2, <3>3, <3>4
  <2>2. QED
    BY <1>1, <2>1, TakenOverIsProven, DeliveredWasProven
<1>2. QED
  BY <1>1, RenderInvariance, PTL DEF Spec, DeliveredIsProven

=============================================================================
