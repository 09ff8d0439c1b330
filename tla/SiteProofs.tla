----------------------------- MODULE SiteProofs -----------------------------
(* Theorems about the creator page and the run store below it, for every   *)
(* number of tabs, jobs and other processes, and with requests that are    *)
(* answered in any order, late, or not at all.                             *)
EXTENDS Site, TLAPS

USE StoreAssumption, SiteAssumption

Job == Jobs \cup {NoJob}
ManifestRecord == [revision : Nat, ended : BOOLEAN, dubbed : BOOLEAN]
StatusRecord == [job : Job, revision : Nat, ended : BOOLEAN, dubbed : BOOLEAN, events : Nat]
AnswerRecord == [how : {"pending", "missing", "broken", "status"}, status : StatusRecord]

Post == [n : Nat, job : Job, answer : AnswerRecord]
Poll == [job : Jobs, answer : AnswerRecord]
Page == [jobId : Job, url : Job, poller : BOOLEAN, polling : BOOLEAN, shown : StatusRecord,
         preview : Job, file : BOOLEAN, ready : BOOLEAN]

\* Every variable keeps its type.
StoreTypeOK ==
    /\ manifest \in [Jobs -> ManifestRecord]
    /\ log \in [Jobs -> Nat]
    /\ held \in [Holders -> [job : Job, copy : ManifestRecord, seen : Nat,
                             refused : BOOLEAN]]

SiteTypeOK ==
    /\ page \in [Tabs -> Page]
    /\ posts \in [Tabs -> SUBSET Post]
    /\ polls \in [Tabs -> SUBSET Poll]
    /\ storage \in Job
    /\ starts \in Nat

\* What is held is no newer than what is on disk, a refused copy is older, and
\* the log does not run ahead of the manifest.
StoreInv ==
    /\ \A j \in Jobs : log[j] <= manifest[j].revision
    /\ \A h \in Holders : held[h].job # NoJob =>
          /\ held[h].seen = held[h].copy.revision
          /\ held[h].seen <= manifest[held[h].job].revision
    /\ \A h \in Holders : held[h].refused =>
          held[h].job # NoJob /\ held[h].seen < manifest[held[h].job].revision

\* What is on its way to a tab.
Requests(t) == posts[t] \cup polls[t]

\* An answer is a failure or the status of the job asked for, and no newer than
\* the manifest.
HonestAnswer(r) ==
    /\ r.answer.status.events = r.answer.status.revision
    /\ \/ r.answer \in {Pending, Missing, Broken}
       \/ /\ r.answer.how = "status" /\ r.job \in Jobs /\ r.answer.status.job = r.job
          /\ \/ manifest[r.job] = Removed
             \/ r.answer.status.revision <= manifest[r.job].revision

\* The status a tab shows is of its job, and no newer than the manifest; the video
\* beside it is not of a job that the status would replace, nor one left behind.
HonestPage(pg) ==
    /\ pg.url = pg.jobId
    /\ pg.shown.dubbed => pg.preview \in {pg.shown.job, NoJob}
    /\ pg.preview # NoJob => pg.jobId # NoJob
    /\ \/ pg.shown = Nothing
       \/ /\ pg.jobId \in Jobs /\ pg.shown.job = pg.jobId
          /\ \/ manifest[pg.jobId] = Removed
             \/ pg.shown.revision <= manifest[pg.jobId].revision

\* One status request at a time, and its answer is no older than what is shown.
OneAtATime(t) ==
    /\ \A p, q \in polls[t] : p = q
    /\ ~page[t].polling => polls[t] = {}

InOrder(t) == \A p \in polls[t] :
    (p.answer.how = "status" /\ page[t].shown.job = p.job)
    => p.answer.status.revision >= page[t].shown.revision

\* A job that anybody has heard of has been created.
Known(j) == j # NoJob => manifest[j] # Absent

Created ==
    /\ Known(storage)
    /\ \A t \in Tabs : Known(page[t].jobId)
    /\ \A t \in Tabs : \A r \in Requests(t) : Known(r.job)

\* Until it is told, the job of a submission is known to that submission only.
Untold(u, q) ==
    /\ storage # q.job
    /\ \A t \in Tabs :
          /\ page[t].jobId # q.job
          /\ \A p \in polls[t] : p.job # q.job
          /\ \A o \in posts[t] : o.job = q.job => (t = u /\ o = q)

SiteInv ==
    /\ \A t \in Tabs : HonestPage(page[t]) /\ OneAtATime(t) /\ InOrder(t)
    /\ \A t \in Tabs : \A r \in Requests(t) : HonestAnswer(r)
    /\ Created
    /\ \A t \in Tabs : \A q \in posts[t] : q.job # NoJob => Untold(t, q)

Inductive == StoreTypeOK /\ SiteTypeOK /\ StoreInv /\ SiteInv

\* The steps of the store, whoever takes them.
StoreStep ==
    \/ \E j \in Jobs : Create(j) \/ Mutate(j) \/ ReadStatus(j) \/ Remove(j)
    \/ \E h \in Holders : Process(h)
    \/ UNCHANGED << manifest, log, held >>

\* A manifest is followed by a newer one or by none, and for good.
Forward == \A j \in Jobs :
    /\ manifest[j] # Absent => manifest'[j] # Absent
    /\ manifest[j] = Removed => manifest'[j] = Removed
    /\ manifest'[j] = Removed \/ manifest'[j].revision >= manifest[j].revision

-----------------------------------------------------------------------------
(* The run store.                                                          *)

LEMMA AfterIsNewer ==
    ASSUME NEW m \in ManifestRecord, NEW n \in After(m)
    PROVE  n \in ManifestRecord /\ n.revision = m.revision + 1
  BY DEF After, ManifestRecord

\* A manifest is replaced by one with the next revision, and the log follows
\* or stays behind.
LEMMA ReplaceKeepsStore ==
    ASSUME StoreTypeOK, StoreInv, NEW j \in Jobs, NEW m \in ManifestRecord,
           Replace(j, m), manifest[j] # Removed,
           m.revision = manifest[j].revision + 1
    PROVE  /\ manifest' \in [Jobs -> ManifestRecord]
           /\ log' \in [Jobs -> Nat]
           /\ \A i \in Jobs : log'[i] <= manifest'[i].revision
           /\ \A i \in Jobs : manifest'[i].revision >= manifest[i].revision
           /\ manifest'[j] = m
           /\ Forward
<1>1. /\ manifest' = [manifest EXCEPT ![j] = m]
      /\ log' = [log EXCEPT ![j] = m.revision] \/ log' = log
  BY DEF Replace, Project
<1>2. manifest[j].revision \in Nat /\ m.revision \in Nat
  BY DEF StoreTypeOK, ManifestRecord
<1>3. /\ manifest' \in [Jobs -> ManifestRecord] /\ log' \in [Jobs -> Nat]
      /\ manifest'[j] = m
  BY <1>1, <1>2 DEF StoreTypeOK
<1>4. \A i \in Jobs : manifest'[i].revision >= manifest[i].revision
  BY <1>1, <1>2 DEF StoreTypeOK, ManifestRecord
<1>5. \A i \in Jobs : log'[i] <= manifest'[i].revision
  BY <1>1, <1>2 DEF StoreTypeOK, StoreInv, ManifestRecord
<1>6. Forward
  <2>1. m # Absent
    BY <1>2 DEF Absent
  <2> QED
    BY <1>1, <1>4, <2>1 DEF Forward
<1> QED
  BY <1>3, <1>4, <1>5, <1>6

LEMMA HolderStep ==
    ASSUME StoreTypeOK, StoreInv, NEW h \in Holders, Process(h)
    PROVE  StoreTypeOK' /\ StoreInv' /\ Forward
<1> USE DEF StoreTypeOK
<1> DEFINE j == held[h].job
           m == held[h].copy
<1>0. m \in ManifestRecord /\ held[h].seen \in Nat /\ held[h].refused \in BOOLEAN
      /\ j \in Job
  OBVIOUS
<1>1. ASSUME NEW i \in Jobs, Load(h, i)
      PROVE  StoreTypeOK' /\ StoreInv' /\ Forward
  <2>1. manifest[i] \in ManifestRecord /\ manifest[i].revision \in Nat
    BY DEF ManifestRecord
  <2>2. manifest' = manifest /\ log' = log
    BY <1>1 DEF Load
  <2>3. StoreTypeOK'
    BY <1>1, <2>1, <2>2 DEF Load, Job
  <2>4. StoreInv'
    BY <1>1, <2>1, <2>2 DEF Load, StoreInv, Job
  <2>5. Forward
    BY <2>2 DEF Forward, ManifestRecord
  <2> QED
    BY <2>3, <2>4, <2>5
<1>2. CASE Save(h)
  <2>1. PICK n \in After(m) :
           /\ Replace(j, n)
           /\ held' = [held EXCEPT ![h] = [@ EXCEPT !.copy = n, !.seen = n.revision,
                                                    !.refused = FALSE]]
    BY <1>2 DEF Save
  <2>2. j \in Jobs /\ manifest[j].revision = m.revision /\ manifest[j].revision > 0
    BY <1>2 DEF Save, Accepted, Exists, Job
  <2>3. n \in ManifestRecord /\ n.revision = manifest[j].revision + 1 /\ n.revision \in Nat
    BY <1>0, <2>2, AfterIsNewer DEF ManifestRecord
  <2>4. manifest[j] # Removed
    BY <2>2 DEF Removed
  <2>5. /\ manifest' \in [Jobs -> ManifestRecord]
        /\ log' \in [Jobs -> Nat]
        /\ \A i \in Jobs : log'[i] <= manifest'[i].revision
        /\ \A i \in Jobs : manifest'[i].revision >= manifest[i].revision
        /\ manifest'[j] = n
        /\ Forward
    BY <2>1, <2>2, <2>3, <2>4, ReplaceKeepsStore
  <2>6. StoreTypeOK'
    BY <2>1, <2>3, <2>5
  <2>7. /\ held'[h].job = j /\ held'[h].seen = n.revision /\ held'[h].copy = n
        /\ held'[h].refused = FALSE
        /\ \A g \in Holders : g # h => held'[g] = held[g]
    BY <2>1
  <2>8. ASSUME NEW g \in Holders, held'[g].job # NoJob
        PROVE  /\ held'[g].seen = held'[g].copy.revision
               /\ held'[g].seen <= manifest'[held'[g].job].revision
    <3>1. CASE g = h
      BY <2>3, <2>5, <2>7, <3>1
    <3>2. CASE g # h
      <4>1. held'[g] = held[g] /\ held[g].job \in Jobs
        BY <2>7, <2>8, <3>2 DEF Job
      <4>2. held[g].seen <= manifest[held[g].job].revision /\ held[g].seen = held[g].copy.revision
        BY <2>8, <4>1 DEF StoreInv
      <4>3. manifest'[held[g].job].revision >= manifest[held[g].job].revision
        BY <2>5, <4>1
      <4> QED
        BY <2>5, <4>1, <4>2, <4>3 DEF ManifestRecord
    <3> QED
      BY <3>1, <3>2
  <2>9. ASSUME NEW g \in Holders, held'[g].refused
        PROVE  held'[g].job # NoJob /\ held'[g].seen < manifest'[held'[g].job].revision
    <3>1. g # h /\ held'[g] = held[g]
      BY <2>7, <2>9
    <3>2. held[g].job \in Jobs /\ held[g].job # NoJob
          /\ held[g].seen < manifest[held[g].job].revision
      BY <2>9, <3>1 DEF StoreInv, Job
    <3>3. manifest'[held[g].job].revision >= manifest[held[g].job].revision
      BY <2>5, <3>2
    <3> QED
      BY <2>5, <3>1, <3>2, <3>3 DEF ManifestRecord
  <2>10. StoreInv'
    BY <2>5, <2>8, <2>9 DEF StoreInv
  <2> QED
    BY <2>5, <2>6, <2>10
<1>3. CASE SaveFails(h)
  <2>1. /\ manifest' = manifest /\ log' = log
        /\ held' = [held EXCEPT ![h].copy = @, ![h].refused = FALSE]
    BY <1>3 DEF SaveFails, Restored
  <2>2. /\ held'[h] = [held[h] EXCEPT !.refused = FALSE]
        /\ \A g \in Holders : g # h => held'[g] = held[g]
        /\ StoreTypeOK'
    BY <1>0, <2>1
  <2>3. StoreInv'
    BY <2>1, <2>2 DEF StoreInv
  <2>4. Forward
    BY <2>1 DEF Forward, ManifestRecord
  <2> QED
    BY <2>2, <2>3, <2>4
<1>4. CASE SaveRefused(h)
  <2>1. /\ manifest' = manifest /\ log' = log
        /\ held' = [held EXCEPT ![h].refused = TRUE]
        /\ j \in Jobs /\ manifest[j].revision # m.revision
    BY <1>4 DEF SaveRefused, Accepted, Job
  <2>2. held[h].seen < manifest[j].revision
    BY <1>0, <2>1 DEF StoreInv, ManifestRecord
  <2>3. StoreTypeOK'
    BY <2>1
  <2>4. StoreInv'
    BY <2>1, <2>2 DEF StoreInv
  <2>5. Forward
    BY <2>1 DEF Forward, ManifestRecord
  <2> QED
    BY <2>3, <2>4, <2>5
<1> QED
  BY <1>1, <1>2, <1>3, <1>4 DEF Process

LEMMA StoreStepKeeps ==
    ASSUME StoreTypeOK, StoreInv, StoreStep
    PROVE  StoreTypeOK' /\ StoreInv' /\ Forward
<1>1. ASSUME NEW j \in Jobs, NEW m \in ManifestRecord, Replace(j, m), manifest[j] # Removed,
             m.revision = manifest[j].revision + 1, held' = held
      PROVE  StoreTypeOK' /\ StoreInv' /\ Forward
  <2>1. /\ manifest' \in [Jobs -> ManifestRecord]
        /\ log' \in [Jobs -> Nat]
        /\ \A i \in Jobs : log'[i] <= manifest'[i].revision
        /\ \A i \in Jobs : manifest'[i].revision >= manifest[i].revision
        /\ Forward
    BY <1>1, ReplaceKeepsStore
  <2>2. StoreTypeOK'
    BY <1>1, <2>1 DEF StoreTypeOK
  <2>3. StoreInv'
    BY <1>1, <2>1 DEF StoreInv, StoreTypeOK, ManifestRecord, Job
  <2> QED
    BY <2>1, <2>2, <2>3
<1>2. ASSUME NEW j \in Jobs, Create(j)
      PROVE  StoreTypeOK' /\ StoreInv' /\ Forward
  <2> DEFINE m == [revision |-> 1, ended |-> FALSE, dubbed |-> FALSE]
  <2>1. Replace(j, m) /\ held' = held /\ manifest[j] = Absent
    BY <1>2 DEF Create
  <2>2. m \in ManifestRecord /\ m.revision = 1 /\ Absent.revision + 1 = 1
        /\ Absent # Removed
    BY DEF ManifestRecord, Absent, Removed
  <2> HIDE DEF m
  <2> QED
    BY <1>1, <2>1, <2>2
<1>3. ASSUME NEW j \in Jobs, Mutate(j)
      PROVE  StoreTypeOK' /\ StoreInv' /\ Forward
  <2>1. PICK m \in After(manifest[j]) : Replace(j, m)
    BY <1>3 DEF Mutate
  <2>2. m \in ManifestRecord /\ m.revision = manifest[j].revision + 1
    BY AfterIsNewer DEF StoreTypeOK
  <2>3. manifest[j] # Removed /\ held' = held
    BY <1>3 DEF Mutate, Exists, Removed
  <2> QED
    BY <1>1, <2>1, <2>2, <2>3
<1>4. ASSUME NEW j \in Jobs, ReadStatus(j)
      PROVE  StoreTypeOK' /\ StoreInv' /\ Forward
  BY <1>4 DEF ReadStatus, Project, StoreTypeOK, StoreInv, Forward, ManifestRecord
<1>5. ASSUME NEW j \in Jobs, Remove(j)
      PROVE  StoreTypeOK' /\ StoreInv' /\ Forward
  <2>1. /\ manifest' = [manifest EXCEPT ![j] = Removed] /\ log' = [log EXCEPT ![j] = 0]
        /\ held' = held /\ \A h \in Holders : held[h].job # j
    BY <1>5 DEF Remove
  <2>2. Removed \in ManifestRecord /\ Removed # Absent /\ Removed.revision = 0
    BY DEF Removed, Absent, ManifestRecord
  <2>3. StoreTypeOK'
    BY <2>1, <2>2 DEF StoreTypeOK
  <2>4. StoreInv'
    BY <2>1, <2>2 DEF StoreInv, StoreTypeOK, ManifestRecord, Job
  <2>5. Forward
    BY <2>1, <2>2 DEF Forward, StoreTypeOK, ManifestRecord
  <2> QED
    BY <2>3, <2>4, <2>5
<1>6. CASE UNCHANGED << manifest, log, held >>
  BY <1>6 DEF StoreTypeOK, StoreInv, Forward, ManifestRecord
<1> QED
  BY <1>2, <1>3, <1>4, <1>5, <1>6, HolderStep DEF StoreStep

-----------------------------------------------------------------------------
(* What is honest, or known, stays so while manifests go forward.          *)

LEMMA HonestAnswerStays ==
    ASSUME StoreTypeOK, StoreTypeOK', Forward,
           NEW r, r.answer \in AnswerRecord, HonestAnswer(r)
    PROVE  HonestAnswer(r)'
<1>1. CASE r.answer \in {Pending, Missing, Broken}
  BY <1>1 DEF HonestAnswer
<1>2. CASE /\ r.answer.how = "status" /\ r.job \in Jobs /\ r.answer.status.job = r.job
           /\ \/ manifest[r.job] = Removed
              \/ r.answer.status.revision <= manifest[r.job].revision
  <2>1. /\ manifest[r.job] = Removed => manifest'[r.job] = Removed
        /\ manifest'[r.job] = Removed \/ manifest'[r.job].revision >= manifest[r.job].revision
    BY <1>2 DEF Forward
  <2>2. /\ manifest[r.job].revision \in Nat /\ manifest'[r.job].revision \in Nat
        /\ r.answer.status.revision \in Nat
    BY <1>2 DEF StoreTypeOK, ManifestRecord, AnswerRecord, StatusRecord
  <2>3. manifest'[r.job] = Removed \/ r.answer.status.revision <= manifest'[r.job].revision
    BY <1>2, <2>1, <2>2
  <2> QED
    BY <1>2, <2>3 DEF HonestAnswer
<1> QED
  BY <1>1, <1>2 DEF HonestAnswer

LEMMA HonestPageStays ==
    ASSUME StoreTypeOK, StoreTypeOK', Forward, NEW pg \in Page, HonestPage(pg)
    PROVE  HonestPage(pg)'
<1>1. CASE pg.shown = Nothing
  BY <1>1 DEF HonestPage
<1>2. CASE pg.jobId \in Jobs /\ pg.shown # Nothing
  <2>1. /\ manifest[pg.jobId] = Removed => manifest'[pg.jobId] = Removed
        /\ manifest'[pg.jobId] = Removed
           \/ manifest'[pg.jobId].revision >= manifest[pg.jobId].revision
    BY <1>2 DEF Forward
  <2>2. /\ manifest[pg.jobId].revision \in Nat /\ manifest'[pg.jobId].revision \in Nat
        /\ pg.shown.revision \in Nat
    BY <1>2 DEF StoreTypeOK, ManifestRecord, Page, StatusRecord
  <2>3. manifest'[pg.jobId] = Removed \/ pg.shown.revision <= manifest'[pg.jobId].revision
    BY <1>2, <2>1, <2>2 DEF HonestPage
  <2> QED
    BY <1>2, <2>3 DEF HonestPage
<1> QED
  BY <1>1, <1>2 DEF HonestPage

LEMMA KnownStays ==
    ASSUME Forward, NEW j \in Job, Known(j)
    PROVE  Known(j)'
  BY DEF Forward, Known, Job

LEMMA Unmoved ==
    ASSUME StoreTypeOK, UNCHANGED manifest PROVE Forward
  BY DEF StoreTypeOK, ManifestRecord, Forward

\* Nothing is told or shown, only the store moves.
LEMMA StoreOnly ==
    ASSUME Inductive, StoreTypeOK', Forward, UNCHANGED << page, posts, polls, storage >>
    PROVE  SiteInv'
<1>1. \A t \in Tabs : HonestPage(page[t])'
  BY HonestPageStays DEF Inductive, SiteInv, SiteTypeOK, Page
<1>2. \A t \in Tabs : \A r \in Requests(t) : HonestAnswer(r)'
  BY HonestAnswerStays DEF Inductive, SiteInv, SiteTypeOK, Requests, Page, Post, Poll
<1>3. Created'
  <2>1. \A t \in Tabs : page[t].jobId \in Job /\ \A r \in Requests(t) : r.job \in Job
    BY DEF Inductive, SiteTypeOK, Requests, Job, Page, Post, Poll
  <2>2. \A t \in Tabs : Known(page[t].jobId)'
    BY <2>1, KnownStays DEF Inductive, SiteInv, Created
  <2>3. \A t \in Tabs : \A r \in Requests(t) : Known(r.job)'
    BY <2>1, KnownStays DEF Inductive, SiteInv, Created
  <2>4. Known(storage)'
    BY KnownStays DEF Inductive, SiteInv, SiteTypeOK, Created
  <2> QED
    BY <2>2, <2>3, <2>4 DEF Created, Requests, Known
<1>4. \A t \in Tabs : OneAtATime(t)' /\ InOrder(t)'
  BY DEF Inductive, SiteInv, OneAtATime, InOrder
<1>5. \A t \in Tabs : \A q \in posts'[t] : q.job # NoJob => Untold(t, q)'
  BY DEF Inductive, SiteInv, Untold
<1> QED
  BY <1>1, <1>2, <1>3, <1>4, <1>5 DEF SiteInv, Requests, HonestPage

-----------------------------------------------------------------------------
(* Requests come nearer to their answers.                                  *)

\* A submission is given a job or an answer.
LEMMA PostAdvances ==
    ASSUME Inductive, StoreTypeOK', Forward, UNCHANGED << page, polls, storage >>,
           NEW t \in Tabs, NEW p \in posts[t], NEW q \in Post,
           posts' = [posts EXCEPT ![t] = (@ \ {p}) \cup {q}],
           q.job = p.job \/ (q.job \in Jobs /\ manifest[q.job] = Absent),
           Known(q.job)', HonestAnswer(q)'
    PROVE  SiteInv'
<1> USE DEF Inductive
<1>1. /\ posts'[t] = (posts[t] \ {p}) \cup {q}
      /\ \A u \in Tabs : u # t => posts'[u] = posts[u]
      /\ \A u \in Tabs : posts'[u] \subseteq posts[u] \cup {q}
  BY DEF SiteTypeOK
<1>2. \A u \in Tabs : HonestPage(page[u])'
  BY HonestPageStays DEF SiteInv, SiteTypeOK, Page
<1>3. \A u \in Tabs : \A r \in Requests(u) : HonestAnswer(r)'
  BY HonestAnswerStays DEF SiteInv, SiteTypeOK, Requests, Page, Post, Poll
<1>4. \A u \in Tabs : \A r \in Requests(u)' : HonestAnswer(r)'
  <2> SUFFICES ASSUME NEW u \in Tabs, NEW r \in Requests(u)' PROVE HonestAnswer(r)'
    OBVIOUS
  <2>1. r = q \/ r \in Requests(u)
    BY <1>1 DEF Requests
  <2> QED
    BY <1>3, <2>1
<1>5. Created'
  <2>1. \A u \in Tabs : page[u].jobId \in Job /\ \A r \in Requests(u) : r.job \in Job
    BY DEF SiteTypeOK, Requests, Job, Page, Post, Poll
  <2>2. \A u \in Tabs : Known(page[u].jobId)'
    BY <2>1, KnownStays DEF SiteInv, Created
  <2>3. \A u \in Tabs : \A r \in Requests(u) : Known(r.job)'
    BY <2>1, KnownStays DEF SiteInv, Created
  <2>4. Known(storage)'
    BY KnownStays DEF SiteInv, SiteTypeOK, Created
  <2>5. \A u \in Tabs : \A r \in Requests(u)' : r = q \/ r \in Requests(u)
    BY <1>1 DEF Requests
  <2> QED
    BY <2>2, <2>3, <2>4, <2>5 DEF Created, Known
<1>6. \A u \in Tabs : OneAtATime(u)' /\ InOrder(u)'
  BY DEF SiteInv, OneAtATime, InOrder
<1>7. \A u \in Tabs : \A o \in posts[u] :
          (o.job = q.job /\ q.job # NoJob) => (u = t /\ o = p)
  <2>1. CASE q.job = p.job
    BY <2>1 DEF SiteInv, Untold
  <2>2. CASE q.job \in Jobs /\ manifest[q.job] = Absent
    BY <2>2 DEF SiteInv, Created, Known, Requests
  <2> QED
    BY <2>1, <2>2
<1>8. q.job # NoJob => /\ storage # q.job
                       /\ \A u \in Tabs : page[u].jobId # q.job
                                          /\ \A o \in polls[u] : o.job # q.job
  <2>1. CASE q.job = p.job
    BY <2>1 DEF SiteInv, Untold
  <2>2. CASE q.job \in Jobs /\ manifest[q.job] = Absent
    BY <2>2 DEF SiteInv, Created, Known, Requests
  <2> QED
    BY <2>1, <2>2
<1>9. ASSUME NEW u \in Tabs, NEW o \in posts'[u], o.job # NoJob
      PROVE  Untold(u, o)'
  <2>1. CASE o = q
    <3>1. u = t
      BY <1>1, <1>7, <1>9, <2>1
    <3> QED
      BY <1>1, <1>7, <1>8, <1>9, <2>1, <3>1 DEF Untold
  <2>2. CASE o # q
    <3>1. o \in posts[u] /\ (u = t => o # p)
      BY <1>1, <2>2
    <3>2. Untold(u, o)
      BY <1>9, <3>1 DEF SiteInv
    <3>3. o.job # q.job
      BY <1>7, <1>9, <3>1
    <3> QED
      BY <1>1, <3>2, <3>3 DEF Untold
  <2> QED
    BY <2>1, <2>2
<1> QED
  BY <1>2, <1>4, <1>5, <1>6, <1>9 DEF SiteInv, HonestPage

\* A status request is answered, with a state no older than what its tab shows.
LEMMA PollAdvances ==
    ASSUME Inductive, StoreTypeOK', Forward, UNCHANGED << page, posts, storage >>,
           NEW t \in Tabs, NEW p \in polls[t], NEW q \in Poll,
           polls' = [polls EXCEPT ![t] = (@ \ {p}) \cup {q}],
           q.job = p.job, HonestAnswer(q)',
           (q.answer.how = "status" /\ page[t].shown.job = q.job)
               => q.answer.status.revision >= page[t].shown.revision
    PROVE  SiteInv'
<1> USE DEF Inductive
<1>1. /\ polls'[t] = {q}
      /\ \A u \in Tabs : u # t => polls'[u] = polls[u]
      /\ \A u \in Tabs : \A r \in polls'[u] : \E o \in polls[u] : o.job = r.job
  BY DEF SiteTypeOK, SiteInv, OneAtATime
<1>2. \A u \in Tabs : HonestPage(page[u])'
  BY HonestPageStays DEF SiteInv, SiteTypeOK, Page
<1>3. \A u \in Tabs : \A r \in Requests(u) : HonestAnswer(r)'
  BY HonestAnswerStays DEF SiteInv, SiteTypeOK, Requests, Page, Post, Poll
<1>4. \A u \in Tabs : \A r \in Requests(u)' : HonestAnswer(r)'
  <2> SUFFICES ASSUME NEW u \in Tabs, NEW r \in Requests(u)' PROVE HonestAnswer(r)'
    OBVIOUS
  <2>1. r = q \/ r \in Requests(u)
    BY <1>1 DEF Requests
  <2> QED
    BY <1>3, <2>1
<1>5. Created'
  <2>1. \A u \in Tabs : page[u].jobId \in Job /\ \A r \in Requests(u) : r.job \in Job
    BY DEF SiteTypeOK, Requests, Job, Page, Post, Poll
  <2>2. \A u \in Tabs : Known(page[u].jobId)'
    BY <2>1, KnownStays DEF SiteInv, Created
  <2>3. \A u \in Tabs : \A r \in Requests(u) : Known(r.job)'
    BY <2>1, KnownStays DEF SiteInv, Created
  <2>4. Known(storage)'
    BY KnownStays DEF SiteInv, SiteTypeOK, Created
  <2>5. \A u \in Tabs : \A r \in Requests(u)' : \E o \in Requests(u) : r.job = o.job
    BY <1>1 DEF Requests
  <2> QED
    BY <2>2, <2>3, <2>4, <2>5 DEF Created, Known
<1>6. \A u \in Tabs : OneAtATime(u)' /\ InOrder(u)'
  <2> SUFFICES ASSUME NEW u \in Tabs PROVE OneAtATime(u)' /\ InOrder(u)'
    OBVIOUS
  <2>1. CASE u = t
    BY <1>1, <2>1 DEF SiteInv, OneAtATime, InOrder
  <2>2. CASE u # t
    BY <1>1, <2>2 DEF SiteInv, OneAtATime, InOrder
  <2> QED
    BY <2>1, <2>2
<1>7. \A u \in Tabs : \A o \in posts'[u] : o.job # NoJob => Untold(u, o)'
  BY <1>1 DEF SiteInv, Untold
<1> QED
  BY <1>2, <1>4, <1>5, <1>6, <1>7 DEF SiteInv, HonestPage

-----------------------------------------------------------------------------
(* The steps of the server.                                                *)

LEMMA Failures ==
    /\ {Pending, Missing, Broken} \subseteq AnswerRecord
    /\ \A a \in {Pending, Missing, Broken} :
          a.how # "status" /\ a.status = Nothing /\ a.status.events = a.status.revision
  BY DEF Pending, Missing, Broken, Answer, AnswerRecord, StatusRecord, Nothing, Job

LEMMA StatusIsHonest ==
    ASSUME StoreTypeOK, NEW j \in Jobs
    PROVE  LET a == Answer("status", StatusOf(j)) IN
           /\ a \in AnswerRecord /\ a.how = "status" /\ a.status.job = j
           /\ a.status.events = a.status.revision
           /\ a.status.revision = manifest[j].revision
<1>1. StatusOf(j) \in StatusRecord /\ StatusOf(j).events = StatusOf(j).revision
  BY DEF StatusOf, EventsOf, StoreTypeOK, ManifestRecord, StatusRecord, Job
<1> QED
  BY <1>1 DEF Answer, AnswerRecord, StatusOf

\* What every step has to keep, but for the store.
SiteOK == SiteTypeOK /\ SiteInv

LEMMA SubmitStep ==
    ASSUME Inductive, StoreTypeOK', Forward, NEW t \in Tabs, Submit(t)
    PROVE  SiteOK'
<1>1. PICK p \in posts[t], j \in Jobs :
         /\ p.answer = Pending /\ p.job = NoJob
         /\ Create(j)
         /\ posts' = [posts EXCEPT ![t] = (@ \ {p}) \cup {[p EXCEPT !.job = j]}]
  BY DEF Submit
<1>2. UNCHANGED << page, polls, storage, starts >>
  BY DEF Submit
<1>3. PICK q \in Post : q = [p EXCEPT !.job = j] /\ q.job = j /\ q.answer = Pending
  <2>1. p \in Post /\ [p EXCEPT !.job = j] \in Post
    BY DEF Inductive, SiteTypeOK, Post, Job
  <2> QED
    BY <1>1, <2>1 DEF Post
<1>4. manifest[j] = Absent /\ manifest'[j] # Absent
  BY <1>1 DEF Create, Replace, Absent, Inductive, StoreTypeOK
<1>5. Known(q.job)' /\ HonestAnswer(q)'
  BY <1>3, <1>4, Failures DEF Known, HonestAnswer
<1>6. SiteInv'
  BY <1>1, <1>2, <1>3, <1>4, <1>5, PostAdvances
<1>7. SiteTypeOK'
  BY <1>1, <1>2, <1>3 DEF Inductive, SiteTypeOK, Post
<1> QED
  BY <1>6, <1>7 DEF SiteOK

LEMMA PostFails ==
    ASSUME Inductive, StoreTypeOK', Forward, UNCHANGED << page, polls, storage, starts >>,
           NEW t \in Tabs, NEW p \in posts[t], NEW a \in {Missing, Broken},
           posts' = [posts EXCEPT ![t] = (@ \ {p}) \cup {[p EXCEPT !.answer = a]}]
    PROVE  SiteOK'
<1> DEFINE q == [p EXCEPT !.answer = a]
<1>1. p \in Post /\ q \in Post /\ q.job = p.job /\ q.answer = a /\ p.job \in Job
  BY Failures DEF Inductive, SiteTypeOK, Post
<1>2. Known(q.job)' /\ HonestAnswer(q)'
  <2>1. Known(p.job)
    BY DEF Inductive, SiteInv, Created, Requests
  <2> QED
    BY <1>1, <2>1, KnownStays, Failures DEF HonestAnswer
<1>3. SiteInv'
  <2> HIDE DEF q
  <2> QED
    BY <1>1, <1>2, PostAdvances DEF q
<1>4. SiteTypeOK'
  BY <1>1 DEF Inductive, SiteTypeOK, Post
<1> QED
  BY <1>3, <1>4 DEF SiteOK

LEMMA PollFails ==
    ASSUME Inductive, StoreTypeOK', Forward, UNCHANGED << page, posts, storage, starts >>,
           NEW t \in Tabs, NEW p \in polls[t], NEW a \in {Missing, Broken},
           polls' = [polls EXCEPT ![t] = (@ \ {p}) \cup {[p EXCEPT !.answer = a]}]
    PROVE  SiteOK'
<1> DEFINE q == [p EXCEPT !.answer = a]
<1>1. p \in Poll /\ q \in Poll /\ q.job = p.job /\ q.answer = a
  BY Failures DEF Inductive, SiteTypeOK, Poll
<1>2. HonestAnswer(q)' /\ q.answer.how # "status"
  BY <1>1, Failures DEF HonestAnswer
<1>3. SiteInv'
  <2> HIDE DEF q
  <2> QED
    BY <1>1, <1>2, PollAdvances DEF q
<1>4. SiteTypeOK'
  BY <1>1 DEF Inductive, SiteTypeOK, Poll
<1> QED
  BY <1>3, <1>4 DEF SiteOK

LEMMA AnswerPostStep ==
    ASSUME Inductive, StoreTypeOK', Forward, NEW t \in Tabs, AnswerPost(t)
    PROVE  SiteOK'
<1>1. PICK p \in posts[t] :
         /\ p.job # NoJob /\ ReadStatus(p.job)
         /\ posts' = [posts EXCEPT ![t] = (@ \ {p}) \cup
                {[p EXCEPT !.answer = Answer("status", StatusOf(p.job))]}]
  BY DEF AnswerPost
<1>2. UNCHANGED << page, polls, storage, starts >> /\ manifest' = manifest
  BY <1>1 DEF AnswerPost, ReadStatus
<1>3. p \in Post /\ p.job \in Jobs
  BY <1>1 DEF Inductive, SiteTypeOK, Post, Job
<1>4. PICK a \in AnswerRecord :
         /\ a = Answer("status", StatusOf(p.job))
         /\ a.how = "status" /\ a.status.job = p.job
         /\ a.status.events = a.status.revision
         /\ a.status.revision = manifest[p.job].revision
  BY <1>3, StatusIsHonest DEF Inductive
<1>5. PICK q \in Post : q = [p EXCEPT !.answer = a] /\ q.job = p.job /\ q.answer = a
  <2>1. [p EXCEPT !.answer = a] \in Post
    BY <1>3 DEF Post
  <2> QED
    BY <1>3, <2>1 DEF Post
<1>6. Known(q.job)' /\ HonestAnswer(q)'
  <2>1. Known(p.job)
    BY DEF Inductive, SiteInv, Created, Requests
  <2>2. manifest[p.job].revision \in Nat
    BY <1>3 DEF Inductive, StoreTypeOK, ManifestRecord
  <2> QED
    BY <1>2, <1>3, <1>4, <1>5, <2>1, <2>2 DEF Known, HonestAnswer
<1>7. posts' = [posts EXCEPT ![t] = (@ \ {p}) \cup {q}]
  BY <1>1, <1>4, <1>5
<1>8. SiteInv'
  BY <1>2, <1>5, <1>6, <1>7, PostAdvances
<1>9. SiteTypeOK'
  BY <1>2, <1>7 DEF Inductive, SiteTypeOK, Post
<1> QED
  BY <1>8, <1>9 DEF SiteOK

LEMMA AnswerPollStep ==
    ASSUME Inductive, StoreTypeOK', Forward, NEW t \in Tabs, AnswerPoll(t)
    PROVE  SiteOK'
<1>1. PICK p \in polls[t] :
         IF Exists(p.job)
         THEN /\ ReadStatus(p.job)
              /\ polls' = [polls EXCEPT ![t] = (@ \ {p}) \cup
                     {[p EXCEPT !.answer = Answer("status", StatusOf(p.job))]}]
         ELSE polls' = [polls EXCEPT ![t] = (@ \ {p}) \cup {[p EXCEPT !.answer = Missing]}]
  BY DEF AnswerPoll
<1>2. UNCHANGED << page, posts, storage, starts >>
  BY DEF AnswerPoll
<1>3. CASE ~Exists(p.job)
  BY <1>1, <1>2, <1>3, PollFails
<1>4. CASE Exists(p.job)
  <2>1. p \in Poll /\ p.job \in Jobs /\ manifest' = manifest /\ manifest[p.job] # Removed
    BY <1>1, <1>4 DEF Inductive, SiteTypeOK, Poll, ReadStatus, Exists, Removed
  <2>2. PICK a \in AnswerRecord :
           /\ a = Answer("status", StatusOf(p.job))
           /\ a.how = "status" /\ a.status.job = p.job
           /\ a.status.events = a.status.revision
           /\ a.status.revision = manifest[p.job].revision
    BY <2>1, StatusIsHonest DEF Inductive
  <2>3. PICK q \in Poll : q = [p EXCEPT !.answer = a] /\ q.job = p.job /\ q.answer = a
    <3>1. [p EXCEPT !.answer = a] \in Poll
      BY <2>1 DEF Poll
    <3> QED
      BY <2>1, <3>1 DEF Poll
  <2>4. polls' = [polls EXCEPT ![t] = (@ \ {p}) \cup {q}]
    BY <1>1, <1>4, <2>2, <2>3
  <2>5. manifest[p.job].revision \in Nat
    BY <2>1 DEF Inductive, StoreTypeOK, ManifestRecord
  <2>6. HonestAnswer(q)'
    BY <2>1, <2>2, <2>3, <2>5 DEF HonestAnswer
  <2>7. page[t].shown.job = p.job => a.status.revision >= page[t].shown.revision
    BY <2>1, <2>2, <2>5
       DEF Inductive, SiteInv, HonestPage, Nothing, SiteTypeOK, StatusRecord
  <2>8. SiteInv'
    BY <1>2, <2>3, <2>4, <2>6, <2>7, PollAdvances
  <2>9. SiteTypeOK'
    BY <1>2, <2>4 DEF Inductive, SiteTypeOK, Poll
  <2> QED
    BY <2>8, <2>9 DEF SiteOK
<1> QED
  BY <1>3, <1>4

-----------------------------------------------------------------------------
(* The steps of the page.                                                  *)

\* A tab goes on to a page and a set of status requests; the jobs it then
\* follows, asks for and remembers are known and none of them still untold.
LEMMA PageMoves ==
    ASSUME Inductive, UNCHANGED manifest,
           NEW t \in Tabs, NEW pg \in Page, NEW P \in SUBSET Poll,
           page' = [page EXCEPT ![t] = pg],
           polls' = [polls EXCEPT ![t] = P],
           posts' \in [Tabs -> SUBSET Post],
           \A u \in Tabs : posts'[u] \subseteq posts[u],
           storage' \in Job, starts' \in Nat,
           HonestPage(pg),
           \A p, q \in P : p = q,
           ~pg.polling => P = {},
           \A p \in P : HonestAnswer(p),
           \A p \in P : (p.answer.how = "status" /\ pg.shown.job = p.job)
                            => p.answer.status.revision >= pg.shown.revision,
           \A j \in {pg.jobId, storage'} \cup {p.job : p \in P} :
               /\ Known(j)
               /\ \A u \in Tabs : \A q \in posts'[u] : q.job = j => j = NoJob
    PROVE  SiteOK'
<1> USE DEF Inductive
<1>1. /\ page'[t] = pg /\ polls'[t] = P
      /\ \A u \in Tabs : u # t => page'[u] = page[u] /\ polls'[u] = polls[u]
  BY DEF SiteTypeOK
<1>2. SiteTypeOK'
  <2>1. page' \in [Tabs -> Page] /\ polls' \in [Tabs -> SUBSET Poll]
    BY DEF SiteTypeOK, Page, Poll
  <2> QED
    BY <2>1 DEF SiteTypeOK, Page, Post, Poll
<1>3. Forward
  BY Unmoved
<1>4. \A u \in Tabs : HonestPage(page[u])'
  BY <1>1 DEF SiteInv, HonestPage
<1>5. ASSUME NEW u \in Tabs, NEW r \in Requests(u)'
      PROVE  HonestAnswer(r)' /\ Known(r.job)'
  <2>1. r \in Requests(u) \/ r \in P
    BY <1>1 DEF Requests
  <2>2. HonestAnswer(r) /\ Known(r.job)
    BY <2>1 DEF SiteInv, Created
  <2> QED
    BY <2>2 DEF HonestAnswer, Known
<1>6. Known(storage)' /\ \A u \in Tabs : Known(page[u].jobId)'
  BY <1>1 DEF SiteInv, Created, Known
<1>7. \A u \in Tabs : OneAtATime(u)' /\ InOrder(u)'
  <2> SUFFICES ASSUME NEW u \in Tabs PROVE OneAtATime(u)' /\ InOrder(u)'
    OBVIOUS
  <2>1. CASE u = t
    BY <1>1, <2>1 DEF OneAtATime, InOrder
  <2>2. CASE u # t
    BY <1>1, <2>2 DEF SiteInv, OneAtATime, InOrder
  <2> QED
    BY <2>1, <2>2
<1>8. ASSUME NEW u \in Tabs, NEW q \in posts'[u], q.job # NoJob
      PROVE  Untold(u, q)'
  <2>1. Untold(u, q)
    BY <1>8 DEF SiteInv
  <2>2. /\ storage' # q.job /\ page'[t].jobId # q.job
        /\ \A p \in polls'[t] : p.job # q.job
    BY <1>1, <1>8
  <2> QED
    BY <1>1, <2>1, <2>2 DEF Untold
<1>9. SiteInv'
  BY <1>4, <1>5, <1>6, <1>7, <1>8 DEF SiteInv, Created, HonestPage
<1> QED
  BY <1>2, <1>9 DEF SiteOK

\* The jobs somebody has been told are known and no longer untold.
LEMMA ToldJobs ==
    ASSUME Inductive, NEW j \in Job,
           \/ j \in {NoJob, storage}
           \/ \E t \in Tabs : j = page[t].jobId \/ \E p \in polls[t] : p.job = j
    PROVE  /\ Known(j)
           /\ \A u \in Tabs : \A q \in posts[u] : q.job = j => j = NoJob
  BY DEF Inductive, SiteInv, Created, Requests, Known, Untold

\* What a tab shows of a job is followed by the same or newer.
Onward == \A t \in Tabs :
    (page[t].shown.job # NoJob /\ page'[t].shown.job = page[t].shown.job)
    => page'[t].shown.revision >= page[t].shown.revision

LEMMA StartRunStep ==
    ASSUME Inductive, NEW t \in Tabs, StartRun(t)
    PROVE  SiteOK' /\ Onward
<1>1. PICK q : /\ q = [n |-> starts, job |-> NoJob, answer |-> Pending]
               /\ posts' = [posts EXCEPT ![t] = @ \cup {q}]
               /\ page' = [page EXCEPT ![t].ready = FALSE]
               /\ UNCHANGED << manifest, polls, storage >>
  BY DEF StartRun, storeVars
<1>0. /\ page' \in [Tabs -> Page]
      /\ \A u \in Tabs : /\ page'[u].jobId = page[u].jobId /\ page'[u].url = page[u].url
                        /\ page'[u].polling = page[u].polling
                        /\ page'[u].shown = page[u].shown
                        /\ page'[u].preview = page[u].preview
  BY <1>1 DEF Inductive, SiteTypeOK, Page
<1>2. q \in Post /\ q.job = NoJob /\ q.answer = Pending
  BY <1>1, Failures DEF Post, Job, Inductive, SiteTypeOK
<1>3. HonestAnswer(q) /\ Known(q.job)
  BY <1>2, Failures DEF HonestAnswer, Known
<1>4. starts' \in Nat
  BY DEF StartRun, Inductive, SiteTypeOK
<1>5. SiteTypeOK'
  BY <1>0, <1>1, <1>2, <1>4 DEF Inductive, SiteTypeOK, Post
<1>6. \A u \in Tabs : \A r \in posts'[u] : r \in posts[u] \/ r = q
  BY <1>1 DEF Inductive, SiteTypeOK
<1>7. \A u \in Tabs : \A r \in Requests(u)' : HonestAnswer(r)' /\ Known(r.job)'
  BY <1>1, <1>3, <1>6 DEF Inductive, SiteInv, Created, Requests, HonestAnswer, Known
<1>8. \A u \in Tabs : OneAtATime(u)' /\ InOrder(u)' /\ HonestPage(page[u])'
  BY <1>0, <1>1 DEF Inductive, SiteInv, OneAtATime, InOrder, HonestPage
<1>9. \A u \in Tabs : \A r \in posts'[u] : r.job # NoJob => Untold(u, r)'
  BY <1>0, <1>1, <1>2, <1>6 DEF Inductive, SiteInv, Untold
<1>10. Created'
  BY <1>0, <1>1, <1>7 DEF Inductive, SiteInv, Created, Known
<1>11. Onward
  BY <1>0 DEF Onward, Inductive, SiteTypeOK, Page, StatusRecord
<1> QED
  BY <1>5, <1>7, <1>8, <1>9, <1>10, <1>11 DEF SiteOK, SiteInv, HonestPage

LEMMA StillOnward ==
    ASSUME SiteTypeOK, NEW t \in Tabs, NEW pg,
           page' = [page EXCEPT ![t] = pg],
           \/ pg.shown \in {page[t].shown, Nothing}
           \/ pg.shown.job # page[t].shown.job
           \/ pg.shown.revision >= page[t].shown.revision
    PROVE  Onward
<1>1. page'[t] = pg /\ \A u \in Tabs : u # t => page'[u] = page[u]
  BY DEF SiteTypeOK
<1>2. \A u \in Tabs : page[u].shown.revision \in Nat
  BY DEF SiteTypeOK, StatusRecord, Page, Post, Poll
<1> QED
  BY <1>1, <1>2 DEF Onward, Nothing

LEMMA ChooseVideoStep ==
    ASSUME Inductive, NEW t \in Tabs, ChooseVideo(t)
    PROVE  SiteOK' /\ Onward
<1>1. PICK pg : /\ pg = [page[t] EXCEPT !.preview = NoJob, !.file = TRUE, !.ready = TRUE]
                /\ page' = [page EXCEPT ![t] = pg]
  BY DEF ChooseVideo
<1>2. /\ pg \in Page /\ page[t] \in Page
      /\ pg.jobId = page[t].jobId /\ pg.url = page[t].url /\ pg.polling = page[t].polling
      /\ pg.shown = page[t].shown /\ pg.preview = NoJob
  BY <1>1 DEF Inductive, SiteTypeOK, Page, Job
<1>3. PICK P \in SUBSET Poll : P = polls[t] /\ polls' = [polls EXCEPT ![t] = P]
  BY DEF ChooseVideo, Inductive, SiteTypeOK
<1>4. /\ UNCHANGED << manifest, posts, storage, starts >>
      /\ posts \in [Tabs -> SUBSET Post] /\ storage \in Job /\ starts \in Nat
  BY DEF ChooseVideo, storeVars, Inductive, SiteTypeOK
<1>5. /\ HonestPage(pg)
      /\ \A p, q \in P : p = q
      /\ ~pg.polling => P = {}
      /\ \A p \in P : HonestAnswer(p)
      /\ \A p \in P : (p.answer.how = "status" /\ pg.shown.job = p.job)
                          => p.answer.status.revision >= pg.shown.revision
  BY <1>2, <1>3 DEF HonestPage, Inductive, SiteInv, OneAtATime, InOrder, Requests
<1>6. \A j \in {pg.jobId, storage'} \cup {p.job : p \in P} :
         /\ Known(j)
         /\ \A u \in Tabs : \A q \in posts'[u] : q.job = j => j = NoJob
  <2>1. ASSUME NEW j \in {pg.jobId, storage'} \cup {p.job : p \in P}
        PROVE  j \in Job /\ (\/ j \in {NoJob, storage}
                             \/ j = page[t].jobId \/ \E p \in polls[t] : p.job = j)
    BY <1>2, <1>3, <1>4 DEF Page, Poll, Job
  <2> QED
    BY <1>4, <2>1, ToldJobs
<1>7. SiteOK'
  <2>1. posts' \in [Tabs -> SUBSET Post] /\ (\A u \in Tabs : posts'[u] \subseteq posts[u])
        /\ storage' \in Job /\ starts' \in Nat /\ UNCHANGED manifest
        /\ polls' = [polls EXCEPT ![t] = P] /\ page' = [page EXCEPT ![t] = pg] /\ pg \in Page
    BY <1>1, <1>2, <1>3, <1>4
  <2> QED
    BY <1>5, <1>6, <2>1, PageMoves
<1>8. Onward
  BY <1>1, <1>2, StillOnward DEF Inductive
<1> QED
  BY <1>7, <1>8

LEMMA TimerStep ==
    ASSUME Inductive, NEW t \in Tabs, TimerFires(t)
    PROVE  SiteOK' /\ Onward
<1> DEFINE new == [job |-> page[t].jobId, answer |-> Pending]
<1>1. page[t] \in Page /\ polls[t] \in SUBSET Poll /\ HonestPage(page[t])
      /\ OneAtATime(t) /\ InOrder(t) /\ \A p \in polls[t] : HonestAnswer(p)
  BY DEF Inductive, SiteTypeOK, SiteInv, Page, Poll, Requests
<1>2. UNCHANGED << manifest, posts, storage, starts >>
      /\ posts \in [Tabs -> SUBSET Post] /\ storage \in Job /\ starts \in Nat
  BY DEF TimerFires, storeVars, Inductive, SiteTypeOK, Post
<1>3. PICK pg \in Page, P \in SUBSET Poll :
         /\ page' = [page EXCEPT ![t] = pg] /\ polls' = [polls EXCEPT ![t] = P]
         /\ pg.jobId = page[t].jobId /\ pg.url = page[t].url /\ pg.shown = page[t].shown
         /\ pg.preview = page[t].preview
         /\ \/ pg.polling = page[t].polling /\ P = polls[t]
            \/ /\ pg.polling /\ ~page[t].polling /\ page[t].jobId # NoJob
               /\ P = polls[t] \cup {new}
  <2> DEFINE stopped == [page[t] EXCEPT !.poller = FALSE]
  <2>1. CASE CanPoll(stopped)
    <3> DEFINE pg == [stopped EXCEPT !.polling = TRUE]
    <3>1. /\ page' = [page EXCEPT ![t] = pg]
          /\ polls' = [polls EXCEPT ![t] = @ \cup {[job |-> stopped.jobId, answer |-> Pending]}]
      BY <2>1 DEF TimerFires, Ask
    <3>2. page[t].jobId # NoJob /\ ~page[t].polling /\ stopped.jobId = page[t].jobId
      BY <1>1, <2>1 DEF CanPoll, Page
    <3>3. pg \in Page /\ pg.jobId = page[t].jobId /\ pg.url = page[t].url
          /\ pg.shown = page[t].shown /\ pg.preview = page[t].preview /\ pg.polling
      BY <1>1 DEF Page
    <3>4. new \in Poll /\ page[t].jobId \in Jobs
      BY <1>1, <3>2, Failures DEF Page, Poll, Job
    <3>5. polls[t] \cup {new} \in SUBSET Poll
      BY <1>1, <3>4
    <3>6. polls' = [polls EXCEPT ![t] = polls[t] \cup {new}]
      BY <3>1, <3>2
    <3> HIDE DEF pg, new, stopped
    <3> QED
      BY <3>1, <3>2, <3>3, <3>5, <3>6
  <2>2. CASE ~CanPoll(stopped)
    <3> DEFINE pg == Schedule(stopped)
    <3>1. page' = [page EXCEPT ![t] = pg] /\ polls' = polls
      BY <2>2 DEF TimerFires
    <3>2. pg \in Page /\ pg.jobId = page[t].jobId /\ pg.url = page[t].url
          /\ pg.shown = page[t].shown /\ pg.preview = page[t].preview
          /\ pg.polling = page[t].polling
      BY <1>1 DEF Page, Schedule
    <3>3. polls' = [polls EXCEPT ![t] = polls[t]]
      BY <3>1 DEF Inductive, SiteTypeOK
    <3> HIDE DEF pg, new, stopped
    <3> QED
      BY <1>1, <3>1, <3>2, <3>3
  <2> QED
    BY <2>1, <2>2
<1>4. HonestPage(pg)
  BY <1>1, <1>3 DEF HonestPage
<1>5. /\ \A p, q \in P : p = q
      /\ ~pg.polling => P = {}
      /\ \A p \in P : HonestAnswer(p)
      /\ \A p \in P : (p.answer.how = "status" /\ pg.shown.job = p.job)
                          => p.answer.status.revision >= pg.shown.revision
  BY <1>1, <1>3, Failures DEF OneAtATime, InOrder, HonestAnswer
<1>6. \A j \in {pg.jobId, storage'} \cup {p.job : p \in P} :
         /\ Known(j)
         /\ \A u \in Tabs : \A q \in posts'[u] : q.job = j => j = NoJob
  <2>1. ASSUME NEW j \in {pg.jobId, storage'} \cup {p.job : p \in P}
        PROVE  j \in Job /\ (\/ j \in {NoJob, storage}
                             \/ j = page[t].jobId \/ \E p \in polls[t] : p.job = j)
    BY <1>1, <1>2, <1>3 DEF Page, Poll, Job
  <2> QED
    BY <1>2, <2>1, ToldJobs
<1>7. SiteOK'
  BY <1>2, <1>3, <1>4, <1>5, <1>6, PageMoves
<1>8. Onward
  BY <1>3, StillOnward DEF Inductive
<1> QED
  BY <1>7, <1>8

LEMMA ResetStep ==
    ASSUME Inductive, NEW t \in Tabs, Reset(t)
    PROVE  SiteOK' /\ Onward
<1>1. PICK pg : /\ pg = [Blank EXCEPT !.polling = page[t].polling]
                /\ page' = [page EXCEPT ![t] = pg]
  BY DEF Reset
<1>0. PICK P \in SUBSET Poll : P = polls[t]
  BY DEF Inductive, SiteTypeOK, Poll
<1>2. pg \in Page /\ pg.jobId = NoJob /\ pg.url = NoJob /\ pg.shown = Nothing
      /\ pg.preview = NoJob /\ pg.polling = page[t].polling
  BY <1>1 DEF Blank, Nothing, Page, Job, StatusRecord, Inductive, SiteTypeOK
<1>3. UNCHANGED << manifest, posts, polls, starts >> /\ storage' = NoJob
      /\ posts \in [Tabs -> SUBSET Post] /\ starts \in Nat /\ NoJob \in Job
      /\ polls' = [polls EXCEPT ![t] = P]
  BY <1>0 DEF Reset, storeVars, Inductive, SiteTypeOK, Post, Poll, Job
<1>4. /\ HonestPage(pg)
      /\ \A p, q \in P : p = q
      /\ ~pg.polling => P = {}
      /\ \A p \in P : HonestAnswer(p)
      /\ \A p \in P : (p.answer.how = "status" /\ pg.shown.job = p.job)
                          => p.answer.status.revision >= pg.shown.revision
  BY <1>0, <1>2, <1>3 DEF HonestPage, Inductive, SiteInv, OneAtATime, Requests, Nothing, Poll
<1>5. \A j \in {pg.jobId, storage'} \cup {p.job : p \in P} :
         /\ Known(j)
         /\ \A u \in Tabs : \A q \in posts'[u] : q.job = j => j = NoJob
  <2>1. ASSUME NEW j \in {pg.jobId, storage'} \cup {p.job : p \in P}
        PROVE  j \in Job /\ (j = NoJob \/ \E p \in polls[t] : p.job = j)
    BY <1>0, <1>2, <1>3 DEF Poll, Job
  <2> QED
    BY <1>3, <2>1, ToldJobs
<1>6. SiteOK'
  <2>1. posts' \in [Tabs -> SUBSET Post] /\ \A u \in Tabs : posts'[u] \subseteq posts[u]
        /\ storage' \in Job /\ starts' \in Nat /\ UNCHANGED manifest
        /\ polls' = [polls EXCEPT ![t] = P] /\ page' = [page EXCEPT ![t] = pg] /\ pg \in Page
    BY <1>1, <1>2, <1>3
  <2> QED
    BY <1>4, <1>5, <2>1, PageMoves
<1>7. Onward
  BY <1>1, <1>2, StillOnward DEF Inductive
<1> QED
  BY <1>6, <1>7

LEMMA ReloadStep ==
    ASSUME Inductive, NEW t \in Tabs, Reload(t)
    PROVE  SiteOK' /\ Onward
<1>1. PICK j \in Job, pg \in Page, P \in SUBSET Poll :
         /\ \/ j \in {NoJob, storage}
            \/ \E u \in Tabs : j = page[u].jobId \/ \E p \in polls[u] : p.job = j
         /\ page' = [page EXCEPT ![t] = pg] /\ polls' = [polls EXCEPT ![t] = P]
         /\ pg.jobId = j /\ pg.url = j /\ pg.shown = Nothing /\ pg.preview = NoJob
         /\ storage' \in {j, storage}
         /\ \/ P = {}
            \/ pg.polling /\ P = {[job |-> j, answer |-> Pending]}
  <2> DEFINE j == Remembered(t)
             pg == [Blank EXCEPT !.jobId = j, !.url = j]
  <2>1. j \in Job /\ (j = page[t].jobId \/ j = storage)
    BY DEF Remembered, Inductive, SiteTypeOK, SiteInv, HonestPage, Page, Post, Poll
  <2>2. Nothing \in StatusRecord
    BY DEF Nothing, StatusRecord, Job
  <2>3. CASE j = NoJob
    <3>1. page' = [page EXCEPT ![t] = Blank] /\ polls' = [polls EXCEPT ![t] = {}]
          /\ storage' = storage
      BY <2>3 DEF Reload
    <3>2. Blank \in Page /\ Blank.jobId = NoJob /\ Blank.url = NoJob /\ Blank.shown = Nothing
          /\ Blank.preview = NoJob
      BY <2>2 DEF Blank, Page, Job
    <3> HIDE DEF pg, j
    <3> QED
      BY <2>1, <2>3, <3>1, <3>2
  <2>4. CASE j # NoJob
    <3> DEFINE on == [pg EXCEPT !.polling = TRUE]
               new == [job |-> j, answer |-> Pending]
    <3>1. page' = [page EXCEPT ![t] = on] /\ polls' = [polls EXCEPT ![t] = {new}]
          /\ storage' = j
      BY <2>4 DEF Reload
    <3> HIDE DEF j
    <3>2. on \in Page /\ on.jobId = j /\ on.url = j /\ on.shown = Nothing /\ on.polling
          /\ on.preview = NoJob
      BY <2>1, <2>2 DEF Blank, Page, Job
    <3>3. {new} \in SUBSET Poll
      BY <2>1, <2>4, Failures DEF Poll, Job
    <3> HIDE DEF on, pg
    <3> QED
      BY <2>1, <3>1, <3>2, <3>3
  <2> QED
    BY <2>3, <2>4
<1>2. /\ posts' = [posts EXCEPT ![t] = {}] /\ UNCHANGED << manifest, starts >>
      /\ posts' \in [Tabs -> SUBSET Post] /\ starts \in Nat /\ storage' \in Job
      /\ \A u \in Tabs : posts'[u] \subseteq posts[u]
  BY <1>1 DEF Reload, storeVars, Inductive, SiteTypeOK, Post
<1>3. /\ HonestPage(pg)
      /\ \A p, q \in P : p = q
      /\ ~pg.polling => P = {}
      /\ \A p \in P : HonestAnswer(p)
      /\ \A p \in P : (p.answer.how = "status" /\ pg.shown.job = p.job)
                          => p.answer.status.revision >= pg.shown.revision
  BY <1>1, Failures DEF HonestPage, HonestAnswer
<1>4. \A i \in {pg.jobId, storage'} \cup {p.job : p \in P} :
         /\ Known(i)
         /\ \A u \in Tabs : \A q \in posts'[u] : q.job = i => i = NoJob
  <2>1. \A i \in {pg.jobId, storage'} \cup {p.job : p \in P} : i \in {j, storage}
    BY <1>1
  <2>2. \A i \in {j, storage} :
           Known(i) /\ \A u \in Tabs : \A q \in posts[u] : q.job = i => i = NoJob
    BY <1>1, ToldJobs DEF Inductive, SiteTypeOK
  <2> QED
    BY <1>2, <2>1, <2>2
<1>5. SiteOK'
  BY <1>1, <1>2, <1>3, <1>4, PageMoves
<1>6. Onward
  BY <1>1, StillOnward DEF Inductive
<1> QED
  BY <1>5, <1>6

LEMMA PollAnsweredStep ==
    ASSUME Inductive, NEW t \in Tabs, PollAnswered(t)
    PROVE  SiteOK' /\ Onward
<1>1. PICK p \in polls[t] :
         /\ p.answer # Pending
         /\ polls' = [polls EXCEPT ![t] = @ \ {p}]
         /\ LET pg == [page[t] EXCEPT !.polling = FALSE] IN
            CASE ~Relevant(t, p) ->
                   page' = [page EXCEPT ![t] = pg] /\ UNCHANGED storage
              [] Relevant(t, p) /\ p.answer = Broken ->
                   page' = [page EXCEPT ![t] = AfterFailure(pg)] /\ UNCHANGED storage
              [] Relevant(t, p) /\ p.answer = Missing ->
                   page' = [page EXCEPT ![t] = Discarded(pg)] /\ storage' = NoJob
              [] OTHER ->
                   /\ page' = [page EXCEPT ![t] =
                         LET painted == Render(pg, p.answer.status)
                         IN  IF p.answer.status.ended THEN painted ELSE Schedule(painted)]
                   /\ UNCHANGED storage
  BY DEF PollAnswered
<1> DEFINE idle == [page[t] EXCEPT !.polling = FALSE]
<1>2. page[t] \in Page /\ HonestPage(page[t]) /\ InOrder(t) /\ HonestAnswer(p)
      /\ p.answer \in AnswerRecord
  BY DEF Inductive, SiteTypeOK, SiteInv, Page, Requests, Post, Poll
<1>3. UNCHANGED << manifest, posts, starts >> /\ storage' \in {NoJob, storage}
      /\ posts \in [Tabs -> SUBSET Post] /\ starts \in Nat /\ storage' \in Job
  <2>1. storage' \in {NoJob, storage}
    BY <1>1
  <2> QED
    BY <2>1 DEF PollAnswered, storeVars, Inductive, SiteTypeOK, Post, Job
<1>4. polls' = [polls EXCEPT ![t] = {}]
  <2>1. polls[t] \ {p} = {}
    BY DEF Inductive, SiteInv, OneAtATime
  <2> QED
    BY <1>1, <2>1
<1>5. idle \in Page /\ idle.jobId = page[t].jobId /\ idle.url = page[t].url
      /\ idle.shown = page[t].shown /\ idle.preview = page[t].preview
  BY <1>2 DEF Page
<1>6. Nothing \in StatusRecord
  BY DEF Nothing, StatusRecord, Job
<1> HIDE DEF idle
<1>7. PICK pg \in Page :
         /\ page' = [page EXCEPT ![t] = pg]
         /\ \/ /\ pg.jobId = page[t].jobId /\ pg.url = page[t].url
               /\ pg.shown = page[t].shown /\ pg.preview = page[t].preview
            \/ pg.jobId = NoJob /\ pg.url = NoJob /\ pg.shown = Nothing /\ pg.preview = NoJob
            \/ /\ Relevant(t, p) /\ p.answer \notin {Pending, Missing, Broken}
               /\ pg.jobId = page[t].jobId /\ pg.url = page[t].url
               /\ pg.shown = p.answer.status
               /\ pg.preview = IF pg.shown.dubbed THEN pg.shown.job ELSE page[t].preview
  <2>1. CASE ~Relevant(t, p)
    BY <1>1, <1>5, <2>1 DEF idle
  <2>2. CASE Relevant(t, p) /\ p.answer = Broken
    <3>1. page' = [page EXCEPT ![t] = Schedule(idle)]
      BY <1>1, <2>2 DEF idle, AfterFailure, Missing, Broken, Answer
    <3>2. Schedule(idle) \in Page /\ Schedule(idle).jobId = idle.jobId
          /\ Schedule(idle).url = idle.url /\ Schedule(idle).shown = idle.shown
          /\ Schedule(idle).preview = idle.preview
      BY <1>5 DEF Schedule, Page
    <3> QED
      BY <1>5, <3>1, <3>2
  <2>3. CASE Relevant(t, p) /\ p.answer = Missing
    <3> DEFINE pg == Discarded(idle)
    <3>1. page' = [page EXCEPT ![t] = pg]
      BY <1>1, <2>3 DEF idle, Missing, Broken, Answer
    <3>2. pg \in Page /\ pg.jobId = NoJob /\ pg.url = NoJob /\ pg.shown = Nothing
          /\ pg.preview = NoJob
      BY <1>5, <1>6 DEF Page, Job, Discarded
    <3> HIDE DEF pg
    <3> QED
      BY <3>1, <3>2
  <2>4. CASE Relevant(t, p) /\ p.answer \notin {Missing, Broken}
    <3> DEFINE painted == Render(idle, p.answer.status)
               pg == IF p.answer.status.ended THEN painted ELSE Schedule(painted)
    <3>1. page' = [page EXCEPT ![t] = pg]
      BY <1>1, <2>4 DEF idle
    <3>2. painted \in Page /\ painted.jobId = idle.jobId /\ painted.url = idle.url
          /\ painted.shown = p.answer.status
          /\ painted.preview = IF p.answer.status.dubbed THEN p.answer.status.job
                               ELSE idle.preview
      BY <1>2, <1>5 DEF Render, Page, AnswerRecord, StatusRecord
    <3> HIDE DEF painted
    <3>3. pg \in Page /\ pg.jobId = idle.jobId /\ pg.url = idle.url
          /\ pg.shown = p.answer.status /\ pg.preview = painted.preview
      BY <3>2 DEF Schedule, Page
    <3> HIDE DEF pg
    <3> QED
      BY <1>1, <1>5, <3>2, <2>4, <3>1, <3>3
  <2> QED
    BY <2>1, <2>2, <2>3, <2>4
<1>9. p.answer \notin {Pending, Missing, Broken} =>
         /\ p.answer.how = "status" /\ p.job \in Jobs /\ p.answer.status.job = p.job
         /\ \/ manifest[p.job] = Removed
            \/ p.answer.status.revision <= manifest[p.job].revision
  BY <1>2 DEF HonestAnswer
<1>10. HonestPage(pg)
  BY <1>2, <1>7, <1>9 DEF HonestPage, Relevant
<1>11. \A j \in {pg.jobId, storage'} :
         /\ Known(j)
         /\ \A u \in Tabs : \A q \in posts'[u] : q.job = j => j = NoJob
  <2>1. \A j \in {pg.jobId, storage'} : j \in {NoJob, storage, page[t].jobId} /\ j \in Job
    BY <1>3, <1>7 DEF Page
  <2> QED
    BY <1>3, <2>1, ToldJobs
<1>12. SiteOK'
  <2>1. {p_1.job : p_1 \in {}} = {} /\ {} \in SUBSET Poll
    OBVIOUS
  <2> QED
    BY <1>3, <1>4, <1>7, <1>10, <1>11, <2>1, PageMoves
<1>13. Onward
  <2>1. CASE pg.shown \in {page[t].shown, Nothing}
    BY <1>7, <2>1, StillOnward DEF Inductive
  <2>2. CASE Relevant(t, p) /\ p.answer \notin {Pending, Missing, Broken}
             /\ pg.shown = p.answer.status
    <3>1. pg.shown.job = page[t].shown.job => pg.shown.revision >= page[t].shown.revision
      BY <1>2, <1>9, <2>2 DEF InOrder
    <3> QED
      BY <1>7, <3>1, StillOnward DEF Inductive
  <2> QED
    BY <1>7, <2>1, <2>2
<1> QED
  BY <1>12, <1>13

LEMMA PostAnsweredStep ==
    ASSUME Inductive, NEW t \in Tabs, PostAnswered(t)
    PROVE  SiteOK' /\ Onward
<1>1. PICK p \in posts[t] :
         LET j == p.answer.status.job IN
         /\ p.answer # Pending
         /\ posts' = [posts EXCEPT ![t] = @ \ {p}]
         /\ IF p.answer.how = "status"
            THEN LET painted == Render([page[t] EXCEPT !.jobId = j, !.url = j],
                                       p.answer.status)
                 IN  /\ page' = [page EXCEPT ![t] = IF p.answer.status.ended
                                                    THEN painted ELSE Schedule(painted)]
                     /\ storage' = j
            ELSE /\ page' = [page EXCEPT ![t].ready = page[t].file]
                 /\ UNCHANGED storage
  BY DEF PostAnswered
<1>2. /\ UNCHANGED << manifest, polls, starts >> /\ starts \in Nat
      /\ posts' \in [Tabs -> SUBSET Post]
      /\ \A u \in Tabs : posts'[u] \subseteq posts[u]
      /\ posts'[t] = posts[t] \ {p}
  BY <1>1 DEF PostAnswered, storeVars, Inductive, SiteTypeOK, Post
<1>3. page[t] \in Page /\ HonestPage(page[t]) /\ InOrder(t) /\ OneAtATime(t)
      /\ HonestAnswer(p) /\ p.answer \in AnswerRecord /\ p.job \in Job
      /\ Known(p.job) /\ \A q \in polls[t] : HonestAnswer(q)
  BY DEF Inductive, SiteTypeOK, SiteInv, Page, Requests, Created, Post, Poll
<1>4. PICK P \in SUBSET Poll : P = polls[t] /\ polls' = [polls EXCEPT ![t] = P]
  BY <1>2 DEF Inductive, SiteTypeOK, Poll, Page, Post
<1>5. CASE p.answer.how # "status"
  <2>1. PICK pg \in Page :
           /\ page' = [page EXCEPT ![t] = pg]
           /\ pg.jobId = page[t].jobId /\ pg.url = page[t].url /\ pg.polling = page[t].polling
           /\ pg.shown = page[t].shown /\ pg.preview = page[t].preview
    <3> DEFINE pg == [page[t] EXCEPT !.ready = page[t].file]
    <3>1. page' = [page EXCEPT ![t] = pg]
      BY <1>1, <1>5
    <3>2. /\ pg \in Page
          /\ pg.jobId = page[t].jobId /\ pg.url = page[t].url /\ pg.polling = page[t].polling
          /\ pg.shown = page[t].shown /\ pg.preview = page[t].preview
      BY <1>3 DEF Page
    <3> HIDE DEF pg
    <3> QED
      BY <3>1, <3>2
  <2>2. /\ posts' \in [Tabs -> SUBSET Post] /\ starts' \in Nat /\ UNCHANGED manifest
        /\ \A u \in Tabs : posts'[u] \subseteq posts[u]
        /\ storage' = storage /\ storage \in Job
    BY <1>1, <1>2, <1>5 DEF Inductive, SiteTypeOK
  <2>3. /\ HonestPage(pg)
        /\ \A q, r \in P : q = r
        /\ ~pg.polling => P = {}
        /\ \A q \in P : HonestAnswer(q)
        /\ \A q \in P : (q.answer.how = "status" /\ pg.shown.job = q.job)
                            => q.answer.status.revision >= pg.shown.revision
    BY <1>3, <1>4, <2>1 DEF HonestPage, OneAtATime, InOrder
  <2>4. \A j \in {pg.jobId, storage'} \cup {q.job : q \in P} :
           /\ Known(j)
           /\ \A u \in Tabs : \A q \in posts'[u] : q.job = j => j = NoJob
    <3>1. ASSUME NEW j \in {pg.jobId, storage'} \cup {q.job : q \in P}
          PROVE  j \in Job /\ (\/ j \in {NoJob, storage}
                               \/ j = page[t].jobId \/ \E q \in polls[t] : q.job = j)
      BY <1>4, <2>1, <2>2 DEF Page, Poll, Job
    <3> QED
      BY <2>2, <3>1, ToldJobs
  <2>5. SiteOK'
    BY <1>4, <2>1, <2>2, <2>3, <2>4, PageMoves
  <2>6. Onward
    BY <2>1, StillOnward DEF Inductive
  <2> QED
    BY <2>5, <2>6
<1>6. CASE p.answer.how = "status"
  <2>1. /\ p.job \in Jobs /\ p.job # NoJob /\ p.answer.status.job = p.job
        /\ \/ manifest[p.job] = Removed
           \/ p.answer.status.revision <= manifest[p.job].revision
    BY <1>3, <1>6, Failures DEF HonestAnswer
  <2>2. Untold(t, p)
    BY <2>1 DEF Inductive, SiteInv
  <2>3. PICK pg \in Page :
           /\ page' = [page EXCEPT ![t] = pg]
           /\ pg.jobId = p.job /\ pg.url = p.job /\ pg.shown = p.answer.status
           /\ pg.polling = page[t].polling
           /\ pg.preview = IF pg.shown.dubbed THEN p.job ELSE page[t].preview
    <3> DEFINE moved == [page[t] EXCEPT !.jobId = p.job, !.url = p.job]
               painted == Render(moved, p.answer.status)
               pg == IF p.answer.status.ended THEN painted ELSE Schedule(painted)
    <3>1. page' = [page EXCEPT ![t] = pg]
      BY <1>1, <1>6, <2>1
    <3>2. moved \in Page /\ moved.jobId = p.job /\ moved.url = p.job
          /\ moved.polling = page[t].polling /\ moved.preview = page[t].preview
      BY <1>3 DEF Page
    <3> HIDE DEF moved
    <3>3. painted \in Page /\ painted.jobId = p.job /\ painted.url = p.job
          /\ painted.shown = p.answer.status /\ painted.polling = page[t].polling
          /\ painted.preview = IF p.answer.status.dubbed THEN p.job ELSE page[t].preview
      BY <1>3, <2>1, <3>2 DEF Render, Page, AnswerRecord, StatusRecord
    <3> HIDE DEF painted
    <3>4. pg \in Page /\ pg.jobId = p.job /\ pg.url = p.job
          /\ pg.shown = p.answer.status /\ pg.polling = page[t].polling
          /\ pg.preview = painted.preview
      BY <3>3 DEF Schedule, Page
    <3> HIDE DEF pg
    <3> QED
      BY <3>1, <3>3, <3>4
  <2>4. storage' = p.job
    BY <1>1, <1>6, <2>1
  <2>5. /\ HonestPage(pg)
        /\ \A q, r \in P : q = r
        /\ ~pg.polling => P = {}
        /\ \A q \in P : HonestAnswer(q)
        /\ \A q \in P : (q.answer.how = "status" /\ pg.shown.job = q.job)
                            => q.answer.status.revision >= pg.shown.revision
    BY <1>3, <1>4, <2>1, <2>2, <2>3 DEF OneAtATime, HonestPage, Untold
  <2>6. \A j \in {pg.jobId, storage'} \cup {q.job : q \in P} :
           /\ Known(j)
           /\ \A u \in Tabs : \A q \in posts'[u] : q.job = j => j = NoJob
    <3>1. \A u \in Tabs : \A q \in posts'[u] : q.job # p.job
      BY <1>2, <2>2 DEF Untold
    <3>2. ASSUME NEW q \in P
          PROVE  Known(q.job)
                 /\ \A u \in Tabs : \A r \in posts[u] : r.job = q.job => q.job = NoJob
      BY <1>4, ToldJobs DEF Poll, Job
    <3> QED
      BY <1>2, <1>3, <2>3, <2>4, <3>1, <3>2
  <2>7. /\ posts' \in [Tabs -> SUBSET Post] /\ starts' \in Nat /\ UNCHANGED manifest
        /\ \A u \in Tabs : posts'[u] \subseteq posts[u]
        /\ storage' \in Job
    BY <1>2, <1>3, <2>4
  <2>8. SiteOK'
    BY <1>4, <2>3, <2>5, <2>6, <2>7, PageMoves
  <2>9. pg.shown.job # page[t].shown.job
    BY <1>3, <2>1, <2>2, <2>3 DEF HonestPage, Untold, Nothing
  <2>10. Onward
    BY <2>3, <2>9, StillOnward DEF Inductive
  <2> QED
    BY <2>8, <2>10
<1> QED
  BY <1>5, <1>6

-----------------------------------------------------------------------------
(* Every step.                                                             *)

LEMMA StillPages ==
    ASSUME Inductive, page' = page PROVE Onward
  BY DEF Onward, Inductive, SiteTypeOK, StatusRecord, Page, Post, Poll

LEMMA InitiallyInductive == SiteInit => Inductive
<1> SUFFICES ASSUME SiteInit PROVE Inductive
  OBVIOUS
<1>1. StoreTypeOK /\ StoreInv
  BY DEF SiteInit, StoreInit, StoreTypeOK, StoreInv, Absent, NoCopy, ManifestRecord, Job
<1>2. Blank \in Page /\ HonestPage(Blank) /\ Blank.jobId = NoJob /\ Blank.shown = Nothing
  BY DEF Blank, Nothing, Page, Job, StatusRecord, HonestPage
<1>3. SiteTypeOK
  BY <1>2 DEF SiteInit, SiteTypeOK, Page, Job
<1>4. SiteInv
  BY <1>2 DEF SiteInit, SiteInv, OneAtATime, InOrder, Requests, Created, Known
<1> QED
  BY <1>1, <1>3, <1>4 DEF Inductive

LEMMA LoseStep ==
    ASSUME Inductive, NEW t \in Tabs, Lose(t)
    PROVE  SiteOK'
<1>1. StoreTypeOK' /\ Forward
  BY Unmoved DEF Lose, Inductive, StoreTypeOK
<1>2. Broken \in {Missing, Broken} /\ UNCHANGED << page, storage, starts >>
  BY DEF Lose
<1> QED
  BY <1>1, <1>2, PostFails, PollFails DEF Lose

LEMMA RejectStep ==
    ASSUME Inductive, NEW t \in Tabs, Reject(t)
    PROVE  SiteOK'
<1>1. StoreTypeOK' /\ Forward
  BY Unmoved DEF Reject, Inductive, StoreTypeOK
<1>2. Missing \in {Missing, Broken} /\ UNCHANGED << page, polls, storage, starts >>
  BY DEF Reject
<1> QED
  BY <1>1, <1>2, PostFails DEF Reject

\* Every step is one of the store's as far as the store goes.
LEMMA StoreGoes ==
    ASSUME Inductive, [Next]_vars
    PROVE  StoreStep
<1>1. ASSUME NEW t \in Tabs, Server(t) PROVE StoreStep
  <2>1. CASE Submit(t)
    BY <2>1 DEF Submit, StoreStep
  <2>2. CASE Reject(t)
    BY <2>2 DEF Reject, StoreStep
  <2>3. CASE AnswerPost(t)
    <3>1. PICK p \in posts[t] : p.job # NoJob /\ ReadStatus(p.job)
      BY <2>3 DEF AnswerPost
    <3>2. p.job \in Jobs
      BY <3>1 DEF Inductive, SiteTypeOK, Job, Page, Post, Poll
    <3> QED
      BY <3>1, <3>2 DEF StoreStep
  <2>4. CASE AnswerPoll(t)
    <3>1. PICK p \in polls[t] : ReadStatus(p.job) \/ UNCHANGED storeVars
      BY <2>4 DEF AnswerPoll
    <3>2. p.job \in Jobs
      BY <3>1 DEF Inductive, SiteTypeOK, Page, Post, Poll
    <3> QED
      BY <3>1, <3>2 DEF StoreStep, storeVars
  <2> QED
    BY <1>1, <2>1, <2>2, <2>3, <2>4 DEF Server
<1>2. ASSUME NEW t \in Tabs, Lose(t) \/ Script(t) \/ User(t) PROVE StoreStep
  BY <1>2 DEF Lose, Script, User, TimerFires, PollAnswered, PostAnswered, ChooseVideo,
              StartRun, Reset, Reload, StoreStep, storeVars
<1>3. ASSUME NEW j \in Jobs, Mutate(j) \/ Remove(j) PROVE StoreStep
  BY <1>3 DEF StoreStep
<1>4. ASSUME NEW h \in Holders, Process(h) PROVE StoreStep
  BY <1>4 DEF StoreStep
<1>5. CASE UNCHANGED vars
  BY <1>5 DEF vars, storeVars, StoreStep
<1> QED
  BY <1>1, <1>2, <1>3, <1>4, <1>5 DEF Next

LEMMA InductiveStep ==
    ASSUME Inductive, [Next]_vars
    PROVE  Inductive' /\ Onward
<1>1. StoreTypeOK' /\ StoreInv' /\ Forward
  BY StoreGoes, StoreStepKeeps DEF Inductive
<1>2. ASSUME NEW t \in Tabs, Server(t) \/ Lose(t)
      PROVE  SiteOK' /\ Onward
  <2>1. SiteOK'
    BY <1>1, <1>2, SubmitStep, RejectStep, AnswerPostStep, AnswerPollStep, LoseStep
       DEF Server
  <2>2. page' = page
    BY <1>2 DEF Server, Submit, Reject, AnswerPost, AnswerPoll, Lose
  <2> QED
    BY <2>1, <2>2, StillPages
<1>3. ASSUME NEW t \in Tabs, Script(t) \/ User(t)
      PROVE  SiteOK' /\ Onward
  <2>1. CASE TimerFires(t)
    BY <2>1, TimerStep
  <2>2. CASE PollAnswered(t)
    BY <2>2, PollAnsweredStep
  <2>3. CASE PostAnswered(t)
    BY <2>3, PostAnsweredStep
  <2>0. CASE ChooseVideo(t)
    BY <2>0, ChooseVideoStep
  <2>4. CASE StartRun(t)
    BY <2>4, StartRunStep
  <2>5. CASE Reset(t)
    BY <2>5, ResetStep
  <2>6. CASE Reload(t)
    BY <2>6, ReloadStep
  <2> QED
    BY <1>3, <2>0, <2>1, <2>2, <2>3, <2>4, <2>5, <2>6 DEF Script, User
<1>4. ASSUME UNCHANGED siteVars
      PROVE  SiteOK' /\ Onward
  <2>1. UNCHANGED << page, posts, polls, storage, starts >>
    BY <1>4 DEF siteVars
  <2>2. SiteInv'
    BY <1>1, <2>1, StoreOnly
  <2>3. SiteTypeOK'
    BY <2>1 DEF Inductive, SiteTypeOK
  <2>4. SiteOK'
    BY <2>2, <2>3 DEF SiteOK
  <2>5. Onward
    BY <2>1, StillPages
  <2> QED
    BY <2>4, <2>5
<1>5. SiteOK' /\ Onward
  <2>1. CASE \E t \in Tabs : Server(t) \/ Lose(t) \/ Script(t) \/ User(t)
    BY <1>2, <1>3, <2>1
  <2>2. CASE UNCHANGED siteVars
    BY <1>4, <2>2
  <2>3. UNCHANGED vars => UNCHANGED siteVars
    BY DEF vars
  <2> QED
    BY <2>1, <2>2, <2>3 DEF Next
<1> QED
  BY <1>1, <1>5 DEF Inductive, SiteOK

\* The invariant the theorems rest on: types, the store, and for every tab what
\* it shows and what is on its way to it.
THEOREM InductiveHolds == Spec => []Inductive
<1>1. SiteInit => Inductive
  BY InitiallyInductive
<1>2. Inductive /\ [Next]_vars => Inductive'
  BY InductiveStep
<1> QED
  BY <1>1, <1>2, PTL DEF Spec

-----------------------------------------------------------------------------
(* The theorems.                                                           *)

\* The status a tab shows is of the job it follows, no video of another job is left
\* under one that has a video, and a tab without a job offers none, whatever answers
\* were on their way when it was reset, reloaded or given another job (app.js
\* pollJob, renderJob, reset, discardMissingJob, startBackendRun).
THEOREM ShownTheorem == Spec => []ShownIsFollowed
<1>1. Inductive => ShownIsFollowed
  BY DEF Inductive, SiteInv, HonestPage, ShownIsFollowed
<1> QED
  BY <1>1, InductiveHolds, PTL

\* A tab never shows an older state of a job after a newer one (app.js pollJob,
\* manifest.py _write_locked).
THEOREM OnwardTheorem == Spec => ShownNeverGoesBack
<1>1. Inductive /\ [Next]_vars =>
         [\A t \in Tabs :
             (page[t].shown.job # NoJob /\ page'[t].shown.job = page[t].shown.job)
             => page'[t].shown.revision >= page[t].shown.revision]_vars
  BY InductiveStep DEF Onward
<1> QED
  BY <1>1, InductiveHolds, PTL DEF Spec, ShownNeverGoesBack

\* Reloading a tab brings back its own job, whatever other tabs have left in the
\* storage they share (app.js restoreJob, rememberJob).
THEOREM ReloadTheorem == Spec => ReloadKeepsJob
<1>1. Inductive /\ [Next]_vars =>
         [\A t \in Tabs :
             (Reload(t) /\ page[t].jobId # NoJob) => page'[t].jobId = page[t].jobId]_vars
  <2> SUFFICES ASSUME Inductive, NEW t \in Tabs, Reload(t), page[t].jobId # NoJob
               PROVE  page'[t].jobId = page[t].jobId
    OBVIOUS
  <2>1. Remembered(t) = page[t].jobId
    BY DEF Inductive, SiteInv, HonestPage, Remembered
  <2>2. page' = [page EXCEPT ![t] =
                    [[Blank EXCEPT !.jobId = page[t].jobId, !.url = page[t].jobId]
                        EXCEPT !.polling = TRUE]]
    BY <2>1 DEF Reload
  <2>3. page'[t] = [[Blank EXCEPT !.jobId = page[t].jobId, !.url = page[t].jobId]
                        EXCEPT !.polling = TRUE]
    BY <2>2 DEF Inductive, SiteTypeOK
  <2> QED
    BY <2>3 DEF Blank
<1> QED
  BY <1>1, InductiveHolds, PTL DEF Spec, ReloadKeepsJob

\* A status is told with the events of its revision, and the log on disk never
\* tells of what the manifest does not know (observability.py
\* _load_manifest_and_events, manifest.py _write_locked).
THEOREM EventsTheorem == Spec => []EventsAreOfTheirStatus
<1>1. Inductive => EventsAreOfTheirStatus
  BY DEF Inductive, StoreInv, SiteInv, HonestAnswer, Requests, EventsAreOfTheirStatus
<1> QED
  BY <1>1, InductiveHolds, PTL

\* A save is refused only for what another process has written (manifest.py
\* _write_locked).
THEOREM ConflictTheorem == Spec => []ConflictsAreReal
<1>1. Inductive => ConflictsAreReal
  BY DEF Inductive, StoreInv, StoreTypeOK, ManifestRecord, ConflictsAreReal, Job
<1> QED
  BY <1>1, InductiveHolds, PTL
=============================================================================
