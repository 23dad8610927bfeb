-------------------------- MODULE ClipQueueProofs --------------------------
(***************************************************************************)
(* Theorems about the job queue for any number of captures, workers,       *)
(* requests, submissions, failed writes and restarts: types, the gate,     *)
(* claims, live logs, and that the queue implements JobLifecycle.          *)
(***************************************************************************)
EXTENDS ClipQueueProps, SharedLemmas, FiniteSetTheorems, TLAPS

-----------------------------------------------------------------------------
(* Types.                                                                  *)

LEMMA CeilingType == Ceiling \in Nat
BY WorkersAssumption, FS_CardinalityType DEF Ceiling

LEMMA LimitType ==
  ASSUME NEW n \in Nat
  PROVE  MaxConcurrentJobs(n) \in Nat
<1>1. AutoMaxConcurrentJobs \in Nat
  BY CeilingType, SettingsAssumption DEF AutoMaxConcurrentJobs
<1> QED BY <1>1, CeilingType DEF MaxConcurrentJobs

\* A worker has a job exactly from Claim to Finish.
WorkingPCs == PCs \ {"poll", "gate", "claim", "release", "sleep", "exit"}
CopyOK == \A w \in Workers : HasJob(w) <=> pc[w] \in WorkingPCs

LEMMA WriteType ==
  ASSUME TypeOK, jobs' \in Tables, limit' \in Nat, retention' \in Nat, Write
  PROVE  /\ disk' \in [jobs: Tables, limit: Nat, retention: Nat]
         /\ faults' \in Nat
BY DEF TypeOK, Write, WriteOk, WriteFails

LEMMA CopyType ==
  ASSUME TypeOK, CopyOK, NEW w \in Workers, pc[w] \in WorkingPCs
  PROVE  /\ copy[w] \in Job /\ copy[w].id \in Captures
         /\ copy[w].req \in Nat
         /\ \A s \in States : [copy EXCEPT ![w].state = s] \in
                                 [Workers -> Job \cup {NoJob}]
         /\ \A s \in States : [copy[w] EXCEPT !.state = s] \in Job
<1>1. copy[w] \in Job BY DEF TypeOK, CopyOK, HasJob
<1>2. ASSUME NEW s \in States PROVE [copy[w] EXCEPT !.state = s] \in Job
  BY <1>1 DEF Job
<1>3. \A s \in States : [copy EXCEPT ![w].state = s] \in
                                 [Workers -> Job \cup {NoJob}]
  BY <1>2 DEF TypeOK
<1> QED BY <1>1, <1>2, <1>3 DEF Job

LEMMA InitType == Init => TypeOK /\ CopyOK
BY EmptyTableType, SettingsAssumption
   DEF Init, TypeOK, CopyOK, HasJob, WorkingPCs, PCs

LEMMA DecideType ==
  ASSUME TypeOK, CopyOK, NEW w \in Workers, NEW s \in States, Decide(w, s),
         pc[w] \in WorkingPCs
  PROVE  /\ copy' \in [Workers -> Job \cup {NoJob}]
         /\ pc' \in [Workers -> PCs]
         /\ CopyOK'
<1>1. /\ copy' \in [Workers -> Job \cup {NoJob}]
      /\ copy' = [copy EXCEPT ![w] = [copy[w] EXCEPT !.state = s]]
      /\ [copy[w] EXCEPT !.state = s] \in Job
  BY CopyType DEF Decide, TypeOK
<1>2. pc' \in [Workers -> PCs] /\ pc' = [pc EXCEPT ![w] = "report"]
  BY DEF Decide, Goto, TypeOK, PCs
<1>3. CopyOK'
  BY <1>1, <1>2, NoJobAssumption DEF CopyOK, HasJob, TypeOK, WorkingPCs, PCs
<1> QED BY <1>1, <1>2, <1>3

\* The requests, the sweep and the environment.
LEMMA OutsideType ==
  ASSUME TypeOK, CopyOK,
         Requests \/ Removal \/ ReadRetention \/ Sweep \/ Tick \/ Restart
  PROVE  TypeOK' /\ CopyOK'
<1> USE DEF storeVars, slotVars, workVars, boundVars, restVars, CopyOK, HasJob
<1>1. ASSUME NEW c \in Captures, NEW force \in BOOLEAN, Submit(c, force)
      PROVE  TypeOK' /\ CopyOK'
  <2>1. jobs' \in Tables /\ subs' \in Nat
    BY <1>1, SubmitType DEF Submit, TypeOK
  <2>2. limit' \in Nat /\ retention' \in Nat /\ disturbed' \subseteq Captures
    BY <1>1 DEF Submit, TypeOK, Disturb
  <2>3. Write BY <1>1 DEF Submit
  <2> QED BY <1>1, <2>1, <2>2, <2>3, WriteType DEF Submit, TypeOK
<1>2. ASSUME NEW h \in Handlers, NEW c \in Captures, Delete(h, c)
      PROVE  TypeOK' /\ CopyOK'
  <2>1. jobs' \in Tables BY <1>2, DropType DEF Delete, TypeOK
  <2>2. limit' \in Nat /\ retention' \in Nat /\ disturbed' \subseteq Captures
    BY <1>2 DEF Delete, TypeOK, Disturb
  <2>3. Write /\ todo' \in [Removers -> SUBSET Paths]
    BY <1>2 DEF Delete, Write, FilesOf, Paths, TypeOK
  <2> QED BY <1>2, <2>1, <2>2, <2>3, WriteType DEF Delete, TypeOK
<1>3. ASSUME NEW h \in Removers, NEW p \in Paths, RemoveFile(h, p[1], p[2])
      PROVE  TypeOK' /\ CopyOK'
  <2>1. media' \in [Paths -> File \cup {NoFile}]
    BY <1>3 DEF RemoveFile, TypeOK
  <2>2. todo' \in [Removers -> SUBSET Paths]
    BY <1>3 DEF RemoveFile, TypeOK
  <2> QED BY <1>3, <2>1, <2>2 DEF RemoveFile, TypeOK
<1>4. ASSUME NEW a \in Nat, NEW b \in Nat, SaveSettings(a, b)
      PROVE  TypeOK' /\ CopyOK'
  <2>1. jobs' \in Tables /\ limit' \in Nat /\ retention' \in Nat /\ Write
    BY <1>4 DEF SaveSettings, TypeOK
  <2> QED BY <1>4, <2>1, WriteType DEF SaveSettings, TypeOK
<1>5. ASSUME ReadRetention PROVE TypeOK' /\ CopyOK'
  BY <1>5 DEF ReadRetention, TypeOK
<1>6. ASSUME Sweep PROVE TypeOK' /\ CopyOK'
  <2>1. jobs' \in Tables BY <1>6, DropType DEF Sweep, TypeOK
  <2>2. limit' \in Nat /\ retention' \in Nat /\ hours' \in Nat
    BY <1>6 DEF Sweep, TypeOK
  <2>3. /\ todo' \in [Removers -> SUBSET Paths]
        /\ disturbed' \subseteq Captures
    BY <1>6 DEF Sweep, FilesOf, Paths, TypeOK, Expired, Disturb
  <2>4. /\ disk' \in [jobs: Tables, limit: Nat, retention: Nat]
        /\ faults' \in Nat
    BY <1>6, <2>1, <2>2, WriteType DEF Sweep, TypeOK
  <2> QED BY <1>6, <2>1, <2>2, <2>3, <2>4 DEF Sweep, TypeOK
<1>7. ASSUME Tick PROVE TypeOK' /\ CopyOK'
  BY <1>7 DEF Tick, TypeOK
<1>8. ASSUME Restart PROVE TypeOK' /\ CopyOK'
  <2>1. media' \in [Paths -> File \cup {NoFile}]
    <3>1. \A p \in Paths : media[p] # NoFile =>
                             [media[p] EXCEPT !.open = {}] \in File
      BY DEF TypeOK, File
    <3> QED BY <1>8, <3>1 DEF Restart
  <2>2. disk.jobs \in Tables /\ disk.limit \in Nat /\ disk.retention \in Nat
    BY DEF TypeOK
  <2> QED BY <1>8, <2>1, <2>2
          DEF Restart, TypeOK, PCs, WorkingPCs, Removing
<1> QED
  BY <1>1, <1>2, <1>3, <1>4, <1>5, <1>6, <1>7, <1>8, CeilingType,
     SettingsAssumption
     DEF Requests, Removal, SetMaxConcurrentJobs, SetRetentionHours, TypeOK

\* The gate.
LEMMA GateType ==
  ASSUME TypeOK, CopyOK, NEW w \in Workers, Gate(w) \/ Wake(w)
  PROVE  TypeOK' /\ CopyOK'
<1> USE DEF storeVars, slotVars, workVars, boundVars, restVars, CopyOK, HasJob,
            Goto, PCs, WorkingPCs
<1>1. ASSUME Poll(w) PROVE TypeOK' /\ CopyOK'
  BY <1>1 DEF Poll, TakeSlot, TypeOK
<1>2. ASSUME Admit(w) PROVE TypeOK' /\ CopyOK'
  BY <1>2, LimitType DEF Admit, TypeOK
<1>3. ASSUME Refuse(w) PROVE TypeOK' /\ CopyOK'
  BY <1>3 DEF Refuse, TypeOK
<1>4. ASSUME NEW c \in Captures, Claim(w, c) PROVE TypeOK' /\ CopyOK'
  <2>1. jobs' \in Tables /\ jobs'[c] \in Job
    BY <1>4, MarkRunningType DEF Claim, IsNextQueued, IsQueued, Present, TypeOK
  <2>2. limit' \in Nat /\ retention' \in Nat /\ Write
    BY <1>4 DEF Claim, TypeOK
  <2>3. copy' = [copy EXCEPT ![w] = jobs'[c]] BY <1>4 DEF Claim
  <2>4. copy' \in [Workers -> Job \cup {NoJob}] /\ copy'[w] \in Job
        /\ \A v \in Workers : v # w => copy'[v] = copy[v]
    BY <2>1, <2>3 DEF TypeOK
  <2>5. CopyOK' BY <1>4, <2>4, NoJobAssumption DEF Claim, TypeOK
  <2> QED BY <1>4, <2>1, <2>2, <2>4, <2>5, WriteType DEF Claim, TypeOK
<1>5. ASSUME NothingQueued(w) PROVE TypeOK' /\ CopyOK'
  BY <1>5 DEF NothingQueued, TypeOK
<1>6. ASSUME Release(w) PROVE TypeOK' /\ CopyOK'
  BY <1>6 DEF Release, GiveBack, TypeOK
<1>7. ASSUME Wake(w) PROVE TypeOK' /\ CopyOK'
  BY <1>7 DEF Wake, TypeOK
<1> QED BY <1>1, <1>2, <1>3, <1>4, <1>5, <1>6, <1>7 DEF Gate

LEMMA CloseType ==
  ASSUME TypeOK, NEW w \in Workers, NEW k \in Kinds, NEW ok \in BOOLEAN,
         CloseFile(w, k, ok)
  PROVE  media' \in [Paths -> File \cup {NoFile}]
<1> DEFINE p == <<copy[w].id, k>>
<1>1. ASSUME p \in Paths, media[p] # NoFile
      PROVE  [media[p] EXCEPT !.open = @ \ {w}, !.whole = ok] \in File
  <2>1. media[p] \in File BY <1>1 DEF TypeOK
  <2> QED BY <2>1 DEF File
<1>2. ASSUME p \in Paths, media[p] # NoFile
      PROVE  [media EXCEPT ![p].open = @ \ {w}, ![p].whole = ok] =
             [media EXCEPT ![p] = [media[p] EXCEPT !.open = @ \ {w}, !.whole = ok]]
  <2>1. media[p] \in File BY <1>2 DEF TypeOK
  <2> QED BY <1>2, <2>1 DEF TypeOK, File
<1>3. ASSUME p \notin Paths
      PROVE  [media EXCEPT ![p].open = @ \ {w}, ![p].whole = ok] = media
  BY <1>3 DEF TypeOK
<1> QED BY <1>1, <1>2, <1>3 DEF CloseFile, TypeOK

\* A file is open only in workers whose ffmpeg is writing it now.
OpenOK ==
  \A p \in Paths :
    media[p] # NoFile =>
      \A w \in media[p].open : copy[w].id = p[1] /\ pc[w] = Writing(p[2])

\* What process does to one job.
LEMMA ProduceType ==
  ASSUME TypeOK, CopyOK, OpenOK, NEW w \in Workers, Produce(w)
  PROVE  TypeOK' /\ CopyOK'
<1> USE DEF storeVars, slotVars, workVars, boundVars, restVars, HasJob, Goto,
            PCs, WorkingPCs
<1>1. ASSUME StartLog(w) PROVE TypeOK' /\ CopyOK'
  BY <1>1 DEF StartLog, TypeOK, CopyOK
<1>2. ASSUME NoServer(w) PROVE TypeOK' /\ CopyOK'
  BY <1>2, DecideType DEF NoServer, Fail, TypeOK, States
<1>3. ASSUME Resolve(w) PROVE TypeOK' /\ CopyOK'
  <2>1. /\ disk' \in [jobs: Tables, limit: Nat, retention: Nat]
        /\ faults' \in Nat
    BY <1>3, WriteType DEF Resolve, TypeOK
  <2>2. CASE Fail(w)
    BY <1>3, <2>1, <2>2, DecideType DEF Resolve, Fail, TypeOK, States
  <2>3. CASE Goto(w, "still") /\ UNCHANGED copy
    BY <1>3, <2>1, <2>3 DEF Resolve, TypeOK, CopyOK
  <2> QED BY <1>3, <2>2, <2>3 DEF Resolve
<1>4. ASSUME NEW k \in Kinds, OpenOutput(w, k) PROVE TypeOK' /\ CopyOK'
  <2> DEFINE p == <<copy[w].id, k>>
             others == IF media[p] = NoFile THEN {} ELSE media[p].open
             f == [by |-> {copy[x].req : x \in others \cup {w}},
                   open |-> others \cup {w}, whole |-> FALSE]
  <2>1. media' = [media EXCEPT ![p] = f] BY <1>4 DEF OpenOutput
  <2>2. pc[w] = k /\ k \in Kinds BY <1>4 DEF OpenOutput
  <2>3. p \in Paths BY <2>2, CopyType DEF Paths, Kinds
  <2>4. others \subseteq Workers BY <2>3 DEF TypeOK, File
  <2>5. \A x \in others \cup {w} : copy[x].req \in Nat
    <3>1. \A x \in others : pc[x] \in {"stilling", "clipping"}
      BY <2>3 DEF OpenOK, Writing
    <3>2. pc[w] \in WorkingPCs BY <2>2 DEF Kinds
    <3> QED BY <2>4, <3>1, <3>2, CopyType
  <2>6. f \in File BY <2>4, <2>5 DEF File
  <2>7. media' \in [Paths -> File \cup {NoFile}] BY <2>1, <2>6 DEF TypeOK
  <2>8. pc' = [pc EXCEPT ![w] = Writing(k)] /\ UNCHANGED copy
    BY <1>4 DEF OpenOutput
  <2>9. pc' \in [Workers -> PCs] BY <2>8 DEF TypeOK, Writing
  <2>10. CopyOK' BY <2>2, <2>8 DEF CopyOK, Writing, Kinds, TypeOK
  <2> HIDE DEF f, p, others
  <2> QED BY <1>4, <2>7, <2>8, <2>9, <2>10 DEF OpenOutput, TypeOK
<1>5. ASSUME NEW k \in Kinds, OutputNotOpened(w, k) PROVE TypeOK' /\ CopyOK'
  BY <1>5, DecideType DEF OutputNotOpened, Fail, TypeOK, States, Kinds
<1>6. ASSUME NEW k \in Kinds, NEW ok \in BOOLEAN, OutputEnds(w, k, ok)
      PROVE  TypeOK' /\ CopyOK'
  <2>1. media' \in [Paths -> File \cup {NoFile}]
    BY <1>6, CloseType DEF OutputEnds
  <2>2. pc[w] \in WorkingPCs BY <1>6 DEF OutputEnds, Writing
  <2>3. /\ copy' \in [Workers -> Job \cup {NoJob}] /\ pc' \in [Workers -> PCs]
        /\ CopyOK'
    <3>1. CASE ok
      BY <1>6, <2>2, <3>1 DEF OutputEnds, AfterOutput, TypeOK, CopyOK
    <3>2. CASE ~ok
      BY <1>6, <2>2, <3>2, DecideType DEF OutputEnds, AfterOutput, Fail, States
    <3> QED BY <3>1, <3>2
  <2> QED BY <1>6, <2>1, <2>3 DEF OutputEnds, TypeOK
<1>7. ASSUME Inspect(w) PROVE TypeOK' /\ CopyOK'
  <2>1. CASE Goto(w, "rmclip") /\ UNCHANGED copy
    BY <1>7, <2>1 DEF Inspect, TypeOK, CopyOK
  <2>2. ASSUME NEW s \in States, Decide(w, s) PROVE TypeOK' /\ CopyOK'
    BY <1>7, <2>2, DecideType DEF Inspect, TypeOK
  <2> QED BY <1>7, <2>1, <2>2 DEF Inspect, Fail, States
<1>8. ASSUME DropClip(w) PROVE TypeOK' /\ CopyOK'
  BY <1>8 DEF DropClip, TypeOK, CopyOK
<1>9. ASSUME DropStill(w) PROVE TypeOK' /\ CopyOK'
  BY <1>9, DecideType DEF DropStill, Fail, TypeOK, States
<1>10. ASSUME Report(w) PROVE TypeOK' /\ CopyOK'
  <2>1. copy[w] \in Job BY <1>10, CopyType DEF Report
  <2>2. jobs' \in Tables
    BY <1>10, <2>1, UpdateType DEF Report, TypeOK
  <2>3. /\ disk' \in [jobs: Tables, limit: Nat, retention: Nat]
        /\ faults' \in Nat
    BY <1>10, <2>2, WriteType DEF Report, TypeOK
  <2>4. pc' \in [Workers -> PCs] /\ CopyOK'
    BY <1>10 DEF Report, TypeOK, CopyOK
  <2> QED BY <1>10, <2>2, <2>3, <2>4 DEF Report, TypeOK
<1>11. ASSUME Finish(w) PROVE TypeOK' /\ CopyOK'
  BY <1>11 DEF Finish, FinishLog, TypeOK, CopyOK
<1>12. ASSUME Exit(w) PROVE TypeOK' /\ CopyOK'
  BY <1>12 DEF Exit, GiveBack, TypeOK, CopyOK
<1> QED BY <1>1, <1>2, <1>3, <1>4, <1>5, <1>6, <1>7, <1>8, <1>9, <1>10,
           <1>11, <1>12 DEF Produce

LEMMA OpenStep ==
  ASSUME TypeOK, CopyOK, OpenOK, [Next]_vars
  PROVE  OpenOK'
<1> USE DEF storeVars, slotVars, workVars, boundVars, restVars, HasJob, Goto
\* A worker that is not writing has no file open, so it may move on.
<1>1. ASSUME NEW w \in Workers, UNCHANGED media,
             \A v \in Workers : v # w => pc'[v] = pc[v] /\ copy'[v] = copy[v],
             pc[w] \notin {"stilling", "clipping"}
      PROVE  OpenOK'
  <2>1. ASSUME NEW p \in Paths, media[p] # NoFile, NEW v \in media[p].open
        PROVE  copy'[v].id = p[1] /\ pc'[v] = Writing(p[2])
    <3>1. v \in Workers BY <2>1 DEF TypeOK, File
    <3>2. copy[v].id = p[1] /\ pc[v] = Writing(p[2]) BY <2>1 DEF OpenOK
    <3>3. v # w BY <1>1, <3>2 DEF Writing
    <3> QED BY <1>1, <3>1, <3>2, <3>3
  <2> QED BY <1>1, <2>1 DEF OpenOK
\* Removing a file closes nothing that matters.
<1>2. ASSUME NEW w \in Workers, NEW q,
             media' = [media EXCEPT ![q] = NoFile],
             \A v \in Workers : v # w => pc'[v] = pc[v] /\ copy'[v] = copy[v],
             pc[w] \notin {"stilling", "clipping"} \/ UNCHANGED <<pc, copy>>
      PROVE  OpenOK'
  <2>1. ASSUME NEW p \in Paths, media'[p] # NoFile, NEW v \in media'[p].open
        PROVE  copy'[v].id = p[1] /\ pc'[v] = Writing(p[2])
    <3>1. media'[p] = media[p] BY <1>2, <2>1 DEF TypeOK
    <3>2. v \in Workers BY <2>1, <3>1 DEF TypeOK, File
    <3>3. copy[v].id = p[1] /\ pc[v] = Writing(p[2])
      BY <2>1, <3>1 DEF OpenOK
    <3>4. v # w \/ UNCHANGED <<pc, copy>> BY <1>2, <3>3 DEF Writing
    <3> QED BY <1>2, <3>2, <3>3, <3>4
  <2> QED BY <2>1 DEF OpenOK
<1>3. ASSUME UNCHANGED <<media, pc, copy>> PROVE OpenOK'
  BY <1>3 DEF OpenOK
<1>4. ASSUME Requests \/ ReadRetention \/ Sweep \/ Tick PROVE OpenOK'
  BY <1>3, <1>4 DEF Requests, Submit, Delete, SetMaxConcurrentJobs,
     SetRetentionHours, SaveSettings, ReadRetention, Sweep, Tick
<1>5. ASSUME NEW h \in Removers, NEW p \in Paths, RemoveFile(h, p[1], p[2])
      PROVE  OpenOK'
  <2>1. CASE Workers = {}
    BY <1>5, <2>1 DEF RemoveFile, OpenOK, TypeOK, File
  <2>2. CASE Workers # {}
    BY <1>2, <1>5, <2>2 DEF RemoveFile
  <2> QED BY <2>1, <2>2
<1>6. ASSUME Restart PROVE OpenOK'
  <2>1. \A p \in Paths : media'[p] # NoFile => media'[p].open = {}
    BY <1>6 DEF Restart, TypeOK, File
  <2> QED BY <2>1 DEF OpenOK
<1>7. ASSUME NEW w \in Workers, Gate(w) \/ Wake(w) PROVE OpenOK'
  BY <1>1, <1>7 DEF Gate, Poll, Admit, Refuse, Claim, NothingQueued, Release,
                    Wake, TypeOK
<1>8. ASSUME NEW w \in Workers, Produce(w) PROVE OpenOK'
  <2>1. CASE \/ StartLog(w) \/ NoServer(w) \/ Resolve(w) \/ Inspect(w)
             \/ Report(w) \/ Finish(w) \/ Exit(w)
             \/ \E k \in Kinds : OutputNotOpened(w, k)
    BY <1>1, <2>1 DEF StartLog, NoServer, Resolve, Inspect, Report, Finish,
       Exit, OutputNotOpened, Decide, Fail, TypeOK, Kinds
  <2>2. CASE DropClip(w) \/ DropStill(w)
    BY <1>2, <2>2 DEF DropClip, DropStill, Decide, Fail, TypeOK
  <2>3. ASSUME NEW k \in Kinds, OpenOutput(w, k) PROVE OpenOK'
    <3> DEFINE q == <<copy[w].id, k>>
               others == IF media[q] = NoFile THEN {} ELSE media[q].open
               f == [by |-> {copy[x].req : x \in others \cup {w}},
                     open |-> others \cup {w}, whole |-> FALSE]
    <3>1. /\ media' = [media EXCEPT ![q] = f] /\ pc[w] = k
          /\ pc' = [pc EXCEPT ![w] = Writing(k)] /\ UNCHANGED copy
      BY <2>3 DEF OpenOutput
    <3>2. ASSUME NEW p \in Paths, media'[p] # NoFile, NEW v \in media'[p].open
          PROVE  copy'[v].id = p[1] /\ pc'[v] = Writing(p[2])
      <4>1. CASE p = q /\ v = w BY <3>1, <4>1 DEF TypeOK
      <4>2. CASE ~(p = q /\ v = w)
        <5>1. media[p] # NoFile /\ v \in media[p].open
          BY <3>1, <3>2, <4>2 DEF TypeOK
        <5>2. copy[v].id = p[1] /\ pc[v] = Writing(p[2]) BY <5>1 DEF OpenOK
        <5>3. v # w BY <3>1, <5>2 DEF Writing, Kinds
        <5> QED BY <3>1, <5>2, <5>3 DEF TypeOK
      <4> QED BY <4>1, <4>2
    <3> QED BY <3>2 DEF OpenOK
  <2>4. ASSUME NEW k \in Kinds, NEW ok \in BOOLEAN, OutputEnds(w, k, ok)
        PROVE  OpenOK'
    <3> DEFINE q == <<copy[w].id, k>>
    <3>1. pc[w] = Writing(k) /\ CloseFile(w, k, ok) BY <2>4 DEF OutputEnds
    <3>2. \A v \in Workers : v # w => pc'[v] = pc[v] /\ copy'[v] = copy[v]
      BY <2>4 DEF OutputEnds, AfterOutput, Decide, Fail, TypeOK
    <3>3. ASSUME NEW p \in Paths, media'[p] # NoFile, NEW v \in media'[p].open
          PROVE  /\ media[p] # NoFile /\ v \in media[p].open
                 /\ p = q => v # w
      BY <3>1, <3>3 DEF CloseFile, TypeOK, File
    <3>4. ASSUME NEW p \in Paths, media'[p] # NoFile, NEW v \in media'[p].open
          PROVE  copy'[v].id = p[1] /\ pc'[v] = Writing(p[2])
      <4>1. copy[v].id = p[1] /\ pc[v] = Writing(p[2]) /\ v \in Workers
        BY <3>3, <3>4 DEF OpenOK, TypeOK, File
      <4>2. v = w => p = q
        BY <3>1, <4>1 DEF Writing, Paths, Kinds
      <4> QED BY <3>2, <3>3, <3>4, <4>1, <4>2
    <3> QED BY <3>4 DEF OpenOK
  <2> QED BY <1>8, <2>1, <2>2, <2>3, <2>4 DEF Produce
<1>9. CASE UNCHANGED vars BY <1>3, <1>9 DEF vars
<1> QED BY <1>4, <1>5, <1>6, <1>7, <1>8, <1>9 DEF Next, Removal, Work

\* The types as an inductive invariant.
Types == TypeOK /\ CopyOK /\ OpenOK

LEMMA TypesStep == Types /\ [Next]_vars => Types'
<1> SUFFICES ASSUME Types, [Next]_vars PROVE Types'
  OBVIOUS
<1>1. OpenOK' BY OpenStep DEF Types
<1>2. TypeOK' /\ CopyOK'
  <2>1. CASE UNCHANGED vars
    BY <2>1 DEF Types, TypeOK, CopyOK, HasJob, vars
  <2>2. CASE Next
    BY <2>2, OutsideType, GateType, ProduceType DEF Types, Next, Work
  <2> QED BY <2>1, <2>2
<1> QED BY <1>1, <1>2 DEF Types

THEOREM TypesInvariant == Spec => []Types
<1>1. Init => Types BY InitType DEF Types, OpenOK, Init
<1> QED BY <1>1, TypesStep, PTL DEF Spec

\* Every variable keeps its type.
THEOREM TypeCorrect == Spec => []TypeOK
<1>1. Types => TypeOK BY DEF Types
<1> QED BY <1>1, TypesInvariant, PTL

-----------------------------------------------------------------------------
(* The gate.  WithinLimit is not inductive: that a worker was let in says   *)
(* nothing about how many others hold a slot.  What is: among any workers   *)
(* that hold slots, the one that added its slot last saw them all.          *)

Slots == {w \in Workers : HoldsSlot(w)}

LastSawAll ==
  \A S \in SUBSET Slots : S # {} => \E w \in S : Cardinality(S) <= seen[w]

AdmittedUnderLimit == \A w \in Admitted : seen[w] <= told[w]

GateInv == CounterExact /\ LastSawAll /\ AdmittedUnderLimit

LEMMA SlotsFinite ==
  /\ IsFiniteSet(Slots) /\ Cardinality(Slots) \in Nat
  /\ \A S \in SUBSET Slots : IsFiniteSet(S) /\ Cardinality(S) \in Nat
<1>1. Slots \in SUBSET Workers BY DEF Slots
<1>2. IsFiniteSet(Slots) BY <1>1, WorkersAssumption, FS_Subset
<1> QED BY <1>2, FS_Subset, FS_CardinalityType

LEMMA GateInit == Init => GateInv
<1> SUFFICES ASSUME Init PROVE GateInv
  OBVIOUS
<1>1. {w \in Workers : HoldsSlot(w)} = {} BY DEF Init, HoldsSlot
<1> QED BY <1>1, FS_EmptySet
        DEF GateInv, CounterExact, LastSawAll, AdmittedUnderLimit, Admitted,
            Slots, Init

\* A worker takes a slot.
LEMMA TakeStep ==
  ASSUME TypeOK, GateInv, NEW w \in Workers, Poll(w)
  PROVE  GateInv'
<1>1. /\ pc' = [pc EXCEPT ![w] = "gate"] /\ pc[w] = "poll"
      /\ running' = running + 1
      /\ seen' = [seen EXCEPT ![w] = running + 1] /\ told' = told
  BY DEF Poll, TakeSlot, Goto
<1>2. Slots' = Slots \cup {w} /\ w \notin Slots
  BY <1>1 DEF Slots, HoldsSlot, TypeOK
<1>3. running = Cardinality(Slots) BY DEF GateInv, CounterExact, Slots
<1>4. Cardinality(Slots') = running + 1
  BY <1>2, <1>3, SlotsFinite, FS_AddElement
<1>5. CounterExact' BY <1>1, <1>4 DEF CounterExact, Slots
<1>6. LastSawAll'
  <2>1. ASSUME NEW S \in SUBSET Slots', S # {}
        PROVE  \E v \in S : Cardinality(S) <= seen'[v]
    <3>1. CASE w \in S
      <4>1. IsFiniteSet(Slots') BY <1>2, SlotsFinite, FS_AddElement
      <4>2. Cardinality(S) <= running + 1
        BY <1>4, <2>1, <4>1, FS_Subset
      <4> QED BY <1>1, <3>1, <4>2 DEF TypeOK
    <3>2. CASE w \notin S
      <4>1. S \in SUBSET Slots BY <1>2, <3>2
      <4>2. PICK v \in S : Cardinality(S) <= seen[v]
        BY <2>1, <4>1 DEF GateInv, LastSawAll
      <4>3. seen'[v] = seen[v] BY <1>1, <3>2, <4>1, <4>2 DEF TypeOK, Slots
      <4> QED BY <4>2, <4>3
    <3> QED BY <3>1, <3>2
  <2> QED BY <2>1 DEF LastSawAll
<1>7. AdmittedUnderLimit'
  <2>1. ASSUME NEW v \in Admitted'
        PROVE  v \in Admitted /\ seen'[v] = seen[v] /\ told'[v] = told[v]
    BY <1>1, <2>1 DEF Admitted, HoldsSlot, TypeOK
  <2> QED BY <2>1 DEF AdmittedUnderLimit, GateInv
<1> QED BY <1>5, <1>6, <1>7 DEF GateInv

\* A worker gives its slot back.
LEMMA GiveStep ==
  ASSUME TypeOK, GateInv, NEW w \in Workers, Release(w) \/ Exit(w)
  PROVE  GateInv'
<1>1. /\ pc[w] \in {"release", "exit"}
      /\ pc' \in [Workers -> PCs] /\ pc'[w] \in {"sleep", "poll"}
      /\ \A v \in Workers : v # w =>
           pc'[v] = pc[v] /\ seen'[v] = seen[v] /\ told'[v] = told[v]
      /\ running' = running - 1
  BY DEF Release, Exit, GiveBack, Goto, TypeOK, PCs
<1>2. Slots' = Slots \ {w} /\ w \in Slots
  BY <1>1 DEF Slots, HoldsSlot
<1>3. CounterExact'
  <2>1. Cardinality(Slots') = Cardinality(Slots) - 1
    BY <1>2, SlotsFinite, FS_RemoveElement
  <2> QED BY <1>1, <2>1 DEF GateInv, CounterExact, Slots
<1>4. LastSawAll'
  <2>1. ASSUME NEW S \in SUBSET Slots', S # {}
        PROVE  \E v \in S : Cardinality(S) <= seen'[v]
    <3>1. PICK v \in S : Cardinality(S) <= seen[v]
      BY <1>2, <2>1 DEF GateInv, LastSawAll
    <3>2. seen'[v] = seen[v] BY <1>1, <1>2, <3>1 DEF Slots
    <3> QED BY <3>1, <3>2
  <2> QED BY <2>1 DEF LastSawAll
<1>5. AdmittedUnderLimit'
  <2>1. ASSUME NEW v \in Admitted'
        PROVE  v \in Admitted /\ v # w
    BY <1>1, <2>1 DEF Admitted, HoldsSlot
  <2> QED BY <1>1, <2>1 DEF AdmittedUnderLimit, GateInv, Admitted
<1> QED BY <1>3, <1>4, <1>5 DEF GateInv

\* A worker that keeps its slot, or its lack of one, and is not let in.
LEMMA KeepStep ==
  ASSUME TypeOK, GateInv, UNCHANGED slotVars,
         \A v \in Workers : HoldsSlot(v)' = HoldsSlot(v),
         Admitted' \subseteq Admitted
  PROVE  GateInv'
<1>1. Slots' = Slots BY DEF Slots
<1> QED BY <1>1 DEF GateInv, CounterExact, LastSawAll, AdmittedUnderLimit,
                    Slots, slotVars, Admitted

LEMMA AdmitStep ==
  ASSUME TypeOK, GateInv, NEW w \in Workers, Admit(w)
  PROVE  GateInv'
<1>1. /\ pc[w] = "gate" /\ pc' = [pc EXCEPT ![w] = "claim"]
      /\ UNCHANGED <<running, seen>>
      /\ told' = [told EXCEPT ![w] = MaxConcurrentJobs(limit)]
      /\ seen[w] <= MaxConcurrentJobs(limit)
  BY DEF Admit, Goto
<1>2. Slots' = Slots BY <1>1 DEF Slots, HoldsSlot, TypeOK
<1>3. \A v \in Admitted' : v = w \/ v \in Admitted
  BY <1>1 DEF Admitted, HoldsSlot, TypeOK
<1>4. AdmittedUnderLimit'
  BY <1>1, <1>3 DEF AdmittedUnderLimit, GateInv, TypeOK, Admitted
<1> QED BY <1>1, <1>2, <1>4 DEF GateInv, CounterExact, LastSawAll, Slots

LEMMA GateStep == Types /\ GateInv /\ [Next]_vars => GateInv'
<1> SUFFICES ASSUME Types, GateInv, [Next]_vars PROVE GateInv'
  OBVIOUS
<1> USE DEF Types
<1>1. ASSUME \/ Requests \/ Removal \/ ReadRetention \/ Sweep \/ Tick
             \/ UNCHANGED vars
      PROVE  GateInv'
  <2>1. UNCHANGED <<slotVars, pc>>
    BY <1>1 DEF Requests, Removal, Submit, Delete, SetMaxConcurrentJobs,
       SetRetentionHours, SaveSettings, RemoveFile, ReadRetention, Sweep, Tick,
       workVars, slotVars, vars
  <2> QED BY <2>1, KeepStep DEF HoldsSlot, Admitted
<1>2. ASSUME Restart PROVE GateInv'
  <2>1. Slots' = {} /\ running' = 0
    BY <1>2 DEF Restart, Slots, HoldsSlot
  <2> QED BY <2>1, FS_EmptySet DEF GateInv, CounterExact, LastSawAll,
             AdmittedUnderLimit, Admitted, Slots
<1>3. ASSUME NEW w \in Workers, Gate(w) \/ Wake(w) PROVE GateInv'
  <2>1. CASE Poll(w) BY <2>1, TakeStep
  <2>2. CASE Admit(w) BY <2>2, AdmitStep
  <2>3. CASE Release(w) BY <2>3, GiveStep
  <2>4. CASE Refuse(w) \/ NothingQueued(w) \/ Wake(w)
             \/ \E c \in Captures : Claim(w, c)
    <3>1. UNCHANGED slotVars /\ \A v \in Workers : v # w => pc'[v] = pc[v]
      BY <2>4 DEF Refuse, NothingQueued, Wake, Claim, Goto, TypeOK
    <3>2. /\ pc[w] \in {"gate", "claim"} <=> pc'[w] \in {"release", "start"}
          /\ pc[w] = "sleep" <=> pc'[w] = "poll"
          /\ pc[w] \in {"gate", "claim", "sleep"}
          /\ pc'[w] = "start" => pc[w] = "claim"
          /\ pc'[w] \in {"release", "start", "poll"}
      BY <2>4 DEF Refuse, NothingQueued, Wake, Claim, Goto, TypeOK
    <3> QED BY <3>1, <3>2, KeepStep DEF HoldsSlot, Admitted
  <2> QED BY <1>3, <2>1, <2>2, <2>3, <2>4 DEF Gate
<1>4. ASSUME NEW w \in Workers, Produce(w) PROVE GateInv'
  <2>1. CASE Exit(w) BY <2>1, GiveStep
  <2>2. CASE ~Exit(w)
    <3>1. UNCHANGED slotVars /\ \A v \in Workers : v # w => pc'[v] = pc[v]
      BY <1>4, <2>2 DEF Produce, StartLog, NoServer, Resolve, OpenOutput,
         OutputNotOpened, OutputEnds, AfterOutput, Inspect, DropClip,
         DropStill, Report, Finish, Fail, Decide, Goto, TypeOK
    <3>2. /\ pc[w] \notin {"poll", "sleep", "gate", "release"}
          /\ pc'[w] \notin {"poll", "sleep", "gate", "release"}
      BY <1>4, <2>2 DEF Produce, StartLog, NoServer, Resolve, OpenOutput,
         OutputNotOpened, OutputEnds, AfterOutput, Inspect, DropClip,
         DropStill, Report, Finish, Fail, Decide, Goto, TypeOK, Kinds, Writing
    <3> QED BY <3>1, <3>2, KeepStep DEF HoldsSlot, Admitted
  <2> QED BY <2>1, <2>2
<1> QED BY <1>1, <1>2, <1>3, <1>4 DEF Next, Work

LEMMA GateImplies == TypeOK /\ GateInv => WithinLimit
<1> SUFFICES ASSUME TypeOK, GateInv, Admitted # {}
             PROVE  \E w \in Admitted : Cardinality(Admitted) <= told[w]
  BY DEF WithinLimit
<1>1. Admitted \in SUBSET Slots BY DEF Admitted, Slots
<1>2. PICK w \in Admitted : Cardinality(Admitted) <= seen[w]
  BY <1>1 DEF GateInv, LastSawAll
<1>3. seen[w] <= told[w] BY <1>2 DEF GateInv, AdmittedUnderLimit
<1>4. /\ seen[w] \in Int /\ told[w] \in Nat /\ Cardinality(Admitted) \in Nat
  BY <1>1, <1>2, SlotsFinite DEF TypeOK, Admitted
<1> QED BY <1>2, <1>3, <1>4

\* jobs.running is exactly the number of workers that hold a slot, however
\* their additions, checks and subtractions interleave and whenever they or
\* the process end.
THEOREM CounterIsExact == Spec => []CounterExact
<1>1. GateInv => CounterExact
  BY DEF GateInv
<1> QED BY <1>1, GateInit, GateStep, TypesInvariant, PTL DEF Spec

\* No more workers are let in than the largest limit one of them was told,
\* however the setting changes meanwhile.
THEOREM GateSafe == Spec => []WithinLimit
<1>1. Types /\ GateInv => WithinLimit
  BY GateImplies DEF Types, GateInv
<1> QED BY <1>1, GateInit, GateStep, TypesInvariant, PTL DEF Spec

-----------------------------------------------------------------------------
(* Claims.  ClaimedOnce rests on this: a submission number belongs to one   *)
(* capture, is never handed out again, and a worker reports a terminal      *)
(* state only, so that no report can put a submission back in the queue.    *)

GoodTable(t, n) ==
  /\ \A c \in Captures : Present(t, c) => t[c].id = c /\ t[c].req <= n
  /\ \A c, d \in Captures :
       Present(t, c) /\ Present(t, d) /\ t[c].req = t[d].req => c = d

GoodCopies ==
  \A w \in Workers :
    HasJob(w) =>
      /\ copy[w].req <= subs
      /\ \A c \in Captures :
           Present(jobs, c) /\ jobs[c].req = copy[w].req => copy[w].id = c
      /\ pc[w] = "report" => copy[w].state \in Terminal

ClaimInv == /\ GoodTable(jobs, subs) /\ GoodTable(disk.jobs, subs)
            /\ GoodCopies /\ ClaimedOnce

LEMMA ClaimInit == Init => ClaimInv
BY DEF Init, ClaimInv, GoodTable, GoodCopies, ClaimedOnce, EmptyTable, Present,
       IsQueued, HasJob

\* The file holds memory's table or what it held before.
LEMMA DiskStep ==
  ASSUME GoodTable(jobs', subs'), GoodTable(disk.jobs, subs),
         Write \/ UNCHANGED disk,
         TypeOK, subs' \in Nat, subs <= subs'
  PROVE  GoodTable(disk'.jobs, subs')
<1>1. CASE disk'.jobs = jobs' BY <1>1
<1>2. CASE disk' = disk
  <2>1. \A c \in Captures : Present(disk.jobs, c) => disk.jobs[c].req \in Nat
    BY RecordType DEF TypeOK, Job
  <2> QED BY <1>2, <2>1 DEF GoodTable, TypeOK
<1> QED BY <1>1, <1>2 DEF Write, WriteOk, WriteFails

\* A step that takes records away or leaves them, and hands out no job.
LEMMA QuietStep ==
  ASSUME TypeOK, TypeOK', ClaimInv,
         \A c \in Captures : Present(jobs', c) => jobs'[c] = jobs[c] /\ Present(jobs, c),
         Write \/ UNCHANGED disk,
         UNCHANGED subs,
         \A w \in Workers :
           HasJob(w)' => /\ HasJob(w) /\ copy'[w].req = copy[w].req
                         /\ copy'[w].id = copy[w].id
                         /\ pc'[w] = "report" =>
                              copy'[w].state \in Terminal
  PROVE  ClaimInv'
<1>1. GoodTable(jobs', subs') BY DEF ClaimInv, GoodTable
<1>2. GoodTable(disk'.jobs, subs')
  BY <1>1, DiskStep DEF ClaimInv, TypeOK
<1>3. GoodCopies' BY DEF GoodCopies, ClaimInv
<1>4. ClaimedOnce' BY DEF ClaimedOnce, ClaimInv, IsQueued, Present
<1> QED BY <1>1, <1>2, <1>3, <1>4 DEF ClaimInv

LEMMA ClaimSubmit ==
  ASSUME TypeOK, TypeOK', ClaimInv, NEW c \in Captures, NEW force,
         Submit(c, force)
  PROVE  ClaimInv'
<1>1. /\ subs' = subs + 1 /\ UNCHANGED <<pc, copy>> /\ Write
      /\ jobs' = SubmitJob(jobs, c, subs + 1, clock)
  BY DEF Submit, workVars
<1>2. /\ jobs'[c].id = c /\ jobs'[c].req = subs + 1
      /\ \A d \in Captures : d # c => jobs'[d] = jobs[d]
  BY <1>1 DEF SubmitJob, TypeOK, Tables
<1>3. \A d \in Captures : Present(jobs, d) =>
        jobs[d].req \in Nat /\ jobs[d].req <= subs
  BY RecordType DEF ClaimInv, GoodTable, TypeOK, Job
<1>4. GoodTable(jobs', subs')
  BY <1>1, <1>2, <1>3 DEF GoodTable, ClaimInv, Present, TypeOK
<1>5. GoodTable(disk'.jobs, subs')
  BY <1>1, <1>4, DiskStep DEF ClaimInv, TypeOK
<1>6. \A w \in Workers : HasJob(w) =>
        copy[w].req \in Nat /\ copy[w].req <= subs
  BY DEF ClaimInv, GoodCopies, TypeOK, HasJob, Job
<1>7. GoodCopies'
  <2>1. ASSUME NEW w \in Workers, HasJob(w), NEW d \in Captures,
               Present(jobs', d), jobs'[d].req = copy[w].req
        PROVE  copy[w].id = d
    <3>1. d # c BY <1>2, <1>6, <2>1 DEF TypeOK
    <3> QED BY <1>2, <2>1, <3>1 DEF Present, ClaimInv, GoodCopies
  <2>2. \A w \in Workers : HasJob(w) => copy[w].req <= subs'
    BY <1>1, <1>6 DEF TypeOK
  <2> QED BY <1>1, <2>1, <2>2 DEF GoodCopies, ClaimInv, HasJob
<1>8. ClaimedOnce'
  <2>1. ASSUME NEW d \in Captures, NEW w \in Workers, IsQueued(jobs', d),
               HasJob(w)
        PROVE  copy[w].req # jobs'[d].req
    <3>1. CASE d = c BY <1>2, <1>6, <2>1, <3>1 DEF TypeOK
    <3>2. CASE d # c
      BY <1>2, <2>1, <3>2 DEF ClaimInv, ClaimedOnce, IsQueued
    <3> QED BY <3>1, <3>2
  <2> QED BY <1>1, <2>1 DEF ClaimedOnce, ClaimInv, HasJob
<1> QED BY <1>4, <1>5, <1>7, <1>8 DEF ClaimInv

LEMMA ClaimClaim ==
  ASSUME TypeOK, TypeOK', CopyOK, ClaimInv, NEW w \in Workers,
         NEW c \in Captures, Claim(w, c)
  PROVE  ClaimInv'
<1>1. /\ jobs' = MarkRunning(jobs, c, clock) /\ Write /\ UNCHANGED subs
      /\ IsQueued(jobs, c) /\ pc[w] = "claim"
      /\ copy' = [copy EXCEPT ![w] = jobs'[c]]
      /\ pc' = [pc EXCEPT ![w] = "start"]
  BY DEF Claim, restVars, boundVars, IsNextQueued, Goto
<1>2. jobs \in Tables /\ clock \in Nat /\ Present(jobs, c)
  BY <1>1 DEF IsQueued, Present, TypeOK
<1>3. /\ jobs'[c].req = jobs[c].req /\ jobs'[c].id = jobs[c].id
      /\ jobs'[c].state = "running" /\ jobs'[c] \in Job
  BY <1>1, <1>2, MarkRunningType
<1>4. \A d \in Captures : d # c => jobs'[d] = jobs[d]
  BY <1>1 DEF MarkRunning, TypeOK, Tables
<1>5. Present(jobs, c) BY <1>1 DEF IsQueued, Present
<1>6. GoodTable(jobs', subs')
  BY <1>1, <1>3, <1>4, <1>5 DEF GoodTable, ClaimInv, Present
<1>7. GoodTable(disk'.jobs, subs')
  BY <1>1, <1>6, DiskStep DEF ClaimInv, TypeOK
<1>8. /\ copy'[w] = jobs'[c] /\ pc'[w] = "start"
      /\ \A v \in Workers : v # w => copy'[v] = copy[v] /\ pc'[v] = pc[v]
  BY <1>1 DEF TypeOK
<1>9. jobs[c].id = c /\ jobs[c].req <= subs
  BY <1>5 DEF ClaimInv, GoodTable
<1>10. \A v \in Workers : HasJob(v) => copy[v].req # jobs[c].req
  BY <1>1 DEF ClaimInv, ClaimedOnce
<1>11. \A d \in Captures :
         Present(jobs', d) => Present(jobs, d) /\ jobs'[d].req = jobs[d].req
  BY <1>3, <1>4, <1>5 DEF Present
<1>12. GoodCopies'
  <2>1. ASSUME NEW v \in Workers, HasJob(v)', v # w
        PROVE  /\ copy'[v].req <= subs'
               /\ \A d \in Captures :
                    Present(jobs', d) /\ jobs'[d].req = copy'[v].req =>
                      copy'[v].id = d
               /\ pc'[v] = "report" => copy'[v].state \in Terminal
    BY <1>1, <1>8, <1>11, <2>1 DEF ClaimInv, GoodCopies, HasJob
  <2>2. /\ copy'[w].req <= subs'
        /\ \A d \in Captures :
             Present(jobs', d) /\ jobs'[d].req = copy'[w].req =>
               copy'[w].id = d
    BY <1>1, <1>3, <1>5, <1>8, <1>9, <1>11 DEF ClaimInv, GoodTable
  <2> QED BY <1>8, <2>1, <2>2 DEF GoodCopies
<1>13. ClaimedOnce'
  <2>1. ASSUME NEW u \in Workers, NEW v \in Workers, u # v, HasJob(u)',
               HasJob(v)'
        PROVE  copy'[u].req # copy'[v].req
    BY <1>3, <1>8, <1>10, <2>1 DEF ClaimInv, ClaimedOnce, HasJob
  <2>2. ASSUME NEW d \in Captures, NEW v \in Workers, IsQueued(jobs', d),
               HasJob(v)'
        PROVE  copy'[v].req # jobs'[d].req
    <3>1. d # c BY <1>3, <2>2 DEF IsQueued
    <3>2. IsQueued(jobs, d) /\ Present(jobs, d)
      BY <1>4, <2>2, <3>1 DEF IsQueued, Present
    <3>3. CASE v = w
      BY <1>3, <1>4, <1>5, <1>8, <3>1, <3>2, <3>3 DEF ClaimInv, GoodTable
    <3>4. CASE v # w
      BY <1>4, <1>8, <2>2, <3>1, <3>2, <3>4 DEF ClaimInv, ClaimedOnce, HasJob
    <3> QED BY <3>3, <3>4
  <2> QED BY <2>1, <2>2 DEF ClaimedOnce
<1> QED BY <1>6, <1>7, <1>12, <1>13 DEF ClaimInv

LEMMA ClaimReport ==
  ASSUME TypeOK, TypeOK', CopyOK, ClaimInv, NEW w \in Workers, Report(w)
  PROVE  ClaimInv'
<1> DEFINE c == copy[w].id
<1>1. /\ pc[w] = "report" /\ UNCHANGED <<copy, subs>>
      /\ pc' = [pc EXCEPT ![w] = "finish"]
  BY DEF Report, restVars, boundVars, Goto
<1>2. /\ copy[w] \in Job /\ c \in Captures /\ copy[w].state \in Terminal
      /\ HasJob(w)
  BY <1>1, CopyType DEF WorkingPCs, PCs, ClaimInv, GoodCopies, CopyOK
<1>3. CASE ~Present(jobs, c)
  BY <1>1, <1>3, QuietStep
     DEF Report, HasJob, ClaimInv, GoodCopies, TypeOK
<1>4. CASE Present(jobs, c)
  <2>1. jobs' = UpdateJob(jobs, copy[w], clock) /\ Write
    BY <1>4 DEF Report
  <2>2. jobs'[c] = [copy[w] EXCEPT !.created = jobs[c].created,
                                   !.updated = clock]
    BY <1>2, <2>1 DEF UpdateJob, TypeOK, Tables
  <2>3. /\ jobs'[c].req = copy[w].req /\ jobs'[c].id = c
        /\ jobs'[c].state \in Terminal
    BY <1>2, <2>2 DEF Job
  <2>4. \A d \in Captures : d # c => jobs'[d] = jobs[d]
    BY <2>1 DEF UpdateJob, TypeOK, Tables
  <2>5. GoodTable(jobs', subs')
    <3>1. ASSUME NEW d \in Captures, Present(jobs', d)
          PROVE  jobs'[d].id = d /\ jobs'[d].req <= subs'
      BY <1>1, <1>2, <2>3, <2>4, <3>1
         DEF ClaimInv, GoodTable, GoodCopies, Present
    <3>2. ASSUME NEW d \in Captures, Present(jobs', d), d # c
          PROVE  jobs'[d].req # jobs'[c].req
      BY <1>2, <2>3, <2>4, <3>2 DEF ClaimInv, GoodCopies, Present
    <3> HIDE DEF c
    <3>3. \A d, e \in Captures :
            Present(jobs', d) /\ Present(jobs', e)
            /\ jobs'[d].req = jobs'[e].req => d = e
      <4>1. ASSUME NEW d \in Captures, NEW e \in Captures, d # c, e # c,
                   Present(jobs', d), Present(jobs', e),
                   jobs'[d].req = jobs'[e].req
            PROVE  d = e
        BY <2>4, <4>1 DEF ClaimInv, GoodTable, Present
      <4> QED BY <3>2, <4>1
    <3> QED BY <3>1, <3>3 DEF GoodTable
  <2>6. GoodTable(disk'.jobs, subs')
    BY <1>1, <2>1, <2>5, DiskStep DEF ClaimInv, TypeOK
  <2>7. GoodCopies'
    <3>1. ASSUME NEW v \in Workers, HasJob(v), NEW d \in Captures,
                 Present(jobs', d), jobs'[d].req = copy[v].req
          PROVE  copy[v].id = d
      <4>1. CASE d # c
        BY <2>4, <3>1, <4>1 DEF ClaimInv, GoodCopies, Present
      <4>2. CASE d = c
        BY <1>2, <2>3, <3>1, <4>2 DEF ClaimInv, ClaimedOnce
      <4> QED BY <4>1, <4>2
    <3>2. \A v \in Workers : pc'[v] = "report" => pc[v] = "report"
      BY <1>1 DEF TypeOK
    <3> QED BY <1>1, <3>1, <3>2 DEF GoodCopies, ClaimInv, HasJob
  <2>8. ClaimedOnce'
    <3>1. \A d \in Captures : IsQueued(jobs', d) =>
            d # c /\ IsQueued(jobs, d) /\ jobs'[d] = jobs[d]
      BY <2>3, <2>4 DEF IsQueued, Terminal
    <3> QED BY <1>1, <3>1 DEF ClaimedOnce, ClaimInv, HasJob
  <2> QED BY <2>5, <2>6, <2>7, <2>8 DEF ClaimInv
<1> QED BY <1>3, <1>4

LEMMA ClaimStep == Types /\ Types' /\ ClaimInv /\ [Next]_vars => ClaimInv'
<1> SUFFICES ASSUME Types, Types', ClaimInv, [Next]_vars PROVE ClaimInv'
  OBVIOUS
<1> USE DEF Types
<1>1. ASSUME NEW h \in Handlers, NEW c \in Captures, Delete(h, c)
      PROVE  ClaimInv'
  <2>1. \A d \in Captures : Present(jobs', d) =>
          jobs'[d] = jobs[d] /\ Present(jobs, d)
    BY <1>1 DEF Delete, DeleteJob, Present, TypeOK, Tables
  <2>2. (Write \/ UNCHANGED disk) /\ UNCHANGED <<subs, pc, copy>>
    BY <1>1 DEF Delete, Write, workVars, boundVars
  <2> QED BY <2>1, <2>2, QuietStep DEF HasJob, ClaimInv, GoodCopies
<1>2. ASSUME Sweep PROVE ClaimInv'
  <2>1. \A d \in Captures : Present(jobs', d) =>
          jobs'[d] = jobs[d] /\ Present(jobs, d)
    BY <1>2 DEF Sweep, Without, Present
  <2>2. (Write \/ UNCHANGED disk) /\ UNCHANGED <<subs, pc, copy>>
    BY <1>2 DEF Sweep, workVars, boundVars
  <2> QED BY <2>1, <2>2, QuietStep DEF HasJob, ClaimInv, GoodCopies
<1>3. ASSUME NEW a, NEW b, SaveSettings(a, b) PROVE ClaimInv'
  <2>1. UNCHANGED <<jobs, subs, pc, copy>> /\ Write
    BY <1>3 DEF SaveSettings, workVars
  <2> QED BY <2>1, QuietStep DEF HasJob, ClaimInv, GoodCopies
<1>4. ASSUME Removal \/ ReadRetention \/ Tick \/ UNCHANGED vars
      PROVE  ClaimInv'
  <2>1. UNCHANGED <<jobs, disk, subs, pc, copy>>
    BY <1>4 DEF Removal, RemoveFile, ReadRetention, Tick, vars, storeVars,
       workVars, boundVars
  <2> QED BY <2>1, QuietStep DEF HasJob, ClaimInv, GoodCopies
<1>5. ASSUME Restart PROVE ClaimInv'
  <2>1. /\ jobs' = disk.jobs /\ disk' = disk /\ subs' = subs
        /\ \A w \in Workers : ~HasJob(w)'
    BY <1>5 DEF Restart, HasJob
  <2> QED BY <2>1 DEF ClaimInv, GoodCopies, ClaimedOnce
<1>6. ASSUME NEW w \in Workers, Gate(w) \/ Wake(w),
             \A c \in Captures : ~Claim(w, c)
      PROVE  ClaimInv'
  <2>1. UNCHANGED <<jobs, disk, subs, copy>>
    BY <1>6 DEF Gate, Poll, Admit, Refuse, NothingQueued, Release, Wake,
       storeVars, restVars, boundVars
  <2>2. \A v \in Workers : pc'[v] = "report" => pc[v] = "report"
    BY <1>6 DEF Gate, Poll, Admit, Refuse, NothingQueued, Release, Wake, Goto,
       TypeOK
  <2> QED BY <2>1, <2>2, QuietStep DEF HasJob, ClaimInv, GoodCopies
<1>7. ASSUME NEW w \in Workers, Produce(w), ~Report(w) PROVE ClaimInv'
  <2>1. UNCHANGED <<jobs, subs>> /\ (Write \/ UNCHANGED disk)
    BY <1>7 DEF Produce, StartLog, NoServer, Resolve, OpenOutput,
       OutputNotOpened, OutputEnds, Inspect, DropClip, DropStill, Finish, Exit,
       storeVars, restVars, boundVars
  <2>2. \A v \in Workers : v # w => copy'[v] = copy[v] /\ pc'[v] = pc[v]
    BY <1>7 DEF Produce, StartLog, NoServer, Resolve, OpenOutput,
       OutputNotOpened, OutputEnds, AfterOutput, Inspect, DropClip, DropStill,
       Finish, Exit, Fail, Decide, Goto, TypeOK
  <2>3. HasJob(w)' => /\ HasJob(w) /\ copy'[w].req = copy[w].req
                      /\ copy'[w].id = copy[w].id
                      /\ pc'[w] = "report" => copy'[w].state \in Terminal
    <3>1. ASSUME NEW s \in Terminal, Decide(w, s)
          PROVE  /\ copy'[w] = [copy[w] EXCEPT !.state = s]
      BY <3>1 DEF Decide, TypeOK
    <3>2. ASSUME NEW s \in Terminal, Decide(w, s), pc[w] \in WorkingPCs
          PROVE  /\ HasJob(w) /\ copy'[w].req = copy[w].req
                 /\ copy'[w].id = copy[w].id /\ copy'[w].state \in Terminal
      <4>1. copy[w] \in Job BY <3>2, CopyType
      <4> QED BY <3>1, <3>2, <4>1 DEF CopyOK, Job
    <3>3. \/ UNCHANGED copy /\ pc'[w] # "report"
          \/ copy'[w] = NoJob
          \/ pc[w] \in WorkingPCs /\ \E s \in Terminal : Decide(w, s)
      BY <1>7 DEF Produce, StartLog, NoServer, Resolve, OpenOutput,
         OutputNotOpened, OutputEnds, AfterOutput, Inspect, DropClip,
         DropStill, Finish, Exit, Fail, Goto, TypeOK, WorkingPCs, PCs, Kinds,
         Writing, Terminal
    <3> QED BY <3>2, <3>3 DEF HasJob
  <2> QED
    <3>1. \A v \in Workers :
            HasJob(v)' => /\ HasJob(v) /\ copy'[v].req = copy[v].req
                          /\ copy'[v].id = copy[v].id
                          /\ pc'[v] = "report" => copy'[v].state \in Terminal
      BY <2>2, <2>3 DEF HasJob, ClaimInv, GoodCopies
    <3> QED BY <2>1, <3>1, QuietStep
<1> QED
  BY <1>1, <1>2, <1>3, <1>4, <1>5, <1>6, <1>7, ClaimSubmit, ClaimClaim,
     ClaimReport DEF Next, Requests, SetMaxConcurrentJobs, SetRetentionHours,
                     Work, Gate

\* No submission is in two hands at once: neither in two workers', nor in a
\* worker's while it is queued.
THEOREM ClaimsExclusive == Spec => []ClaimedOnce
<1>1. ClaimInv => ClaimedOnce BY DEF ClaimInv
<1> QED BY <1>1, ClaimInit, ClaimStep, TypesInvariant, PTL DEF Spec

-----------------------------------------------------------------------------
(* What one worker does to its own job and to nobody else's.               *)

\* A step of process other than the report, and what survives of the copy.
LEMMA ProduceFrame ==
  ASSUME TypeOK, CopyOK, NEW w \in Workers, Produce(w), ~Report(w)
  PROVE  /\ UNCHANGED <<jobs, crashes>>
         /\ \A v \in Workers : v # w => copy'[v] = copy[v] /\ pc'[v] = pc[v]
         /\ Processing(w) => /\ Processing(w)' /\ HasJob(w)'
                             /\ copy'[w].id = copy[w].id
                             /\ copy'[w].req = copy[w].req
                             /\ pc'[w] # "start"
<1>1. UNCHANGED <<jobs, crashes>>
  BY DEF Produce, StartLog, NoServer, Resolve, OpenOutput, OutputNotOpened,
     OutputEnds, Inspect, DropClip, DropStill, Finish, Exit, storeVars,
     restVars, boundVars
<1>2. \A v \in Workers : v # w => copy'[v] = copy[v] /\ pc'[v] = pc[v]
  BY DEF Produce, StartLog, NoServer, Resolve, OpenOutput, OutputNotOpened,
     OutputEnds, AfterOutput, Inspect, DropClip, DropStill, Finish, Exit, Fail,
     Decide, Goto, TypeOK
<1>3. ASSUME Processing(w)
      PROVE  /\ Processing(w)' /\ HasJob(w)'
             /\ copy'[w].id = copy[w].id /\ copy'[w].req = copy[w].req
             /\ pc'[w] # "start"
  <2>1. pc[w] \in WorkingPCs BY <1>3 DEF Processing, WorkingPCs, PCs
  <2>2. copy[w] \in Job /\ HasJob(w) BY <2>1, CopyType DEF CopyOK
  <2>3. ASSUME NEW s \in Terminal, Decide(w, s)
        PROVE  /\ copy'[w] \in Job /\ copy'[w].id = copy[w].id
               /\ copy'[w].req = copy[w].req /\ pc'[w] = "report"
    <3>1. copy'[w] = [copy[w] EXCEPT !.state = s] /\ pc'[w] = "report"
      BY <2>3 DEF Decide, Goto, TypeOK
    <3> QED BY <2>2, <3>1 DEF Job, States, Terminal
  <2>4. \/ UNCHANGED copy /\ pc'[w] \in PCs \ {"poll", "gate", "claim",
             "release", "sleep", "finish", "exit", "start"}
        \/ \E s \in Terminal : Decide(w, s)
    BY <1>3 DEF Produce, StartLog, NoServer, Resolve, OpenOutput,
       OutputNotOpened, OutputEnds, AfterOutput, Inspect, DropClip, DropStill,
       Finish, Exit, Fail, Goto, TypeOK, Processing, PCs, Kinds, Writing,
       Terminal
  <2> QED BY <2>2, <2>3, <2>4, NoJobAssumption
          DEF Processing, PCs, HasJob
<1> QED BY <1>1, <1>2, <1>3

\* A worker in the gate is not processing anything, before or after, unless
\* it claims.
LEMMA GateFrame ==
  ASSUME TypeOK, NEW w \in Workers, Gate(w) \/ Wake(w),
         \A c \in Captures : ~Claim(w, c)
  PROVE  /\ UNCHANGED <<jobs, crashes, copy, logs>> /\ ~Processing(w)
         /\ pc'[w] # "start"
         /\ \A v \in Workers : v # w => pc'[v] = pc[v]
BY DEF Gate, Poll, Admit, Refuse, NothingQueued, Release, Wake, Goto, TypeOK,
       Processing, storeVars, restVars, boundVars

LEMMA RunningStep ==
  Types /\ ClaimInv /\ RunningIsWorkedOn /\ [Next]_vars => RunningIsWorkedOn'
<1> SUFFICES ASSUME Types, ClaimInv, RunningIsWorkedOn, [Next]_vars,
                    crashes' = 0, NEW c \in Captures, IsRunning(jobs', c)
             PROVE  \E w \in Workers :
                      /\ Processing(w)' /\ copy'[w].id = c
                      /\ copy'[w].req = jobs'[c].req
  BY DEF RunningIsWorkedOn
<1> DEFINE Held == \E w \in Workers : /\ Processing(w) /\ copy[w].id = c
                                      /\ copy[w].req = jobs[c].req
<1> USE DEF Types
<1>1. ASSUME IsRunning(jobs, c), crashes = 0 PROVE Held
  BY <1>1 DEF RunningIsWorkedOn
<1>2. ASSUME \/ Requests \/ Removal \/ ReadRetention \/ Sweep \/ Tick
             \/ UNCHANGED vars
      PROVE  \E w \in Workers : /\ Processing(w)' /\ copy'[w].id = c
                                /\ copy'[w].req = jobs'[c].req
  <2>1. UNCHANGED <<pc, copy, crashes>>
    BY <1>2 DEF Requests, Removal, Submit, Delete, SetMaxConcurrentJobs,
       SetRetentionHours, SaveSettings, RemoveFile, ReadRetention, Sweep, Tick,
       workVars, boundVars, vars
  <2>2. jobs'[c] = jobs[c]
    <3>1. ASSUME NEW d \in Captures, NEW force, Submit(d, force)
          PROVE  jobs'[c] = jobs[c]
      <4>1. jobs' = SubmitJob(jobs, d, subs + 1, clock)
        BY <3>1 DEF Submit
      <4>2. jobs'[d].state = "queued"
        BY <4>1 DEF SubmitJob, TypeOK, Tables
      <4> QED BY <4>1, <4>2 DEF SubmitJob, TypeOK, Tables, IsRunning
    <3>2. ASSUME NEW h, NEW d, Delete(h, d) PROVE jobs'[c] = jobs[c]
      BY <3>2 DEF Delete, DeleteJob, IsRunning, TypeOK, Tables
    <3>3. ASSUME Sweep PROVE jobs'[c] = jobs[c]
      BY <3>3 DEF Sweep, Without, IsRunning
    <3> QED BY <1>2, <3>1, <3>2, <3>3
            DEF Requests, Removal, SetMaxConcurrentJobs, SetRetentionHours,
                SaveSettings, RemoveFile, ReadRetention, Tick, storeVars, vars
  <2> QED BY <1>1, <2>1, <2>2 DEF IsRunning, Processing
<1>3. ASSUME Restart PROVE FALSE
  BY <1>3 DEF Restart, TypeOK
<1>4. ASSUME NEW w \in Workers, NEW d \in Captures, Claim(w, d)
      PROVE  \E v \in Workers : /\ Processing(v)' /\ copy'[v].id = c
                                /\ copy'[v].req = jobs'[c].req
  <2>1. /\ pc[w] = "claim" /\ pc'[w] = "start" /\ copy'[w] = jobs'[d]
        /\ crashes' = crashes
        /\ \A v \in Workers : v # w => copy'[v] = copy[v] /\ pc'[v] = pc[v]
        /\ \A e \in Captures : e # d => jobs'[e] = jobs[e]
        /\ Present(jobs, d)
    BY <1>4 DEF Claim, Goto, TypeOK, restVars, boundVars, MarkRunning, Tables,
       IsNextQueued, IsQueued, Present
  <2>2. CASE c = d
    <3>1. jobs'[d].id = d
      BY <1>4, <2>1, MarkRunningType DEF Claim, ClaimInv, GoodTable, TypeOK
    <3> QED BY <2>1, <2>2, <3>1 DEF Processing, PCs
  <2>3. CASE c # d
    <3>1. Held BY <1>1, <2>1, <2>3 DEF IsRunning
    <3>2. PICK v \in Workers : /\ Processing(v) /\ copy[v].id = c
                               /\ copy[v].req = jobs[c].req
      BY <3>1
    <3>3. v # w BY <2>1, <3>2 DEF Processing
    <3> QED BY <2>1, <2>3, <3>2, <3>3 DEF Processing
  <2> QED BY <2>2, <2>3
<1>5. ASSUME NEW w \in Workers, Gate(w) \/ Wake(w),
             \A d \in Captures : ~Claim(w, d)
      PROVE  \E v \in Workers : /\ Processing(v)' /\ copy'[v].id = c
                                /\ copy'[v].req = jobs'[c].req
  <2>1. Held BY <1>1, <1>5, GateFrame DEF IsRunning
  <2>2. PICK v \in Workers : /\ Processing(v) /\ copy[v].id = c
                             /\ copy[v].req = jobs[c].req
    BY <2>1
  <2>3. v # w BY <1>5, <2>2, GateFrame
  <2> QED BY <1>5, <2>2, <2>3, GateFrame DEF Processing
<1>6. ASSUME NEW w \in Workers, Report(w)
      PROVE  \E v \in Workers : /\ Processing(v)' /\ copy'[v].id = c
                                /\ copy'[v].req = jobs'[c].req
  <2>1. /\ pc[w] = "report" /\ UNCHANGED <<copy, crashes>>
        /\ \A v \in Workers : v # w => pc'[v] = pc[v]
    BY <1>6 DEF Report, Goto, TypeOK, restVars, boundVars
  <2>2. copy[w] \in Job /\ copy[w].state \in Terminal
    BY <2>1, CopyType DEF WorkingPCs, PCs, ClaimInv, GoodCopies, CopyOK
  <2>3. copy[w].id # c /\ jobs'[c] = jobs[c]
    <3>1. CASE ~Present(jobs, copy[w].id)
      BY <1>6, <3>1 DEF Report, IsRunning, Present
    <3>2. CASE Present(jobs, copy[w].id)
      <4>1. jobs' = UpdateJob(jobs, copy[w], clock)
        BY <1>6, <3>2 DEF Report
      <4>2. copy[w].id = c => jobs'[c].state = copy[w].state
        BY <2>2, <4>1 DEF UpdateJob, TypeOK, Tables, Job
      <4> QED BY <2>2, <4>1, <4>2
              DEF UpdateJob, TypeOK, Tables, IsRunning, Terminal
    <3> QED BY <3>1, <3>2
  <2>4. PICK v \in Workers : /\ Processing(v) /\ copy[v].id = c
                             /\ copy[v].req = jobs[c].req
    BY <1>1, <2>1, <2>3 DEF IsRunning
  <2>5. v # w BY <2>3, <2>4
  <2> QED BY <2>1, <2>3, <2>4, <2>5 DEF Processing
<1>7. ASSUME NEW w \in Workers, Produce(w), ~Report(w)
      PROVE  \E v \in Workers : /\ Processing(v)' /\ copy'[v].id = c
                                /\ copy'[v].req = jobs'[c].req
  <2>1. PICK v \in Workers : /\ Processing(v) /\ copy[v].id = c
                             /\ copy[v].req = jobs[c].req
    BY <1>1, <1>7, ProduceFrame DEF IsRunning
  <2> QED BY <1>7, <2>1, ProduceFrame DEF Processing
<1> QED BY <1>2, <1>3, <1>4, <1>5, <1>6, <1>7 DEF Next, Work, Gate

\* As long as the process has not been restarted, every record that says
\* "running" has its worker.
THEOREM RunningHasWorker == Spec => []RunningIsWorkedOn
<1>1. Init => RunningIsWorkedOn
  BY DEF Init, RunningIsWorkedOn, IsRunning, EmptyTable
<1> QED BY <1>1, RunningStep, ClaimInit, ClaimStep, TypesInvariant, PTL DEF Spec

LEMMA LogStep ==
  Types /\ LogOfAttempt /\ [Next]_vars => LogOfAttempt'
<1> SUFFICES ASSUME Types, LogOfAttempt, [Next]_vars,
                    NEW c \in Captures, logs'[c] # NoLog
             PROVE  /\ HasJob(logs[c])' /\ copy'[logs'[c]].id = c
                    /\ pc'[logs'[c]] # "start"
  BY DEF LogOfAttempt
<1> DEFINE Goal == /\ HasJob(logs[c])' /\ copy'[logs'[c]].id = c
                   /\ pc'[logs'[c]] # "start"
<1> USE DEF Types
<1>1. ASSUME logs[c] # NoLog
      PROVE  /\ HasJob(logs[c]) /\ copy[logs[c]].id = c
             /\ pc[logs[c]] # "start" /\ logs[c] \in Workers
             /\ pc[logs[c]] \in WorkingPCs
  BY <1>1 DEF LogOfAttempt, TypeOK, CopyOK
<1>2. ASSUME \/ Requests \/ Removal \/ ReadRetention \/ Sweep \/ Tick
             \/ UNCHANGED vars
      PROVE  Goal
  <2>1. UNCHANGED <<pc, copy, logs>>
    BY <1>2 DEF Requests, Removal, Submit, Delete, SetMaxConcurrentJobs,
       SetRetentionHours, SaveSettings, RemoveFile, ReadRetention, Sweep, Tick,
       workVars, vars
  <2> QED BY <1>1, <2>1 DEF HasJob
<1>3. ASSUME Restart PROVE Goal
  BY <1>3 DEF Restart
<1>4. ASSUME NEW w \in Workers, Gate(w) \/ Wake(w) PROVE Goal
  <2>1. /\ UNCHANGED logs /\ pc[w] \notin WorkingPCs
        /\ \A v \in Workers : v # w => copy'[v] = copy[v] /\ pc'[v] = pc[v]
    BY <1>4 DEF Gate, Poll, Admit, Refuse, Claim, NothingQueued, Release, Wake,
       Goto, TypeOK, WorkingPCs
  <2>2. logs[c] # w BY <1>1, <2>1
  <2> QED BY <1>1, <2>1, <2>2 DEF HasJob
<1>5. ASSUME NEW w \in Workers, StartLog(w) PROVE Goal
  <2>1. /\ copy' = copy /\ pc'[w] = "resolve" /\ HasJob(w)
        /\ logs' = [logs EXCEPT ![copy[w].id] = w]
        /\ \A v \in Workers : v # w => pc'[v] = pc[v]
    BY <1>5 DEF StartLog, Goto, TypeOK, CopyOK, WorkingPCs, PCs
  <2>2. CASE c = copy[w].id BY <2>1, <2>2 DEF HasJob, TypeOK
  <2>3. CASE c # copy[w].id
    <3>1. logs'[c] = logs[c] BY <2>1, <2>3 DEF TypeOK
    <3> QED BY <1>1, <2>1, <3>1 DEF HasJob
  <2> QED BY <2>2, <2>3
<1>6. ASSUME NEW w \in Workers, Finish(w) \/ Exit(w) PROVE Goal
  <2>1. /\ \A v \in Workers : v # w => pc'[v] = pc[v] /\ copy'[v] = copy[v]
        /\ logs'[c] = logs[c] /\ logs[c] # w
    BY <1>1, <1>6 DEF Finish, FinishLog, Exit, Goto, TypeOK, WorkingPCs
  <2> QED BY <1>1, <2>1 DEF HasJob
<1>7. ASSUME NEW w \in Workers, Produce(w), ~StartLog(w), ~Finish(w), ~Exit(w)
      PROVE  Goal
  <2>1. UNCHANGED logs
    BY <1>7 DEF Produce, NoServer, Resolve, OpenOutput, OutputNotOpened,
       OutputEnds, Inspect, DropClip, DropStill, Report
  <2>2. CASE Report(w)
    BY <1>1, <2>1, <2>2 DEF Report, Goto, TypeOK, HasJob
  <2>3. CASE ~Report(w)
    <3>1. Processing(w)
      BY <1>7, <2>3 DEF Produce, NoServer, Resolve, OpenOutput,
         OutputNotOpened, OutputEnds, Inspect, DropClip, DropStill, Processing,
         PCs, Kinds, Writing
    <3> QED BY <1>1, <1>7, <2>1, <2>3, <3>1, ProduceFrame DEF HasJob
  <2> QED BY <2>2, <2>3
<1> QED BY <1>2, <1>3, <1>4, <1>5, <1>6, <1>7 DEF Next, Work, Produce

\* No live log outlives the attempt that registered it.
THEOREM LogsAreOfAttempts == Spec => []LogOfAttempt
<1>1. Init => LogOfAttempt BY DEF Init, LogOfAttempt
<1> QED BY <1>1, LogStep, TypesInvariant, PTL DEF Spec

-----------------------------------------------------------------------------
(* The refinement of JobLifecycle, and the invariants about media files it *)
(* rests on.  Everything from here to the theorems is about one capture c  *)
(* that nobody disturbed, as long as the store file could be written       *)
(* (Promised).                                                             *)

\* Worker w is working on c.
On(w, c) == Processing(w) /\ copy[w].id = c

\* w's ffmpeg alone has the file open, and only its output is in it.
Opened(c, k, w) ==
  LET f == media[<<c, k>>] IN
  f # NoFile /\ f.by = {copy[w].req} /\ f.open = {w}

\* Whoever works on c works on the submission the record describes.
Fresh(c) == \A w \in Workers :
              On(w, c) => IsRunning(jobs, c) /\ jobs[c].req = copy[w].req

\* What the worker has made so far.
Progress(c) ==
  \A w \in Workers : On(w, c) =>
    /\ pc[w] = "stilling" => Opened(c, "still", w)
    /\ pc[w] \in {"clip", "clipping", "inspect"} => Intact(c, "still", copy[w].req)
    /\ pc[w] = "clipping" => Opened(c, "clip", w)
    /\ pc[w] = "inspect" => Intact(c, "clip", copy[w].req)
    /\ pc[w] = "report" /\ copy[w].state = "done" =>
         \A k \in Kinds : Intact(c, k, copy[w].req)

DoneServes(c) == IsDone(jobs, c) => \A k \in Kinds : Intact(c, k, jobs[c].req)

\* Without a record, what is left of its files is about to be removed; and
\* nothing else is.
Left(c) == ~Present(jobs, c) =>
             \A k \in Kinds : \/ media[<<c, k>>] = NoFile
                              \/ \E h \in Removers : <<c, k>> \in todo[h]
Doomed(c) == Removing(c) => ~Present(jobs, c)

Calm(c) == Fresh(c) /\ Progress(c) /\ DoneServes(c) /\ Left(c) /\ Doomed(c)

\* Between two writes that succeed, the file holds what memory holds; and
\* the sweep has removed the last one's files before it starts again.
DiskCurrent == faults = 0 => disk.jobs = jobs
SweepClear  == hours > 0 => todo[Reaper] = {}

LifeInv == /\ DiskCurrent /\ SweepClear
           /\ \A c \in Captures : Promised(c) => Calm(c)

Ctx == Types /\ Types' /\ ClaimInv /\ LifeInv

-----------------------------------------------------------------------------
(* What one step may do to the record.                                     *)

Asked(c)  == jobs'[c] # NoJob /\ jobs'[c].state = "queued" /\ jobs'[c].req = subs + 1
Starts(c) == IsQueued(jobs, c) /\ jobs'[c] # NoJob /\ jobs'[c].state = "running"
             /\ jobs'[c].req = jobs[c].req
Ended(c)  == IsRunning(jobs, c) /\ jobs'[c] # NoJob /\ jobs'[c].state \in Terminal
             /\ jobs'[c].req = jobs[c].req
Goes(c)   == /\ Present(jobs, c) /\ jobs'[c] = NoJob
             /\ \/ jobs[c].state \in Terminal
                \/ \E h \in Handlers : todo'[h] = {c} \X Kinds /\ todo[h] = {}
Moves(c)  == jobs'[c] = jobs[c] \/ Asked(c) \/ Starts(c) \/ Ended(c) \/ Goes(c)

LEMMA WriteOrFault ==
  ASSUME faults \in Nat, Write, faults' = 0
  PROVE  WriteOk
BY DEF Write, WriteFails

\* Once the promise has ended it is not given again.
LEMMA PromiseEnds ==
  ASSUME TypeOK, [Next]_vars, NEW c \in Captures, Promised(c)'
  PROVE  Promised(c)
<1>1. faults' = faults \/ WriteFails
  BY DEF Next, Requests, Submit, Delete, SetMaxConcurrentJobs, SetRetentionHours,
     SaveSettings, Removal, RemoveFile, ReadRetention, Sweep, Work, Gate, Wake,
     Produce, Poll, Admit, Refuse, Claim, NothingQueued, Release, StartLog,
     NoServer, Resolve, OpenOutput, OutputNotOpened, OutputEnds, Inspect,
     DropClip, DropStill, Report, Finish, Exit, Tick, Restart, Write, WriteOk,
     storeVars, vars
<1>2. disturbed \subseteq disturbed'
  BY DEF Next, Requests, Submit, Delete, SetMaxConcurrentJobs, SetRetentionHours,
     SaveSettings, Removal, RemoveFile, ReadRetention, Sweep, Work, Gate, Wake,
     Produce, Poll, Admit, Refuse, Claim, NothingQueued, Release, StartLog,
     NoServer, Resolve, OpenOutput, OutputNotOpened, OutputEnds, Inspect,
     DropClip, DropStill, Report, Finish, Exit, Tick, Restart, Disturb,
     restVars, boundVars, vars
<1> QED
  BY <1>1, <1>2 DEF Promised, WriteFails, TypeOK

\* At most one worker is on a capture.
LEMMA OnlyOneOn ==
  ASSUME TypeOK, CopyOK, ClaimInv, NEW c \in Captures, Fresh(c),
         NEW v \in Workers, NEW w \in Workers, On(v, c), On(w, c)
  PROVE  v = w
<1>1. HasJob(v) /\ HasJob(w)
  BY DEF On, Processing, CopyOK, WorkingPCs, PCs
<1>2. copy[v].req = copy[w].req
  BY DEF Fresh
<1> QED
  BY <1>1, <1>2 DEF ClaimInv, ClaimedOnce

\* A step that does not concern c.
LEMMA Elsewhere ==
  ASSUME NEW c \in Captures, Calm(c), jobs'[c] = jobs[c],
         \A w \in Workers :
           On(w, c)' => On(w, c) /\ pc'[w] = pc[w] /\ copy'[w] = copy[w],
         \A k \in Kinds : media'[<<c, k>>] = media[<<c, k>>],
         \A k \in Kinds, h \in Removers : <<c, k>> \in todo'[h] <=> <<c, k>> \in todo[h]
  PROVE  Calm(c)' /\ Moves(c)
<1>1. /\ IsRunning(jobs, c)' <=> IsRunning(jobs, c)
      /\ IsDone(jobs, c)' <=> IsDone(jobs, c)
      /\ Present(jobs, c)' <=> Present(jobs, c)
  BY DEF IsRunning, IsDone, Present
<1>2. /\ \A k \in Kinds : \A r : Intact(c, k, r)' <=> Intact(c, k, r)
      /\ \A k \in Kinds, w \in Workers :
           copy'[w] = copy[w] => (Opened(c, k, w)' <=> Opened(c, k, w))
  BY DEF Intact, Opened
<1>3. "still" \in Kinds /\ "clip" \in Kinds
  BY DEF Kinds
<1>4. Fresh(c)'
  BY <1>1 DEF Calm, Fresh
<1>5. Progress(c)'
  BY <1>2, <1>3 DEF Calm, Progress
<1>6. DoneServes(c)'
  BY <1>1, <1>2 DEF Calm, DoneServes
<1>7. Left(c)'
  BY <1>1 DEF Calm, Left
<1>8. Doomed(c)'
  BY <1>1 DEF Calm, Doomed, Removing
<1> QED
  BY <1>4, <1>5, <1>6, <1>7, <1>8 DEF Calm, Moves

\* A capture nobody works on, once it has a record that is not done and
\* nothing to be removed.
LEMMA NobodyOn ==
  ASSUME NEW c \in Captures, \A w \in Workers : ~On(w, c)',
         Present(jobs, c)', ~Removing(c)',
         IsDone(jobs, c)' => \A k \in Kinds : Intact(c, k, jobs[c].req)'
  PROVE  Calm(c)'
BY DEF Calm, Fresh, Progress, DoneServes, Left, Doomed

-----------------------------------------------------------------------------
(* The requests, the sweep and the removal of files.                       *)

LEMMA SubmitLife ==
  ASSUME Ctx, NEW c \in Captures, Promised(c)', Calm(c),
         NEW d \in Captures, NEW force \in BOOLEAN, Submit(d, force)
  PROVE  Calm(c)' /\ Moves(c)
<1>1. /\ jobs' = SubmitJob(jobs, d, subs + 1, clock) /\ Disturb({d})
      /\ UNCHANGED <<pc, copy, media, todo>>
  BY DEF Submit, workVars
<1>2. jobs \in Tables /\ subs + 1 \in Nat /\ clock \in Nat
  BY DEF Ctx, Types, TypeOK
<1>3. CASE d = c
  <2>1. ~Engaged(c)
    BY <1>1, <1>3 DEF Disturb, Promised
  <2>2. /\ jobs'[c] \in Job /\ jobs'[c].state = "queued" /\ jobs'[c].req = subs + 1
    BY <1>1, <1>2, <1>3, SubmitRecord DEF Stamped
  <2>3. Present(jobs, c)' /\ ~IsDone(jobs, c)'
    BY <2>2, NoJobAssumption DEF Present, IsDone
  <2>4. (\A w \in Workers : ~On(w, c)') /\ ~Removing(c)'
    BY <1>1, <2>1 DEF Engaged, On, Processing, Removing
  <2>5. Calm(c)'
    BY <2>3, <2>4, NobodyOn
  <2> QED
    BY <2>2, <2>3, <2>5 DEF Moves, Asked, Present
<1>4. CASE d # c
  <2>1. jobs'[c] = jobs[c]
    BY <1>1, <1>2, <1>4, SubmitRecord
  <2> QED
    BY <1>1, <2>1, Elsewhere DEF On, Processing
<1> QED
  BY <1>3, <1>4

LEMMA DeleteLife ==
  ASSUME Ctx, NEW c \in Captures, Promised(c)', Calm(c),
         NEW h \in Handlers, NEW d \in Captures, Delete(h, d)
  PROVE  Calm(c)' /\ Moves(c)
<1>1. /\ jobs' = DeleteJob(jobs, d) /\ Disturb({d}) /\ Present(jobs, d)
      /\ UNCHANGED <<pc, copy, media>> /\ todo[h] = {}
  BY DEF Delete, workVars
<1>2. todo' = [todo EXCEPT ![h] = {d} \X Kinds]
  <2>1. faults \in Nat /\ faults' = 0
    BY DEF Ctx, Types, TypeOK, Promised
  <2>2. ~WriteFails
    BY <2>1 DEF WriteFails
  <2> QED
    BY <2>2 DEF Delete, FilesOf
<1>3. /\ todo' = [todo EXCEPT ![h] = {d} \X Kinds]
      /\ jobs \in Tables /\ h \in Removers /\ DOMAIN todo = Removers
  BY <1>2 DEF Ctx, Types, TypeOK, Removers
<1>4. CASE d = c
  <2>1. ~Engaged(c)
    BY <1>1, <1>4 DEF Disturb, Promised
  <2>2. jobs'[c] = NoJob
    BY <1>1, <1>3, <1>4, DeletedRecord
  <2>3. \A w \in Workers : ~On(w, c)'
    BY <1>1, <2>1 DEF Engaged, On, Processing
  <2>4. todo'[h] = {c} \X Kinds
    BY <1>3, <1>4
  <2>5. \A k \in Kinds : <<c, k>> \in todo'[h]
    BY <2>4
  <2>6. Calm(c)'
    BY <1>3, <2>2, <2>3, <2>5
       DEF Calm, Fresh, Progress, DoneServes, Left, Doomed, Present, IsDone
  <2> QED
    BY <1>1, <1>4, <2>2, <2>4, <2>6 DEF Moves, Goes
<1>5. CASE d # c
  <2>1. jobs'[c] = jobs[c]
    BY <1>1, <1>3, <1>5, DeletedRecord
  <2>2. \A k \in Kinds, g \in Removers :
          <<c, k>> \in todo'[g] <=> <<c, k>> \in todo[g]
    <3>1. ASSUME NEW k \in Kinds, NEW g \in Removers
          PROVE  <<c, k>> \in todo'[g] <=> <<c, k>> \in todo[g]
      <4>1. CASE g = h
        <5>1. todo'[g] = {d} \X Kinds /\ todo[g] = {}
          BY <1>1, <1>3, <4>1
        <5>2. <<c, k>> \notin {d} \X Kinds
          BY <1>5
        <5> QED
          BY <5>1, <5>2
      <4>2. CASE g # h
        BY <1>3, <4>2
      <4> QED
        BY <4>1, <4>2
    <3> QED
      BY <3>1
  <2> QED
    BY <1>1, <2>1, <2>2, Elsewhere DEF On, Processing
<1> QED
  BY <1>4, <1>5

LEMMA RemoveLife ==
  ASSUME Ctx, NEW c \in Captures, Promised(c)', Calm(c),
         NEW h \in Removers, NEW d \in Captures, NEW k \in Kinds, RemoveFile(h, d, k)
  PROVE  Calm(c)' /\ Moves(c)
<1>1. /\ <<d, k>> \in todo[h] /\ UNCHANGED <<jobs, pc, copy>>
      /\ media' = [media EXCEPT ![<<d, k>>] = NoFile]
      /\ todo' = [todo EXCEPT ![h] = todo[h] \ {<<d, k>>}]
      /\ DOMAIN todo = Removers /\ DOMAIN media = Paths
  BY DEF RemoveFile, storeVars, workVars, Ctx, Types, TypeOK
<1>2. /\ \A p \in Paths : p # <<d, k>> => media'[p] = media[p]
      /\ <<d, k>> \in Paths /\ media'[<<d, k>>] = NoFile
      /\ \A g \in Removers, p \in Paths :
           p # <<d, k>> => (p \in todo'[g] <=> p \in todo[g])
  BY <1>1 DEF Paths
<1>3. \A e \in Captures, l \in Kinds : <<e, l>> \in Paths
  BY DEF Paths
<1>4. CASE d = c
  <2>1. Removing(c)
    BY <1>1, <1>4 DEF Removing
  <2>2. ~Present(jobs, c) /\ \A w \in Workers : ~On(w, c)
    BY <2>1 DEF Calm, Doomed, Fresh, IsRunning, Present
  <2>3. ~Present(jobs, c)' /\ \A w \in Workers : ~On(w, c)'
    BY <1>1, <2>2 DEF Present, On, Processing
  <2>4. Left(c)'
    <3>1. ASSUME NEW l \in Kinds
          PROVE  \/ media'[<<c, l>>] = NoFile
                 \/ \E g \in Removers : <<c, l>> \in todo'[g]
      <4>1. CASE l = k
        BY <1>2, <1>4, <4>1
      <4>2. CASE l # k
        <5>1. <<c, l>> # <<d, k>> /\ <<c, l>> \in Paths
          BY <4>2, <1>3
        <5>2. \/ media[<<c, l>>] = NoFile
              \/ \E g \in Removers : <<c, l>> \in todo[g]
          BY <2>2 DEF Calm, Left
        <5> QED
          BY <1>2, <5>1, <5>2
      <4> QED
        BY <4>1, <4>2
    <3> QED
      BY <3>1 DEF Left
  <2>5. Calm(c)'
    BY <2>3, <2>4 DEF Calm, Fresh, Progress, DoneServes, Doomed, IsDone, Present
  <2> QED
    BY <1>1, <2>5 DEF Moves
<1>5. CASE d # c
  <2>1. \A l \in Kinds : <<c, l>> # <<d, k>> /\ <<c, l>> \in Paths
    BY <1>3, <1>5
  <2> QED
    BY <1>1, <1>2, <2>1, Elsewhere DEF On, Processing
<1> QED
  BY <1>4, <1>5

LEMMA SweepLife ==
  ASSUME Ctx, NEW c \in Captures, Promised(c)', Calm(c), Sweep
  PROVE  Calm(c)' /\ Moves(c)
<1> DEFINE cut == Cutoff(hours)
<1>1. PICK E : E = Expired(jobs, cut)
  OBVIOUS
<1>2. /\ jobs' = Without(jobs, E) /\ Disturb(E)
      /\ todo' = [todo EXCEPT ![Reaper] = E \X Kinds]
      /\ UNCHANGED <<pc, copy, media>> /\ todo[Reaper] = {}
      /\ Reaper \in Removers /\ DOMAIN todo = Removers
  BY <1>1 DEF Sweep, workVars, FilesOf, Ctx, Types, TypeOK, LifeInv, SweepClear,
              Removers
<1>3. CASE c \in E
  <2>1. ~Engaged(c)
    BY <1>2, <1>3 DEF Disturb, Promised
  <2>2. jobs'[c] = NoJob /\ Present(jobs, c) /\ jobs[c].state \in Terminal
    BY <1>1, <1>2, <1>3 DEF Without, Expired, Present
  <2>3. \A w \in Workers : ~On(w, c)'
    BY <1>2, <2>1 DEF Engaged, On, Processing
  <2>4. \A k \in Kinds : <<c, k>> \in todo'[Reaper]
    BY <1>2, <1>3
  <2>5. Calm(c)'
    BY <1>2, <2>2, <2>3, <2>4
       DEF Calm, Fresh, Progress, DoneServes, Left, Doomed, Present, IsDone
  <2> QED
    BY <2>2, <2>5 DEF Moves, Goes
<1>4. CASE c \notin E
  <2>1. jobs'[c] = jobs[c]
    BY <1>2, <1>4 DEF Without
  <2>2. \A k \in Kinds, g \in Removers :
          <<c, k>> \in todo'[g] <=> <<c, k>> \in todo[g]
    <3>1. ASSUME NEW k \in Kinds, NEW g \in Removers
          PROVE  <<c, k>> \in todo'[g] <=> <<c, k>> \in todo[g]
      <4>1. CASE g = Reaper
        BY <1>2, <1>4, <4>1
      <4>2. CASE g # Reaper
        BY <1>2, <4>2
      <4> QED
        BY <4>1, <4>2
    <3> QED
      BY <3>1
  <2> QED
    BY <1>2, <2>1, <2>2, Elsewhere DEF On, Processing
<1> QED
  BY <1>3, <1>4

LEMMA OtherLife ==
  ASSUME Ctx, NEW c \in Captures, Calm(c),
         \/ UNCHANGED vars \/ Tick \/ ReadRetention
         \/ \E a, b : SaveSettings(a, b)
  PROVE  Calm(c)' /\ Moves(c)
<1>1. UNCHANGED <<jobs, pc, copy, media, todo>>
  BY DEF vars, Tick, ReadRetention, SaveSettings, storeVars, workVars
<1> QED
  BY <1>1, Elsewhere DEF On, Processing

\* The end of the process: what was written is all there is, which for a
\* calm capture is everything but the worker.
LEMMA RestartLife ==
  ASSUME Ctx, NEW c \in Captures, Promised(c)', Calm(c), Restart
  PROVE  Calm(c)' /\ Moves(c)
<1>1. /\ jobs' = disk.jobs /\ faults' = faults
      /\ pc' = [w \in Workers |-> "poll"]
      /\ todo' = [h \in Removers |-> {}]
      /\ disturbed' = disturbed \cup {d \in Captures : Removing(d)}
      /\ media' = [p \in Paths |-> IF media[p] = NoFile THEN NoFile
                                   ELSE [media[p] EXCEPT !.open = {}]]
  BY DEF Restart
<1>2. jobs' = jobs
  BY <1>1 DEF Ctx, LifeInv, DiskCurrent, Promised
<1>3. ~Removing(c)
  BY <1>1 DEF Promised
<1>4. (\A w \in Workers : ~On(w, c)') /\ ~Removing(c)'
  BY <1>1 DEF On, Processing, Removing
<1>5. ASSUME NEW k \in Kinds, NEW r, Intact(c, k, r) PROVE Intact(c, k, r)'
  <2>1. <<c, k>> \in Paths /\ media[<<c, k>>] # NoFile
    BY <1>5 DEF Intact, Paths
  <2>2. PICK f \in File : f = media[<<c, k>>]
    BY <2>1 DEF Ctx, Types, TypeOK
  <2>3. media'[<<c, k>>] = [f EXCEPT !.open = {}]
    BY <1>1, <2>1, <2>2
  <2>4. f.by = {r} /\ f.whole
    BY <1>5, <2>2 DEF Intact
  <2>5. /\ [f EXCEPT !.open = {}].by = f.by /\ [f EXCEPT !.open = {}].open = {}
        /\ [f EXCEPT !.open = {}].whole = f.whole /\ [f EXCEPT !.open = {}] \in File
    BY DEF File
  <2> QED
    BY <2>3, <2>4, <2>5, NoFileAssumption DEF Intact
<1>6. DoneServes(c)'
  BY <1>2, <1>5 DEF Calm, DoneServes, IsDone
<1>7. Left(c)'
  <2>1. ASSUME NEW k \in Kinds, ~Present(jobs, c) PROVE media'[<<c, k>>] = NoFile
    <3>1. <<c, k>> \in Paths /\ media[<<c, k>>] = NoFile
      BY <1>3, <2>1 DEF Calm, Left, Removing, Paths
    <3> QED
      BY <1>1, <3>1
  <2> QED
    BY <1>2, <2>1 DEF Left, Present
<1> QED
  BY <1>2, <1>4, <1>6, <1>7 DEF Calm, Fresh, Progress, Doomed, Moves

-----------------------------------------------------------------------------
(* The workers.                                                            *)

LEMMA GateLife ==
  ASSUME Ctx, NEW c \in Captures, Calm(c), NEW w \in Workers, Gate(w) \/ Wake(w),
         \A d \in Captures : ~Claim(w, d)
  PROVE  Calm(c)' /\ Moves(c)
<1>1. /\ UNCHANGED <<jobs, copy>> /\ ~Processing(w)
      /\ \A v \in Workers : v # w => pc'[v] = pc[v]
  BY GateFrame DEF Ctx, Types
<1>2. UNCHANGED <<media, todo>> /\ ~Processing(w)'
  BY DEF Gate, Poll, Admit, Refuse, NothingQueued, Release, Wake, restVars, Goto,
         Processing, Ctx, Types, TypeOK
<1>3. \A v \in Workers : On(v, c)' => On(v, c) /\ pc'[v] = pc[v] /\ copy'[v] = copy[v]
  BY <1>1, <1>2 DEF On, Processing
<1> QED
  BY <1>1, <1>2, <1>3, Elsewhere

LEMMA ClaimLife ==
  ASSUME Ctx, NEW c \in Captures, Calm(c), NEW w \in Workers, NEW d \in Captures,
         Claim(w, d)
  PROVE  Calm(c)' /\ Moves(c)
<1>1. /\ jobs' = MarkRunning(jobs, d, clock) /\ IsQueued(jobs, d)
      /\ copy' = [copy EXCEPT ![w] = jobs'[d]]
      /\ pc' = [pc EXCEPT ![w] = "start"]
      /\ UNCHANGED <<media, todo>>
  BY DEF Claim, IsNextQueued, Goto, restVars
<1>2. jobs \in Tables /\ clock \in Nat /\ Present(jobs, d)
      /\ DOMAIN copy = Workers /\ DOMAIN pc = Workers
  BY <1>1 DEF Ctx, Types, TypeOK, IsQueued, Present
<1>3. /\ jobs'[d] \in Job /\ jobs'[d].state = "running"
      /\ jobs'[d].req = jobs[d].req /\ jobs'[d].id = jobs[d].id /\ jobs[d].id = d
  BY <1>1, <1>2, MarkRunningType DEF Ctx, ClaimInv, GoodTable
<1>4. /\ copy'[w] = jobs'[d] /\ pc'[w] = "start"
      /\ \A v \in Workers : v # w => copy'[v] = copy[v] /\ pc'[v] = pc[v]
  BY <1>1, <1>2
<1>5. CASE d = c
  <2>1. \A v \in Workers : ~On(v, c)
    BY <1>1, <1>5 DEF Calm, Fresh, IsQueued, IsRunning
  <2>2. \A v \in Workers : On(v, c)' => v = w
    BY <1>4, <2>1 DEF On, Processing
  <2>3. Present(jobs, c)' /\ IsRunning(jobs, c)' /\ ~IsDone(jobs, c)'
    BY <1>3, <1>5, NoJobAssumption DEF Present, IsRunning, IsDone
  <2>4. ~Removing(c)'
    BY <1>1, <1>2, <1>5 DEF Calm, Doomed, Removing
  <2>5. Fresh(c)' /\ Progress(c)'
    BY <1>3, <1>4, <1>5, <2>2, <2>3 DEF Fresh, Progress
  <2> QED
    BY <1>1, <1>3, <1>5, <2>3, <2>4, <2>5
       DEF Calm, DoneServes, Left, Doomed, Moves, Starts, Present
<1>6. CASE d # c
  <2>1. jobs'[c] = jobs[c]
    BY <1>1, <1>2, <1>6, <1>3, RunningRecord
  <2>2. \A v \in Workers : On(v, c)' => On(v, c) /\ pc'[v] = pc[v] /\ copy'[v] = copy[v]
    BY <1>3, <1>4, <1>6 DEF On, Processing
  <2> QED
    BY <1>1, <2>1, <2>2, Elsewhere
<1> QED
  BY <1>5, <1>6

\* What a worker that is not on c does to files is not done to c's.
LEMMA StrangerLife ==
  ASSUME Ctx, NEW c \in Captures, Calm(c), NEW w \in Workers, Produce(w), ~Report(w),
         ~On(w, c)
  PROVE  Calm(c)' /\ Moves(c)
<1>1. /\ UNCHANGED jobs
      /\ \A v \in Workers : v # w => copy'[v] = copy[v] /\ pc'[v] = pc[v]
      /\ Processing(w) => copy'[w].id = copy[w].id
  BY ProduceFrame DEF Ctx, Types
<1>2. UNCHANGED todo
  BY DEF Produce, StartLog, NoServer, Resolve, OpenOutput, OutputNotOpened,
     OutputEnds, Inspect, DropClip, DropStill, Finish, Exit, restVars
<1>3. CASE Processing(w)
  <2>1. copy[w].id # c
    BY <1>3 DEF On
  <2>2. \A k \in Kinds, l \in Kinds : <<c, k>> # <<copy[w].id, l>>
    BY <2>1
  <2>3. \/ UNCHANGED media
        \/ \E k \in Kinds : \E f : media' = [media EXCEPT ![<<copy[w].id, k>>] = f]
    <3>1. ASSUME NEW k \in Kinds, NEW ok \in BOOLEAN, OutputEnds(w, k, ok)
          PROVE  \/ UNCHANGED media
                 \/ \E l \in Kinds : \E f : media' = [media EXCEPT ![<<copy[w].id, l>>] = f]
      <4> DEFINE p == <<copy[w].id, k>>
      <4>1. CASE media[p] # NoFile /\ w \in media[p].open /\ p \in DOMAIN media
        <5>1. media[p] \in File
          BY <4>1 DEF Ctx, Types, TypeOK
        <5>2. media' = [media EXCEPT ![p] =
                          [media[p] EXCEPT !.open = media[p].open \ {w}, !.whole = ok]]
          BY <3>1, <4>1, <5>1 DEF OutputEnds, CloseFile, File
        <5> QED
          BY <5>2
      <4>2. CASE ~(media[p] # NoFile /\ w \in media[p].open) \/ p \notin DOMAIN media
        BY <3>1, <4>2 DEF OutputEnds, CloseFile, Ctx, Types, TypeOK
      <4> QED
        BY <4>1, <4>2
    <3>2. ASSUME NEW k \in Kinds, OpenOutput(w, k)
          PROVE  \E l \in Kinds : \E f : media' = [media EXCEPT ![<<copy[w].id, l>>] = f]
      BY <3>2 DEF OpenOutput
    <3>3. ASSUME DropClip(w) \/ DropStill(w)
          PROVE  \E l \in Kinds : \E f : media' = [media EXCEPT ![<<copy[w].id, l>>] = f]
      BY <3>3 DEF DropClip, DropStill, Kinds
    <3>4. ASSUME \/ StartLog(w) \/ NoServer(w) \/ Resolve(w) \/ Inspect(w)
                 \/ Finish(w) \/ Exit(w) \/ \E k \in Kinds : OutputNotOpened(w, k)
          PROVE  UNCHANGED media
      BY <3>4 DEF StartLog, NoServer, Resolve, Inspect, Finish, Exit, OutputNotOpened
    <3> QED
      BY <3>1, <3>2, <3>3, <3>4 DEF Produce
  <2>4. \A k \in Kinds : media'[<<c, k>>] = media[<<c, k>>]
    BY <2>2, <2>3 DEF Ctx, Types, TypeOK, Paths
  <2>5. \A v \in Workers : On(v, c)' => On(v, c) /\ pc'[v] = pc[v] /\ copy'[v] = copy[v]
    BY <1>1, <1>3, <2>1 DEF On, Processing
  <2> QED
    BY <1>1, <1>2, <2>4, <2>5, Elsewhere
<1>4. CASE ~Processing(w)
  <2>1. Finish(w) \/ Exit(w)
    BY <1>4 DEF Produce, StartLog, NoServer, Resolve, OpenOutput, OutputNotOpened,
       OutputEnds, Inspect, DropClip, DropStill, Processing, PCs, Kinds, Writing
  <2>2. UNCHANGED media /\ ~Processing(w)'
    BY <2>1 DEF Finish, Exit, Goto, Processing, Ctx, Types, TypeOK
  <2>3. \A v \in Workers : On(v, c)' => On(v, c) /\ pc'[v] = pc[v] /\ copy'[v] = copy[v]
    BY <1>1, <2>2 DEF On, Processing
  <2> QED
    BY <1>1, <1>2, <2>2, <2>3, Elsewhere
<1> QED
  BY <1>3, <1>4

LEMMA ReportLife ==
  ASSUME Ctx, NEW c \in Captures, Calm(c), NEW w \in Workers, Report(w)
  PROVE  Calm(c)' /\ Moves(c)
<1>1. /\ pc[w] = "report" /\ UNCHANGED <<copy, media, todo>>
      /\ \A v \in Workers : v # w => pc'[v] = pc[v]
      /\ ~Processing(w)' /\ Processing(w)
  BY DEF Report, Goto, Ctx, Types, TypeOK, restVars, Processing, PCs
<1>2. copy[w] \in Job /\ copy[w].state \in Terminal
  BY <1>1, CopyType
     DEF WorkingPCs, PCs, Ctx, Types, ClaimInv, GoodCopies, CopyOK
<1>3. \A v \in Workers : On(v, c)' => On(v, c) /\ pc'[v] = pc[v] /\ copy'[v] = copy[v]
  BY <1>1 DEF On, Processing
<1>4. jobs \in Tables /\ clock \in Nat
  BY DEF Ctx, Types, TypeOK
<1>5. CASE copy[w].id = c
  <2>1. On(w, c) /\ IsRunning(jobs, c) /\ jobs[c].req = copy[w].req
    BY <1>1, <1>5 DEF On, Calm, Fresh
  <2>2. Present(jobs, copy[w].id)
    BY <1>5, <2>1 DEF IsRunning, Present
  <2>3. jobs' = UpdateJob(jobs, copy[w], clock)
    BY <2>2 DEF Report
  <2>4. /\ jobs'[c] \in Job /\ jobs'[c].state = copy[w].state
        /\ jobs'[c].req = copy[w].req
    BY <1>2, <1>4, <1>5, <2>2, <2>3, UpdatedRecord DEF Stamped
  <2>5. Present(jobs, c)'
    BY <2>4, NoJobAssumption DEF Present
  <2>6. \A v \in Workers : ~On(v, c)'
    <3>1. \A v \in Workers : On(v, c) => v = w
      BY <2>1, OnlyOneOn DEF Ctx, Types, Calm
    <3> QED
      BY <1>1, <1>3, <3>1 DEF On
  <2>7. ~Removing(c)'
    BY <1>1, <1>5, <2>2 DEF Calm, Doomed, Removing
  <2>8. ASSUME IsDone(jobs, c)', NEW k \in Kinds PROVE Intact(c, k, jobs[c].req)'
    <3>1. Intact(c, k, copy[w].req)
      BY <1>1, <2>1, <2>4, <2>8 DEF Calm, Progress, IsDone
    <3> QED
      BY <1>1, <2>4, <3>1 DEF Intact
  <2>9. Calm(c)'
    BY <2>5, <2>6, <2>7, <2>8, NobodyOn
  <2> QED
    BY <1>2, <2>1, <2>4, <2>5, <2>9 DEF Moves, Ended, Present
<1>6. CASE copy[w].id # c
  <2>1. jobs'[c] = jobs[c]
    BY <1>2, <1>4, <1>6, UpdatedRecord DEF Report
  <2> QED
    BY <1>1, <1>3, <2>1, Elsewhere
<1> QED
  BY <1>5, <1>6

\* The worker that is on c: it is alone with the files.
Own(c, w) ==
  /\ Calm(c)' <=> Progress(c)'
  /\ UNCHANGED jobs /\ copy'[w].req = copy[w].req
  /\ \A v \in Workers : On(v, c)' => v = w

LEMMA OwnStep ==
  ASSUME Ctx, NEW c \in Captures, Calm(c), NEW w \in Workers, Produce(w), ~Report(w),
         On(w, c)
  PROVE  Own(c, w)
<1>1. /\ UNCHANGED jobs
      /\ \A v \in Workers : v # w => copy'[v] = copy[v] /\ pc'[v] = pc[v]
      /\ copy'[w].id = copy[w].id /\ copy'[w].req = copy[w].req
  BY ProduceFrame DEF Ctx, Types, On
<1>2. UNCHANGED todo
  BY DEF Produce, StartLog, NoServer, Resolve, OpenOutput, OutputNotOpened,
     OutputEnds, Inspect, DropClip, DropStill, Finish, Exit, restVars
<1>3. \A v \in Workers : On(v, c)' => v = w
  <2>1. \A v \in Workers : On(v, c) => v = w
    BY OnlyOneOn DEF Ctx, Types, Calm
  <2> QED
    BY <1>1, <2>1 DEF On, Processing
<1>4. IsRunning(jobs, c) /\ jobs[c].req = copy[w].req
  BY DEF Calm, Fresh
<1>5. Fresh(c)'
  BY <1>1, <1>3, <1>4 DEF Fresh, IsRunning
<1>6. DoneServes(c)' /\ Left(c)' /\ Doomed(c)'
  BY <1>1, <1>2, <1>4
     DEF Calm, DoneServes, Left, Doomed, IsRunning, IsDone, Present, Removing
<1> QED
  BY <1>1, <1>3, <1>5, <1>6 DEF Own, Calm

\* It has failed, or has not got to its output yet.
LEMMA OwnIdle ==
  ASSUME NEW c \in Captures, NEW w \in Workers, Own(c, w),
         \/ pc'[w] \in {"resolve", "still", "rmclip", "rmstill"}
         \/ pc'[w] = "report" /\ copy'[w].state = "failed"
  PROVE  Calm(c)'
BY DEF Own, Progress

LEMMA OwnFails ==
  ASSUME Ctx, NEW c \in Captures, NEW w \in Workers, Own(c, w), On(w, c), Fail(w)
  PROVE  Calm(c)'
<1>1. pc[w] \in WorkingPCs /\ DOMAIN pc = Workers /\ DOMAIN copy = Workers
  BY DEF On, Processing, WorkingPCs, PCs, Ctx, Types, TypeOK
<1>2. copy[w] \in Job
  BY <1>1, CopyType DEF Ctx, Types
<1>3. copy' = [copy EXCEPT ![w] = [copy[w] EXCEPT !.state = "failed"]]
  BY <1>1, <1>2 DEF Fail, Decide, Job
<1>4. copy'[w].state = "failed" /\ pc'[w] = "report"
  BY <1>1, <1>2, <1>3 DEF Fail, Decide, Goto, Job
<1> QED
  BY <1>4, OwnIdle

LEMMA OwnOpens ==
  ASSUME Ctx, NEW c \in Captures, Calm(c), NEW w \in Workers, Own(c, w), On(w, c),
         NEW k \in Kinds, OpenOutput(w, k)
  PROVE  Calm(c)'
<1>1. /\ copy[w].id = c /\ pc[w] = k /\ <<c, k>> \in Paths
      /\ UNCHANGED copy /\ pc'[w] = Writing(k)
      /\ DOMAIN media = Paths
  BY DEF On, OpenOutput, Goto, Ctx, Types, TypeOK, Paths
<1>2. media[<<c, k>>] # NoFile => media[<<c, k>>].open = {}
  <2> SUFFICES ASSUME media[<<c, k>>] # NoFile, NEW x \in media[<<c, k>>].open
               PROVE  FALSE
    BY <1>1 DEF Ctx, Types, TypeOK, File
  <2>1. x \in Workers /\ copy[x].id = c /\ pc[x] = Writing(k)
    BY <1>1 DEF Ctx, Types, TypeOK, File, OpenOK
  <2>2. On(x, c)
    BY <2>1 DEF On, Processing, PCs, Writing
  <2>3. x = w
    BY <2>1, <2>2, OnlyOneOn DEF Ctx, Types, Calm
  <2> QED
    BY <1>1, <2>1, <2>3 DEF Writing, Kinds
<1>3. PICK f : /\ media' = [media EXCEPT ![<<c, k>>] = f]
               /\ f = [by |-> {copy[w].req}, open |-> {w}, whole |-> FALSE]
  <2> DEFINE others == IF media[<<c, k>>] = NoFile THEN {} ELSE media[<<c, k>>].open
  <2>1. others = {}
    BY <1>2
  <2>2. media' = [media EXCEPT ![<<c, k>>] =
                    [by |-> {copy[x].req : x \in others \cup {w}},
                     open |-> others \cup {w}, whole |-> FALSE]]
    BY <1>1 DEF OpenOutput
  <2>3. others \cup {w} = {w}
    BY <2>1
  <2>4. {copy[x].req : x \in others \cup {w}} = {copy[w].req}
    BY <2>3
  <2> QED
    BY <2>2, <2>3, <2>4
<1>4. f \in File
  <2>1. copy[w].req \in Nat
    BY CopyType DEF On, Processing, WorkingPCs, PCs, Ctx, Types
  <2> QED
    BY <1>3, <2>1 DEF File
<1>5. /\ media'[<<c, k>>] = f
      /\ \A l \in Kinds : l # k => media'[<<c, l>>] = media[<<c, l>>]
  BY <1>1, <1>3 DEF Paths
<1>6. Opened(c, k, w)'
  <2>1. f # NoFile /\ f.by = {copy[w].req} /\ f.open = {w}
    BY <1>3, <1>4, NoFileAssumption
  <2> QED
    BY <1>1, <1>5, <2>1 DEF Opened
<1>7. CASE k = "still"
  BY <1>1, <1>6, <1>7 DEF Own, Progress, Writing
<1>8. CASE k = "clip"
  <2>1. Intact(c, "still", copy[w].req)
    BY <1>1, <1>8 DEF Calm, Progress
  <2>2. Intact(c, "still", copy[w].req)'
    BY <1>1, <1>5, <1>8, <2>1 DEF Intact, Kinds
  <2>3. Progress(c)'
    BY <1>1, <1>6, <1>8, <2>2 DEF Own, Progress, Writing
  <2> QED
    BY <2>3 DEF Own
<1> QED
  BY <1>7, <1>8 DEF Kinds

LEMMA OwnCloses ==
  ASSUME Ctx, NEW c \in Captures, Calm(c), NEW w \in Workers, Own(c, w), On(w, c),
         NEW k \in Kinds, NEW ok \in BOOLEAN, OutputEnds(w, k, ok)
  PROVE  Calm(c)'
<1>1. CASE ~ok
  BY <1>1, OwnFails DEF OutputEnds, AfterOutput
<1>2. CASE ok
  <2>1. /\ copy[w].id = c /\ pc[w] = Writing(k) /\ <<c, k>> \in Paths
        /\ UNCHANGED copy /\ pc'[w] = IF k = "still" THEN "clip" ELSE "inspect"
        /\ DOMAIN media = Paths
    BY <1>2 DEF On, OutputEnds, AfterOutput, Goto, Ctx, Types, TypeOK, Paths
  <2>2. Opened(c, k, w)
    BY <2>1 DEF Calm, Progress, Writing, Kinds
  <2>3. PICK f \in File : /\ media[<<c, k>>] = f /\ f # NoFile
                          /\ f.by = {copy[w].req} /\ f.open = {w}
    BY <2>1, <2>2 DEF Opened, Ctx, Types, TypeOK
  <2>4. PICK g \in File : g.by = f.by /\ g.open = {} /\ g.whole
                          /\ g = [f EXCEPT !.open = f.open \ {w}, !.whole = TRUE]
    <3> DEFINE g == [f EXCEPT !.open = f.open \ {w}, !.whole = TRUE]
    <3>1. g \in File /\ g.by = f.by /\ g.open = f.open \ {w} /\ g.whole
      BY DEF File
    <3>2. g.open = {}
      BY <2>3, <3>1
    <3> HIDE DEF g
    <3> QED
      BY <3>1, <3>2 DEF g
  <2>5. media' = [media EXCEPT ![<<c, k>>] = g]
    <3>1. media' = [media EXCEPT ![<<c, k>>].open = @ \ {w}, ![<<c, k>>].whole = ok]
      BY <2>1, <2>3 DEF OutputEnds, CloseFile
    <3>2. ok = TRUE
      BY <1>2
    <3> QED
      BY <2>1, <2>3, <2>4, <3>1, <3>2 DEF File
  <2>6. /\ media'[<<c, k>>] = g
        /\ \A l \in Kinds : l # k => media'[<<c, l>>] = media[<<c, l>>]
    BY <2>1, <2>5 DEF Paths
  <2>7. Intact(c, k, copy[w].req)'
    BY <2>1, <2>3, <2>4, <2>6, NoFileAssumption DEF Intact
  <2>8. CASE k = "still"
    <3>1. Progress(c)'
      BY <2>1, <2>7, <2>8 DEF Own, Progress
    <3> QED
      BY <3>1 DEF Own
  <2>9. CASE k = "clip"
    <3>1. Intact(c, "still", copy[w].req)
      BY <2>1, <2>9 DEF Calm, Progress, Writing
    <3>2. Intact(c, "still", copy[w].req)'
      BY <2>1, <2>6, <2>9, <3>1 DEF Intact, Kinds
    <3>3. Progress(c)'
      BY <2>1, <2>7, <2>9, <3>2 DEF Own, Progress
    <3> QED
      BY <3>3 DEF Own
  <2> QED
    BY <2>8, <2>9 DEF Kinds
<1> QED
  BY <1>1, <1>2

LEMMA OwnInspects ==
  ASSUME Ctx, NEW c \in Captures, Calm(c), NEW w \in Workers, Own(c, w), On(w, c),
         Inspect(w)
  PROVE  Calm(c)'
<1>1. CASE Fail(w)
  BY <1>1, OwnFails
<1>2. CASE Goto(w, "rmclip")
  <2>1. pc'[w] = "rmclip"
    BY <1>2 DEF Goto, Ctx, Types, TypeOK
  <2> QED
    BY <2>1, OwnIdle
<1>3. CASE Decide(w, "done")
  <2>1. /\ pc[w] = "inspect" /\ UNCHANGED media /\ copy'[w].req = copy[w].req
        /\ pc'[w] = "report"
    BY <1>3 DEF Inspect, Own, Decide, Goto, Ctx, Types, TypeOK
  <2>2. \A k \in Kinds : Intact(c, k, copy[w].req)
    BY <2>1 DEF Calm, Progress, Kinds
  <2>3. \A k \in Kinds : Intact(c, k, copy[w].req)'
    BY <2>1, <2>2 DEF Intact
  <2>4. Progress(c)'
    BY <2>1, <2>3 DEF Own, Progress
  <2> QED
    BY <2>4 DEF Own
<1> QED
  BY <1>1, <1>2, <1>3 DEF Inspect

LEMMA OwnLife ==
  ASSUME Ctx, NEW c \in Captures, Calm(c), NEW w \in Workers, Produce(w), ~Report(w),
         On(w, c)
  PROVE  Calm(c)' /\ Moves(c)
<1>1. Own(c, w)
  BY OwnStep
<1>2. Moves(c)
  BY <1>1 DEF Own, Moves
<1>3. ASSUME StartLog(w) \/ DropClip(w) \/ (Resolve(w) /\ Goto(w, "still"))
      PROVE  Calm(c)'
  <2>1. pc'[w] \in {"resolve", "still", "rmstill"}
    BY <1>3 DEF StartLog, DropClip, Goto, Ctx, Types, TypeOK
  <2> QED
    BY <1>1, <2>1, OwnIdle
<1>4. ASSUME \/ NoServer(w) \/ DropStill(w) \/ (Resolve(w) /\ Fail(w))
             \/ \E k \in Kinds : OutputNotOpened(w, k)
      PROVE  Calm(c)'
  BY <1>1, <1>4, OwnFails DEF NoServer, DropStill, OutputNotOpened
<1>5. ~Finish(w) /\ ~Exit(w)
  BY DEF On, Processing, Finish, Exit
<1>6. Resolve(w) => Fail(w) \/ Goto(w, "still")
  BY DEF Resolve
<1>7. Calm(c)'
  BY <1>1, <1>3, <1>4, <1>5, <1>6, OwnOpens, OwnCloses, OwnInspects DEF Produce
<1> QED
  BY <1>2, <1>7

-----------------------------------------------------------------------------
(* Together.                                                               *)

LEMMA DiskLife ==
  ASSUME Ctx, [Next]_vars
  PROVE  DiskCurrent'
<1>1. \/ Write \/ UNCHANGED <<jobs, disk, faults>> \/ jobs' = disk'.jobs
  <2>1. CASE Requests \/ (\E w \in Workers, c \in Captures : Claim(w, c))
    BY <2>1 DEF Requests, Submit, Delete, SetMaxConcurrentJobs, SetRetentionHours,
       SaveSettings, Write, Claim
  <2>2. CASE Sweep
    <3>1. CASE Expired(jobs, Cutoff(hours)) = {}
      <4>1. jobs' = Without(jobs, {}) /\ UNCHANGED <<disk, faults>>
        BY <2>2, <3>1 DEF Sweep
      <4>2. Without(jobs, {}) = jobs
        BY DEF Without, Ctx, Types, TypeOK, Tables
      <4> QED
        BY <4>1, <4>2
    <3> QED
      BY <2>2, <3>1 DEF Sweep
  <2>3. CASE Restart
    BY <2>3 DEF Restart
  <2>4. ASSUME NEW w \in Workers, Work(w), \A c \in Captures : ~Claim(w, c)
        PROVE  Write \/ UNCHANGED <<jobs, disk, faults>>
    BY <2>4 DEF Work, Gate, Wake, Produce, Poll, Admit, Refuse, NothingQueued,
       Release, StartLog, NoServer, Resolve, OpenOutput, OutputNotOpened,
       OutputEnds, Inspect, DropClip, DropStill, Report, Finish, Exit, storeVars
  <2>5. CASE Removal \/ ReadRetention \/ Tick \/ UNCHANGED vars
    BY <2>5 DEF Removal, RemoveFile, ReadRetention, Tick, vars, storeVars
  <2> QED
    BY <2>1, <2>2, <2>3, <2>4, <2>5 DEF Next
<1>2. faults \in Nat
  BY DEF Ctx, Types, TypeOK
<1> QED
  BY <1>1, <1>2, WriteOrFault DEF DiskCurrent, WriteOk, Ctx, LifeInv

LEMMA SweepClearLife ==
  ASSUME Ctx, [Next]_vars
  PROVE  SweepClear'
<1>1. todo \in [Removers -> SUBSET Paths] /\ Reaper \in Removers
  BY DEF Ctx, Types, TypeOK, Removers
<1>2. ASSUME NEW h \in Handlers, NEW c \in Captures, Delete(h, c) PROVE SweepClear'
  <2>1. h # Reaper /\ hours' = hours
    BY <1>2, ReaperAssumption DEF Delete
  <2>2. todo'[Reaper] = todo[Reaper]
    BY <1>1, <1>2, <2>1 DEF Delete
  <2> QED
    BY <2>1, <2>2 DEF SweepClear, Ctx, LifeInv
<1>3. ASSUME Removal PROVE SweepClear'
  <2>1. hours' = hours /\ todo'[Reaper] \subseteq todo[Reaper]
    BY <1>1, <1>3 DEF Removal, RemoveFile
  <2> QED
    BY <2>1 DEF SweepClear, Ctx, LifeInv
<1>4. ASSUME ReadRetention PROVE SweepClear'
  BY <1>4 DEF ReadRetention, SweepClear
<1>5. ASSUME Sweep \/ Restart PROVE SweepClear'
  <2>1. hours' = 0
    BY <1>5 DEF Sweep, Restart
  <2> QED
    BY <2>1 DEF SweepClear
<1>6. ASSUME \/ \E c \in Captures, force \in BOOLEAN : Submit(c, force)
             \/ \E a, b : SaveSettings(a, b)
             \/ \E w \in Workers : Work(w)
             \/ Tick \/ UNCHANGED vars
      PROVE  SweepClear'
  <2>1. UNCHANGED <<hours, todo>>
    BY <1>6 DEF Submit, SaveSettings, Work, Gate, Wake, Produce, Poll, Admit,
       Refuse, Claim, NothingQueued, Release, StartLog, NoServer, Resolve,
       OpenOutput, OutputNotOpened, OutputEnds, Inspect, DropClip, DropStill,
       Report, Finish, Exit, Tick, restVars, vars
  <2> QED
    BY <2>1 DEF SweepClear, Ctx, LifeInv
<1> QED
  BY <1>2, <1>3, <1>4, <1>5, <1>6
     DEF Next, Requests, SetMaxConcurrentJobs, SetRetentionHours

LEMMA CalmStep ==
  ASSUME Ctx, [Next]_vars, NEW c \in Captures, Promised(c)'
  PROVE  Calm(c)' /\ Moves(c)
<1>1. Calm(c)
  BY PromiseEnds DEF Ctx, Types, LifeInv
<1>2. ASSUME Requests PROVE Calm(c)' /\ Moves(c)
  BY <1>1, <1>2, SubmitLife, DeleteLife, OtherLife
     DEF Requests, SetMaxConcurrentJobs, SetRetentionHours
<1>3. ASSUME Removal PROVE Calm(c)' /\ Moves(c)
  <2>1. PICK h \in Removers, p \in Paths : RemoveFile(h, p[1], p[2])
    BY <1>3 DEF Removal
  <2>2. p[1] \in Captures /\ p[2] \in Kinds
    BY DEF Paths
  <2> QED
    BY <1>1, <2>1, <2>2, RemoveLife
<1>4. ASSUME NEW w \in Workers, Work(w) PROVE Calm(c)' /\ Moves(c)
  BY <1>1, <1>4, GateLife, ClaimLife, ReportLife, OwnLife, StrangerLife
     DEF Work, Gate
<1>5. ASSUME Sweep \/ Restart PROVE Calm(c)' /\ Moves(c)
  BY <1>1, <1>5, SweepLife, RestartLife
<1>6. ASSUME ReadRetention \/ Tick \/ UNCHANGED vars PROVE Calm(c)' /\ Moves(c)
  BY <1>1, <1>6, OtherLife
<1> QED
  BY <1>2, <1>3, <1>4, <1>5, <1>6 DEF Next

LEMMA LifeStep == Types /\ Types' /\ ClaimInv /\ LifeInv /\ [Next]_vars => LifeInv'
<1> SUFFICES ASSUME Ctx, [Next]_vars PROVE LifeInv'
  BY DEF Ctx
<1> QED
  BY CalmStep, DiskLife, SweepClearLife DEF LifeInv

LEMMA LifeInit == Init => LifeInv
<1> SUFFICES ASSUME Init PROVE LifeInv
  OBVIOUS
<1>1. DiskCurrent /\ SweepClear
  BY DEF Init, DiskCurrent, SweepClear
<1>2. ASSUME NEW c \in Captures PROVE Calm(c)
  <2>1. ~Present(jobs, c) /\ ~IsDone(jobs, c)
    BY DEF Init, EmptyTable, Present, IsDone
  <2>2. \A w \in Workers : ~On(w, c)
    BY DEF Init, On, Processing
  <2>3. \A k \in Kinds : media[<<c, k>>] = NoFile
    BY DEF Init, Paths
  <2> QED
    BY <2>1, <2>2, <2>3
       DEF Init, Calm, Fresh, Progress, DoneServes, Left, Doomed, Removing
<1> QED
  BY <1>1, <1>2 DEF LifeInv

Lasting == Types /\ ClaimInv /\ LifeInv

LEMMA LastingHolds == Spec => []Lasting
<1>1. Init => Lasting
  BY InitType, ClaimInit, LifeInit DEF Lasting, Types, OpenOK, Init
<1>2. Lasting /\ [Next]_vars => Lasting'
  BY TypesStep, ClaimStep, LifeStep DEF Lasting
<1> QED
  BY <1>1, <1>2, PTL DEF Spec

\* While a record says done, both files are the complete output of the very
\* submission it describes (process(), the media endpoints).
THEOREM DoneHasItsMedia == Spec => []MediaOfDone
<1>1. Lasting => MediaOfDone
  BY DEF Lasting, LifeInv, MediaOfDone, Promised, Calm, DoneServes
<1> QED
  BY <1>1, LastingHolds, PTL

\* Without a record, and with nobody left to remove them, there are no files
\* (handleDeleteJob, reapOnce, DeleteMedia).
THEOREM NothingIsLeft == Spec => []NoOrphans
<1>1. Lasting => NoOrphans
  BY DEF Lasting, LifeInv, NoOrphans, Promised, Calm, Left, Removing, Kinds
<1> QED
  BY <1>1, LastingHolds, PTL

\* Records go through their states in order, each submission's once, and only
\* a DELETE takes one away that has not ended.
THEOREM StatesInOrder == Spec => Orderly
<1>1. Lasting /\ Lasting' /\ [Next]_vars =>
        [faults' = 0 => \A c \in Captures \ disturbed' : OrderlyStep(c)]_vars
  <2> SUFFICES ASSUME Ctx, [Next]_vars, faults' = 0, NEW c \in Captures,
                      c \notin disturbed', jobs[c] # NoJob
               PROVE  OrderlyStep(c)
    BY DEF Lasting, Ctx, OrderlyStep
  <2>1. Moves(c)
    BY CalmStep DEF Promised
  <2>2. jobs[c].req \in Nat /\ jobs[c].req <= subs /\ subs \in Nat
    BY RecordType DEF Ctx, Types, TypeOK, ClaimInv, GoodTable, Present, Job
  <2>3. Asked(c) => jobs'[c].req > jobs[c].req
    BY <2>2 DEF Asked
  <2> QED
    BY <2>1, <2>3
       DEF Moves, Asked, Starts, Ended, Goes, OrderlyStep, IsQueued, IsRunning
<1> QED
  BY <1>1, LastingHolds, PTL DEF Spec, Orderly

-----------------------------------------------------------------------------
(* The refinement.                                                         *)

\* Under the invariant a done record is served.
LEMMA ServedIs ==
  ASSUME LifeInv, NEW c \in Captures
  PROVE  Served[c] = IF Promised(c) /\ IsDone(jobs, c) THEN jobs[c].req ELSE 0
BY DEF Served, LifeInv, Calm, DoneServes

LEMMA LifecycleInit == Init => Lifecycle!Init
<1> SUFFICES ASSUME Init PROVE Lifecycle!Init
  OBVIOUS
<1>1. \A c \in Captures : Promised(c) /\ ~Present(jobs, c) /\ ~IsDone(jobs, c)
  BY DEF Init, EmptyTable, Promised, Present, IsDone
<1> QED
  BY <1>1 DEF Lifecycle!Init, Phase, Request, Served

LEMMA LifecycleStep ==
  ASSUME Ctx, LifeInv', [Next]_vars, NEW c \in Captures
  PROVE  Lifecycle!Step(c)
<1>1. CASE ~Promised(c)'
  <2>1. Phase'[c] = "off" /\ Request'[c] = 0 /\ Served'[c] = 0
    BY <1>1 DEF Phase, Request, Served
  <2> QED
    BY <2>1 DEF Lifecycle!Step, Lifecycle!GiveUp, Lifecycle!Becomes
<1>2. CASE Promised(c)'
  <2>1. Promised(c) /\ Moves(c)
    BY <1>2, CalmStep, PromiseEnds DEF Ctx, Types
  <2>2. /\ Phase[c] = IF jobs[c] # NoJob THEN jobs[c].state ELSE "absent"
        /\ Request[c] = IF jobs[c] # NoJob THEN jobs[c].req ELSE 0
        /\ Served[c] = IF jobs[c] # NoJob /\ jobs[c].state = "done"
                       THEN jobs[c].req ELSE 0
    BY <2>1, ServedIs DEF Phase, Request, Present, IsDone, Ctx
  <2>3. /\ Phase'[c] = IF jobs'[c] # NoJob THEN jobs'[c].state ELSE "absent"
        /\ Request'[c] = IF jobs'[c] # NoJob THEN jobs'[c].req ELSE 0
    BY <1>2 DEF Phase, Request, Present
  <2>4. Served'[c] = IF jobs'[c] # NoJob /\ jobs'[c].state = "done"
                     THEN jobs'[c].req ELSE 0
    BY <1>2 DEF Served, IsDone, LifeInv, Calm, DoneServes
  <2>5. subs \in Nat /\ (jobs[c] # NoJob => /\ jobs[c] \in Job
                                           /\ jobs[c].req <= subs)
    BY RecordType DEF Ctx, Types, TypeOK, ClaimInv, GoodTable, Present
  <2>6. CASE jobs'[c] = jobs[c]
    BY <2>2, <2>3, <2>4, <2>6 DEF Lifecycle!Step, Lifecycle!Stay, Lifecycle!Becomes
  <2>7. CASE Asked(c)
    <3>1. Phase'[c] = "queued" /\ Request'[c] = subs + 1 /\ Served'[c] = 0
      BY <2>3, <2>4, <2>7 DEF Asked
    <3>2. Request[c] \in Nat /\ Request[c] <= subs
      BY <2>2, <2>5 DEF Job
    <3>3. Phase[c] # "off"
      BY <2>2, <2>5 DEF Job, States
    <3> QED
      BY <2>5, <3>1, <3>2, <3>3
         DEF Lifecycle!Step, Lifecycle!Submit, Lifecycle!Becomes
  <2>8. CASE Starts(c)
    BY <2>2, <2>3, <2>4, <2>8
       DEF Starts, IsQueued, Lifecycle!Step, Lifecycle!Start, Lifecycle!Becomes
  <2>9. CASE Ended(c)
    <3>1. CASE jobs'[c].state = "done"
      BY <2>2, <2>3, <2>4, <2>9, <3>1
         DEF Ended, IsRunning, Lifecycle!Step, Lifecycle!Succeed, Lifecycle!Becomes
    <3>2. CASE jobs'[c].state = "failed"
      BY <2>2, <2>3, <2>4, <2>9, <3>2
         DEF Ended, IsRunning, Lifecycle!Step, Lifecycle!Fail, Lifecycle!Becomes
    <3> QED
      BY <2>9, <3>1, <3>2 DEF Ended, Terminal
  <2>10. CASE Goes(c)
    <3>1. Phase[c] \in {"queued", "running", "done", "failed"}
      BY <2>2, <2>5, <2>10 DEF Goes, Present, Job, States
    <3>2. Phase'[c] = "absent" /\ Request'[c] = 0 /\ Served'[c] = 0
      BY <2>3, <2>4, <2>10 DEF Goes
    <3> QED
      BY <3>1, <3>2 DEF Lifecycle!Step, Lifecycle!Withdraw, Lifecycle!Abandon,
                        Lifecycle!Becomes
  <2> QED
    BY <2>1, <2>6, <2>7, <2>8, <2>9, <2>10 DEF Moves
<1> QED
  BY <1>1, <1>2

\* The queue implements what JobLifecycle promises a client of each capture.
THEOREM QueueImplementsLifecycle == Spec => ImplementsLifecycle
<1>1. Init => Lifecycle!Init
  BY LifecycleInit
<1>2. Lasting /\ Lasting' /\ [Next]_vars => [Lifecycle!Next]_(Lifecycle!vars)
  BY LifecycleStep DEF Lasting, Ctx, Lifecycle!Next
<1> QED
  BY <1>1, <1>2, LastingHolds, PTL DEF Spec, ImplementsLifecycle, Lifecycle!Spec
=============================================================================
