------------------------------ MODULE ClipQueue ------------------------------
(***************************************************************************)
(* The job queue of ClipHanger: the worker pool and the retention sweep of *)
(* internal/queue, over the job table of internal/store, with the media    *)
(* files they write and remove, the handlers that submit and delete jobs,  *)
(* and the end of the process at any point.                                *)
(*                                                                         *)
(* A step is one section under the store's mutex, one atomic operation on  *)
(* the running counter, one start or end of an ffmpeg run, or one          *)
(* os.Remove: everything between two of them is local to a goroutine.      *)
(***************************************************************************)
EXTENDS JobTable, FiniteSets

CONSTANTS Workers,        \* the worker goroutines; as many as the ceiling
          Handlers,       \* DELETE requests that can be in progress at once
          Reaper,         \* the goroutine of reapLoop
          NoFile,         \* no media file at a path
          NoLog,          \* no live log registered for a captureId
          CPUs,           \* runtime.NumCPU()
          InitLimit,      \* the stored MaxConcurrentJobs setting at first
          InitRetention,  \* the stored RetentionHours setting at first
          Retentions,     \* the values of it a user saves
          MaxSubmits,     \* bound: accepted submissions
          MaxSettings,    \* bound: saves of a setting
          MaxClock,       \* bound: hours that pass
          MaxFaults,      \* bound: failed writes of the store file
          MaxCrashes      \* bound: ends of the process

Kinds    == {"still", "clip"}
Paths    == Captures \X Kinds
Removers == Handlers \cup {Reaper}

(***************************************************************************)
(* A media file: the submissions whose output is in it, the workers whose  *)
(* ffmpeg still has it open, and whether the last ffmpeg to close it       *)
(* succeeded.  The path depends on the captureId alone (mediaPath), so two *)
(* attempts at one capture write the same file.                            *)
(***************************************************************************)
File == [by: SUBSET Nat, open: SUBSET Workers, whole: BOOLEAN]

PCs == {"poll", "gate", "claim", "release", "sleep", "start", "resolve",
        "still", "stilling", "clip", "clipping", "inspect", "rmclip",
        "rmstill", "report", "finish", "exit"}

ASSUME WorkersAssumption  == IsFiniteSet(Workers)
ASSUME ReaperAssumption   == Reaper \notin Handlers
ASSUME NoFileAssumption   == NoFile \notin File
ASSUME NoLogAssumption    == NoLog \notin Workers
ASSUME SettingsAssumption == /\ CPUs \in Nat /\ InitLimit \in Nat
                             /\ InitRetention \in Nat /\ Retentions \subseteq Nat
ASSUME BoundsAssumption   == /\ MaxSubmits \in Nat /\ MaxSettings \in Nat
                             /\ MaxClock \in Nat /\ MaxFaults \in Nat
                             /\ MaxCrashes \in Nat

VARIABLES
  jobs,       \* s.data.Jobs
  limit,      \* s.data.MaxConcurrentJobs, the raw setting; 0 is Auto
  retention,  \* s.data.RetentionHours; 0 is forever
  disk,       \* what the store file holds
  running,    \* Queue.running
  pc,         \* where each worker is
  copy,       \* the worker's own copy of its job
  seen,       \* what the worker's running.Add(1) returned
  told,       \* what MaxConcurrentJobs() returned to it
  logs,       \* liveLogRegistry.logs: whose ring buffer is registered
  media,      \* the media directory
  todo,       \* the files each remover has still to remove
  hours,      \* the retention the current sweep has read; 0 between sweeps
  clock,      \* hours passed
  subs,       \* submissions accepted so far
  sets, faults, crashes,   \* how much of each bound is used
  disturbed   \* history: see Disturb

storeVars == <<jobs, limit, retention, disk, faults>>
slotVars  == <<running, seen, told>>
workVars  == <<slotVars, pc, copy, logs>>
boundVars == <<clock, subs, sets, crashes>>
restVars  == <<todo, hours, boundVars, disturbed>>
vars == <<jobs, limit, retention, disk, running, pc, copy, seen, told, logs,
          media, todo, hours, clock, subs, sets, faults, crashes, disturbed>>

-----------------------------------------------------------------------------
(* Store: the settings read live, and the write of the whole file.         *)

\* The ceiling is the number of worker goroutines.
Ceiling == Cardinality(Workers)

\* Fault: a quarter of the CPUs, rounded down to none.
QuarterOfCPUs == CPUs \div 4

AutoMaxConcurrentJobs ==
  CASE CPUs <= 2 -> 1
    [] CPUs > 2 /\ CPUs <= 4 -> 2
    [] CPUs > 4 /\ CPUs <= 8 -> 3
    [] OTHER -> Ceiling

MaxConcurrentJobs(n) ==
  IF n <= 0 THEN AutoMaxConcurrentJobs
  ELSE IF n > Ceiling THEN Ceiling ELSE n

\* writeLocked after the change in this step: it replaces the file with all
\* of memory, or it fails and the change stays in memory only.
WriteOk == /\ disk' = [jobs |-> jobs', limit |-> limit', retention |-> retention']
           /\ UNCHANGED faults
WriteFails == /\ faults < MaxFaults
              /\ faults' = faults + 1
              /\ UNCHANGED disk
Write == WriteOk \/ WriteFails

(***************************************************************************)
(* Who is working on a capture, for the history variable: a worker between *)
(* claiming it and reporting it, and whoever still has to remove its       *)
(* files.  A capture is disturbed from the moment its record is submitted  *)
(* or dropped while somebody is engaged with it, or a restart forgets that *)
(* its files were to be removed.                                           *)
(***************************************************************************)
Processing(w) == pc[w] \in PCs \ {"poll", "gate", "claim", "release", "sleep",
                                  "finish", "exit"}
Removing(c)   == \E h \in Removers : \E k \in Kinds : <<c, k>> \in todo[h]
Engaged(c)    == \/ \E w \in Workers : Processing(w) /\ copy[w].id = c
                 \/ Removing(c)
Disturb(S) == disturbed' = disturbed \cup {c \in S : Engaged(c)}

-----------------------------------------------------------------------------
Init ==
  /\ jobs = EmptyTable /\ limit = InitLimit /\ retention = InitRetention
  /\ disk = [jobs |-> EmptyTable, limit |-> InitLimit, retention |-> InitRetention]
  /\ running = 0
  /\ pc   = [w \in Workers |-> "poll"]
  /\ copy = [w \in Workers |-> NoJob]
  /\ seen = [w \in Workers |-> 0]
  /\ told = [w \in Workers |-> 0]
  /\ logs = [c \in Captures |-> NoLog]
  /\ media = [p \in Paths |-> NoFile]
  /\ todo = [h \in Removers |-> {}]
  /\ hours = 0 /\ clock = 0 /\ subs = 0
  /\ sets = 0 /\ faults = 0 /\ crashes = 0
  /\ disturbed = {}

-----------------------------------------------------------------------------
(* Requests.                                                               *)

\* One item of POST /jobs.  An item that is not accepted changes nothing.
Submit(c, force) ==
  /\ subs < MaxSubmits
  /\ Accepts(jobs, c, force)
  /\ subs' = subs + 1
  /\ jobs' = SubmitJob(jobs, c, subs + 1, clock)
  /\ Disturb({c})
  /\ UNCHANGED <<limit, retention>> /\ Write
  /\ UNCHANGED <<workVars, media, todo, hours, clock, sets, crashes>>

\* Fault: DeleteMedia forgets the clip.
StillsOf(S) == S \X {"still"}

\* DeleteMedia's two files.
FilesOf(S) == S \X Kinds

\* DELETE /jobs/{id} (and the Jobs page's button): the record goes first;
\* DeleteMedia is reached only if the write succeeded.
Delete(h, c) ==
  /\ todo[h] = {}
  /\ Present(jobs, c)
  /\ jobs' = DeleteJob(jobs, c)
  /\ Disturb({c})
  /\ UNCHANGED <<limit, retention>>
  /\ \/ WriteOk /\ todo' = [todo EXCEPT ![h] = FilesOf({c})]
     \/ WriteFails /\ UNCHANGED todo
  /\ UNCHANGED <<workVars, media, hours, boundVars>>

\* DeleteMedia: one os.Remove, the still before the clip.
RemoveFile(h, c, k) ==
  /\ <<c, k>> \in todo[h]
  /\ k = "clip" => <<c, "still">> \notin todo[h]
  /\ media' = [media EXCEPT ![<<c, k>>] = NoFile]
  /\ todo' = [todo EXCEPT ![h] = @ \ {<<c, k>>}]
  /\ UNCHANGED <<storeVars, workVars, hours, boundVars, disturbed>>

\* The Setup page's "Save" of the two settings the queue reads live.
SaveSettings(newLimit, newRetention) ==
  /\ sets < MaxSettings
  /\ sets' = sets + 1
  /\ limit' = newLimit /\ retention' = newRetention
  /\ UNCHANGED jobs /\ Write
  /\ UNCHANGED <<workVars, media, todo, hours, clock, subs, crashes, disturbed>>
SetMaxConcurrentJobs(n) == SaveSettings(n, retention)
SetRetentionHours(n)    == SaveSettings(limit, n)

-----------------------------------------------------------------------------
(* The retention sweep.                                                    *)

\* reapOnce: the setting is read, and nothing happens when it is "forever".
ReadRetention ==
  /\ hours = 0 /\ todo[Reaper] = {} /\ retention > 0
  /\ hours' = retention
  /\ UNCHANGED <<storeVars, workVars, media, todo, boundVars, disturbed>>

\* Fault: off by one hour.
CutoffTooEarly(h) == clock - h - 1

Cutoff(h) == clock - h

\* ReapTerminalOlderThan drops the expired records; the files follow one by
\* one (RemoveFile).  The result of the write is ignored.
Sweep ==
  LET expired == Expired(jobs, Cutoff(hours)) IN
  /\ hours > 0
  /\ hours' = 0
  /\ jobs' = Without(jobs, expired)
  /\ todo' = [todo EXCEPT ![Reaper] = FilesOf(expired)]
  /\ Disturb(expired)
  /\ UNCHANGED <<limit, retention>>
  /\ IF expired = {} THEN UNCHANGED <<disk, faults>> ELSE Write
  /\ UNCHANGED <<workVars, media, boundVars>>

-----------------------------------------------------------------------------
(* Workers: the gate.                                                      *)

Goto(w, l) == pc' = [pc EXCEPT ![w] = l]

\* Fault: the counter is loaded first and incremented after the check.
LoadThenAdd(w) == /\ running' = running + 1
                  /\ seen' = [seen EXCEPT ![w] = running]
                  /\ UNCHANGED told

\* running.Add(1) and what it returns.
TakeSlot(w) == /\ running' = running + 1
               /\ seen' = [seen EXCEPT ![w] = running + 1]
               /\ UNCHANGED told

\* Fault: the decrement is forgotten.
KeepSlot(w) == /\ seen' = [seen EXCEPT ![w] = 0]
               /\ told' = [told EXCEPT ![w] = 0]
               /\ UNCHANGED running

\* running.Add(-1).
GiveBack(w) == /\ running' = running - 1
               /\ seen' = [seen EXCEPT ![w] = 0]
               /\ told' = [told EXCEPT ![w] = 0]

\* Claim a slot first ...
Poll(w) ==
  /\ pc[w] = "poll"
  /\ TakeSlot(w)
  /\ Goto(w, "gate")
  /\ UNCHANGED <<storeVars, copy, logs, media, restVars>>

\* ... then compare what Add returned with the live limit.
Admit(w) ==
  /\ pc[w] = "gate"
  /\ seen[w] <= MaxConcurrentJobs(limit)
  /\ told' = [told EXCEPT ![w] = MaxConcurrentJobs(limit)]
  /\ Goto(w, "claim")
  /\ UNCHANGED <<storeVars, running, seen, copy, logs, media, restVars>>

Refuse(w) ==
  /\ pc[w] = "gate"
  /\ seen[w] > MaxConcurrentJobs(limit)
  /\ Goto(w, "release")
  /\ UNCHANGED <<storeVars, slotVars, copy, logs, media, restVars>>

\* NextQueued found a job, and flipped it under the lock.
Claim(w, c) ==
  /\ pc[w] = "claim"
  /\ IsNextQueued(jobs, c)
  /\ jobs' = MarkRunning(jobs, c, clock)
  /\ copy' = [copy EXCEPT ![w] = jobs'[c]]
  /\ Goto(w, "start")
  /\ UNCHANGED <<limit, retention>> /\ Write
  /\ UNCHANGED <<slotVars, logs, media, restVars>>

NothingQueued(w) ==
  /\ pc[w] = "claim"
  /\ \A c \in Captures : ~IsQueued(jobs, c)
  /\ Goto(w, "release")
  /\ UNCHANGED <<storeVars, slotVars, copy, logs, media, restVars>>

\* One second of sleep before the loop starts again.
Release(w) ==
  /\ pc[w] = "release"
  /\ GiveBack(w)
  /\ Goto(w, "sleep")
  /\ UNCHANGED <<storeVars, copy, logs, media, restVars>>

Wake(w) ==
  /\ pc[w] = "sleep"
  /\ Goto(w, "poll")
  /\ UNCHANGED <<storeVars, slotVars, copy, logs, media, restVars>>

-----------------------------------------------------------------------------
(* Workers: process.                                                       *)

\* The success path and fail both set the state in the worker's copy and
\* end in one UpdateJob.
Decide(w, s) == /\ copy' = [copy EXCEPT ![w].state = s]
                /\ Goto(w, "report")

\* Fault: process returns without reporting.
FailSilently(w) == Goto(w, "finish") /\ UNCHANGED copy

Fail(w) == Decide(w, "failed")

StartLog(w) ==
  /\ pc[w] = "start"
  /\ logs' = [logs EXCEPT ![copy[w].id] = w]
  /\ Goto(w, "resolve")
  /\ UNCHANGED <<storeVars, slotVars, copy, media, restVars>>

\* The server is gone or of an unknown kind: nothing was written.
NoServer(w) ==
  /\ pc[w] = "resolve"
  /\ Fail(w)
  /\ UNCHANGED <<storeVars, slotVars, logs, media, restVars>>

\* Resolve answered, and SetServerReachability (PutServer) rewrote the file
\* - unless the server was removed meanwhile, or the write failed.
Resolve(w) ==
  /\ pc[w] = "resolve"
  /\ UNCHANGED <<jobs, limit, retention>>
  /\ Write \/ UNCHANGED <<disk, faults>>
  /\ Fail(w) \/ (Goto(w, "still") /\ UNCHANGED copy)
  /\ UNCHANGED <<slotVars, logs, media, restVars>>

\* Where a worker is while ffmpeg writes this kind of output.
Writing(k) == IF k = "still" THEN "stilling" ELSE "clipping"

\* ffmpeg -y opens the output: a new file, or the present one truncated,
\* which another worker's ffmpeg may still be writing.
OpenOutput(w, k) ==
  LET p == <<copy[w].id, k>>
      others == IF media[p] = NoFile THEN {} ELSE media[p].open
  IN
  /\ pc[w] = k
  /\ media' = [media EXCEPT ![p] =
                 [by |-> {copy[x].req : x \in others \cup {w}},
                  open |-> others \cup {w},
                  whole |-> FALSE]]
  /\ Goto(w, Writing(k))
  /\ UNCHANGED <<storeVars, slotVars, copy, logs, restVars>>

\* ffmpeg never got as far as its output: the seek or the source failed, or
\* the job's timeout expired.
OutputNotOpened(w, k) ==
  /\ pc[w] = k
  /\ Fail(w)
  /\ UNCHANGED <<storeVars, slotVars, logs, media, restVars>>

\* ffmpeg closes the file.  A file removed meanwhile stays removed.
CloseFile(w, k, ok) ==
  LET p == <<copy[w].id, k>> IN
  media' = IF media[p] # NoFile /\ w \in media[p].open
           THEN [media EXCEPT ![p].open = @ \ {w}, ![p].whole = ok]
           ELSE media

\* Fault: ffmpeg's exit status is not looked at.
AfterAnyOutput(w, k, ok) ==
  /\ Goto(w, IF k = "still" THEN "clip" ELSE "inspect")
  /\ UNCHANGED copy

AfterOutput(w, k, ok) ==
  IF ok THEN /\ Goto(w, IF k = "still" THEN "clip" ELSE "inspect")
             /\ UNCHANGED copy
        ELSE Fail(w)

\* ffmpeg ends: it succeeded, or it failed or was killed by the timeout and
\* what it wrote stays.
OutputEnds(w, k, ok) ==
  /\ pc[w] = Writing(k)
  /\ CloseFile(w, k, ok)
  /\ AfterOutput(w, k, ok)
  /\ UNCHANGED <<storeVars, slotVars, logs, restVars>>

\* probeClip counts the frames of whatever is at the clip's path, or cannot
\* read it; Probe's own result never decides anything.
Inspect(w) ==
  /\ pc[w] = "inspect"
  /\ \/ Fail(w)
     \/ /\ media[<<copy[w].id, "clip">>] # NoFile
        /\ Decide(w, "done") \/ (Goto(w, "rmclip") /\ UNCHANGED copy)
  /\ UNCHANGED <<storeVars, slotVars, logs, media, restVars>>

\* A clip of one frame is a failure: both files are removed first.
DropClip(w) ==
  /\ pc[w] = "rmclip"
  /\ media' = [media EXCEPT ![<<copy[w].id, "clip">>] = NoFile]
  /\ Goto(w, "rmstill")
  /\ UNCHANGED <<storeVars, slotVars, copy, logs, restVars>>

DropStill(w) ==
  /\ pc[w] = "rmstill"
  /\ media' = [media EXCEPT ![<<copy[w].id, "still">>] = NoFile]
  /\ Fail(w)
  /\ UNCHANGED <<storeVars, slotVars, logs, restVars>>

\* UpdateJob; a record that is gone is only logged.
Report(w) ==
  /\ pc[w] = "report"
  /\ Goto(w, "finish")
  /\ UNCHANGED <<limit, retention>>
  /\ IF Present(jobs, copy[w].id)
     THEN jobs' = UpdateJob(jobs, copy[w], clock) /\ Write
     ELSE UNCHANGED <<jobs, disk, faults>>
  /\ UNCHANGED <<slotVars, copy, logs, media, restVars>>

\* Fault: the registry keeps the log of a finished attempt.
KeepLog(c) == UNCHANGED logs

\* liveLogs.finish deletes by captureId.
FinishLog(c) == logs' = [logs EXCEPT ![c] = NoLog]

\* The deferred call at the end of process.
Finish(w) ==
  /\ pc[w] = "finish"
  /\ FinishLog(copy[w].id)
  /\ copy' = [copy EXCEPT ![w] = NoJob]
  /\ Goto(w, "exit")
  /\ UNCHANGED <<storeVars, slotVars, media, restVars>>

\* Back in worker: the slot is given back and the next poll follows at once.
Exit(w) ==
  /\ pc[w] = "exit"
  /\ GiveBack(w)
  /\ Goto(w, "poll")
  /\ UNCHANGED <<storeVars, copy, logs, media, restVars>>

-----------------------------------------------------------------------------
(* The environment.                                                        *)

Tick ==
  /\ clock < MaxClock
  /\ clock' = clock + 1
  /\ UNCHANGED <<storeVars, workVars, media, todo, hours, subs, sets, crashes,
                 disturbed>>

(***************************************************************************)
(* The process ends and is started again.  It is killed, or it gets a      *)
(* signal: then ListenAndServe returns as soon as Shutdown is called, and  *)
(* main returns without waiting for Run, so workers and requests stop      *)
(* wherever they are.  Open loads the file; nothing else is recovered.     *)
(***************************************************************************)
Restart ==
  /\ crashes < MaxCrashes
  /\ crashes' = crashes + 1
  /\ jobs' = disk.jobs /\ limit' = disk.limit /\ retention' = disk.retention
  /\ running' = 0
  /\ pc'   = [w \in Workers |-> "poll"]
  /\ copy' = [w \in Workers |-> NoJob]
  /\ seen' = [w \in Workers |-> 0]
  /\ told' = [w \in Workers |-> 0]
  /\ logs' = [c \in Captures |-> NoLog]
  /\ media' = [p \in Paths |-> IF media[p] = NoFile THEN NoFile
                               ELSE [media[p] EXCEPT !.open = {}]]
  /\ todo' = [h \in Removers |-> {}]
  /\ hours' = 0
  /\ disturbed' = disturbed \cup {c \in Captures : Removing(c)}
  /\ UNCHANGED <<disk, faults, clock, subs, sets>>

-----------------------------------------------------------------------------
Gate(w)    == Poll(w) \/ Admit(w) \/ Refuse(w) \/ NothingQueued(w)
              \/ Release(w) \/ (\E c \in Captures : Claim(w, c))
Produce(w) == \/ StartLog(w) \/ NoServer(w) \/ Resolve(w)
              \/ \E k \in Kinds : \/ OpenOutput(w, k) \/ OutputNotOpened(w, k)
                                  \/ \E ok \in BOOLEAN : OutputEnds(w, k, ok)
              \/ Inspect(w) \/ DropClip(w) \/ DropStill(w)
              \/ Report(w) \/ Finish(w) \/ Exit(w)
Work(w)       == Gate(w) \/ Wake(w) \/ Produce(w)

Requests == \/ \E c \in Captures, force \in BOOLEAN : Submit(c, force)
            \/ \E h \in Handlers, c \in Captures : Delete(h, c)
            \/ \E n \in 0 .. Ceiling : SetMaxConcurrentJobs(n)
            \/ \E n \in Retentions : SetRetentionHours(n)
Removal  == \E h \in Removers, p \in Paths : RemoveFile(h, p[1], p[2])

Next == \/ Requests \/ Removal \/ ReadRetention \/ Sweep
        \/ \E w \in Workers : Work(w)
        \/ Tick \/ Restart

Spec == Init /\ [][Next]_vars
(***************************************************************************)
(* Fairness.  Every worker keeps taking steps: an ffmpeg run ends because  *)
(* the job's context times out, so a step that starts or ends one is taken *)
(* too.  The retention sweep keeps going.                                  *)
(*                                                                         *)
(* The gate can starve in an untimed model: a worker that found nothing    *)
(* still holds its slot when the next one adds its own, and so on for      *)
(* ever.  In the code the window is a few instructions and the sleep is a  *)
(* second, so a sleeper wakes when no other is inside the window; workers  *)
(* that wake in the same moment still collide (they are all at "poll").    *)
(***************************************************************************)
InWindow(w) == pc[w] \in {"gate", "claim", "release"}
TimelyWake  == \A w \in Workers :
                 Wake(w) => \A v \in Workers : ~InWindow(v)
TimedNext   == Next /\ TimelyWake

Sweeping == ReadRetention \/ Sweep
            \/ \E p \in Paths : RemoveFile(Reaper, p[1], p[2])

TimedSpec == /\ Init /\ [][TimedNext]_vars
             /\ \A w \in Workers : /\ WF_vars(Gate(w)) /\ WF_vars(Produce(w))
                                   /\ WF_vars(Wake(w) /\ TimelyWake)
             /\ WF_vars(Sweeping)
=============================================================================
