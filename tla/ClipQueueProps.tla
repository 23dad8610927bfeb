--------------------------- MODULE ClipQueueProps ---------------------------
(***************************************************************************)
(* What the job queue keeps, and what its documents say and it does not.   *)
(***************************************************************************)
EXTENDS ClipQueue

-----------------------------------------------------------------------------
(* Invariants.                                                             *)

\* Types of all variables.
TypeOK ==
  /\ jobs \in Tables /\ limit \in Nat /\ retention \in Nat
  /\ disk \in [jobs: Tables, limit: Nat, retention: Nat]
  /\ running \in Int
  /\ pc \in [Workers -> PCs]
  /\ copy \in [Workers -> Job \cup {NoJob}]
  /\ seen \in [Workers -> Int] /\ told \in [Workers -> Nat]
  /\ logs \in [Captures -> Workers \cup {NoLog}]
  /\ media \in [Paths -> File \cup {NoFile}]
  /\ todo \in [Removers -> SUBSET Paths]
  /\ hours \in Nat /\ clock \in Nat /\ subs \in Nat
  /\ sets \in Nat /\ faults \in Nat /\ crashes \in Nat
  /\ disturbed \subseteq Captures

HasJob(w) == copy[w] # NoJob

\* No submission is ever in the hands of two workers, nor queued while one
\* has it: NextQueued's flip under the lock is enough, whatever resubmits,
\* deletes, stale reports, failed writes and restarts happen around it.
ClaimedOnce ==
  /\ \A v, w \in Workers :
       v # w /\ HasJob(v) /\ HasJob(w) => copy[v].req # copy[w].req
  /\ \A c \in Captures, w \in Workers :
       IsQueued(jobs, c) /\ HasJob(w) => copy[w].req # jobs[c].req

\* The running counter is exactly the number of workers between their
\* Add(1) and their Add(-1): no path through worker leaks a slot or gives
\* one back twice.
HoldsSlot(w) == pc[w] \notin {"poll", "sleep"}
CounterExact == running = Cardinality({w \in Workers : HoldsSlot(w)})

\* Increment-then-verify: the workers let through the gate are never more
\* than the largest limit one of them was admitted under, although the limit
\* changes while they work.
Admitted == {w \in Workers : HoldsSlot(w) /\ pc[w] \notin {"gate", "release"}}
WithinLimit ==
  Admitted # {} => \E w \in Admitted : Cardinality(Admitted) <= told[w]

\* The file of this kind is the whole output of submission r and nobody is
\* writing it.
Intact(c, k, r) ==
  LET f == media[<<c, k>>] IN
  f # NoFile /\ f.by = {r} /\ f.open = {} /\ f.whole

\* A done job's files are the complete output of the very submission its
\* record describes, unless the capture was disturbed or the store file
\* could not be written.
MediaOfDone ==
  faults = 0 =>
    \A c \in Captures \ disturbed :
      IsDone(jobs, c) => \A k \in Kinds : Intact(c, k, jobs[c].req)

\* Files never outlive their record, with the same exceptions.
NoOrphans ==
  faults = 0 =>
    \A c \in Captures \ disturbed :
      ~Present(jobs, c) /\ ~Removing(c) =>
        \A k \in Kinds : media[<<c, k>>] = NoFile

\* While the process lives, a record that says "running" has a worker that
\* is processing this submission: a job cannot get stuck in that state.
RunningIsWorkedOn ==
  crashes = 0 =>
    \A c \in Captures :
      IsRunning(jobs, c) =>
        \E w \in Workers : /\ Processing(w)
                           /\ copy[w].id = c /\ copy[w].req = jobs[c].req

\* A registered live log belongs to a worker that is on this capture now: no
\* log is left behind by an attempt that has ended.
LogOfAttempt ==
  \A c \in Captures :
    logs[c] # NoLog => /\ HasJob(logs[c]) /\ copy[logs[c]].id = c
                       /\ pc[logs[c]] # "start"

-----------------------------------------------------------------------------
(* Action properties.                                                      *)

\* queued, running, then done or failed, all of one submission; back to
\* queued only for a newer one; a record goes away only when terminal or by a
\* DELETE.  So for every capture nobody disturbed: the result of an attempt
\* never replaces a newer request.
OrderlyStep(c) ==
  LET old == jobs[c]
      new == jobs'[c]
      same == new.req = old.req
  IN
  old # NoJob =>
    IF new = NoJob
    THEN \/ old.state \in Terminal
         \/ \E h \in Handlers : todo'[h] = {c} \X Kinds /\ todo[h] = {}
    ELSE \/ same /\ new.state = old.state
         \/ same /\ old.state = "queued" /\ new.state = "running"
         \/ same /\ old.state = "running" /\ new.state \in Terminal
         \/ new.req > old.req /\ new.state = "queued"
Orderly == [][faults' = 0 => \A c \in Captures \ disturbed' : OrderlyStep(c)]_vars

-----------------------------------------------------------------------------
(* The promise to the client, and what it is about here.                   *)

\* The promise ends for a capture that was disturbed, and for all of them
\* when the store file could not be written.
Promised(c) == faults = 0 /\ c \notin disturbed

Phase == [c \in Captures |->
            IF ~Promised(c) THEN "off"
            ELSE IF Present(jobs, c) THEN jobs[c].state ELSE "absent"]

Request == [c \in Captures |->
              IF Promised(c) /\ Present(jobs, c) THEN jobs[c].req ELSE 0]

\* The media endpoints serve the files of a done job: both are the complete
\* output of one submission, or nothing the client could rely on.
Served == [c \in Captures |->
             IF /\ Promised(c) /\ IsDone(jobs, c)
                /\ \A k \in Kinds : Intact(c, k, jobs[c].req)
             THEN jobs[c].req ELSE 0]

Lifecycle == INSTANCE JobLifecycle
               WITH phase <- Phase, request <- Request, served <- Served

\* The queue implements JobLifecycle: for every capture nobody disturbed the
\* record goes through its states in order, each submission's once, and while
\* it says done both files are the whole output of that very submission -
\* through retries, deletions, sweeps, timeouts and ends of the process.
ImplementsLifecycle == Lifecycle!Spec

-----------------------------------------------------------------------------
(* Liveness.                                                               *)

Submissions == 1 .. MaxSubmits
Is(c, r, s) == Present(jobs, c) /\ jobs[c].req = r /\ jobs[c].state = s

\* A queued submission is claimed, replaced or deleted in the end, whatever
\* the limit is set to.
QueuedIsServed ==
  \A c \in Captures, r \in Submissions :
    Is(c, r, "queued") ~> ~Is(c, r, "queued")

\* A running submission ends, replaced or deleted if not done or failed.
RunningEnds ==
  \A c \in Captures, r \in Submissions :
    Is(c, r, "running") ~> ~Is(c, r, "running")

\* A terminal record older than the retention goes away, with its files,
\* unless it is submitted again or the retention is set to forever.
Stale(c, r) == Present(jobs, c) /\ jobs[c].req = r
               /\ c \in Expired(jobs, clock - retention)
ExpiredIsReaped ==
  \A c \in Captures, r \in Submissions :
    Stale(c, r) ~> (retention = 0 \/ (~Stale(c, r) /\ ~Removing(c)))

-----------------------------------------------------------------------------
(* What the documents and comments say and the code does not keep.         *)

\* model.JobState: a job moves through queued, running and done or failed,
\* "never skipping Running".
NeverSkipsRunning ==
  [][\A c \in Captures :
       IsQueued(jobs, c) /\ Present(jobs', c) =>
         jobs'[c].state \notin Terminal]_vars

\* DELETE "drops the job and its media": once nobody has anything left to
\* do for a capture without a record, its files are gone.
DeletedMeansGone ==
  \A c \in Captures :
    ~Present(jobs, c) /\ ~Engaged(c) =>
      \A k \in Kinds : media[<<c, k>>] = NoFile

\* The media endpoints answer 404 unless the job is done: when it is, and
\* nothing is going on, there is something to serve.
DoneHasMedia ==
  \A c \in Captures :
    IsDone(jobs, c) /\ ~Engaged(c) =>
      \A k \in Kinds : media[<<c, k>>] # NoFile

\* "A restart shouldn't lose the queue": a job that was accepted ends, is
\* replaced or is deleted although the process was restarted.
RestartKeepsQueue ==
  \A c \in Captures, r \in Submissions :
    Is(c, r, "queued") ~>
      ~(Is(c, r, "queued") \/ Is(c, r, "running"))

\* LiveLog returns the output "for a job that's actively running right now".
RunningHasLog ==
  \A c \in Captures :
    IsRunning(jobs, c) =>
      \A w \in Workers :
        HasJob(w) /\ copy[w].req = jobs[c].req /\ pc[w] # "start" =>
          logs[c] # NoLog
=============================================================================
