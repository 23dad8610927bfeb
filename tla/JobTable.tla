------------------------------ MODULE JobTable ------------------------------
(***************************************************************************)
(* The job section of internal/store/store.go as operators on a table.     *)
(*                                                                         *)
(* A table maps each captureId to its record, or to NoJob.  The code keeps *)
(* a slice; the only thing its order decides is which queued job           *)
(* NextQueued takes, and records are appended as they are first submitted  *)
(* and keep their place when they are replaced, so the slice is ordered by *)
(* "created" and that field stands for the position.                       *)
(*                                                                         *)
(* A submission is identified by a number: "req" names the submission      *)
(* whose parameters (source, timestamp, span) the record carries.          *)
(***************************************************************************)
EXTENDS Integers

CONSTANTS Captures,   \* the captureIds clients use
          NoJob       \* no record for this captureId

States   == {"queued", "running", "done", "failed"}
Terminal == {"done", "failed"}

Job == [id: Captures,      \* CaptureID
        state: States,     \* State
        req: Nat,          \* the submission this record describes
        created: Nat,      \* CreatedAt, and with it the place in the slice
        updated: Nat]      \* UpdatedAt

ASSUME NoJobAssumption == NoJob \notin Job

Tables == [Captures -> Job \cup {NoJob}]

EmptyTable == [c \in Captures |-> NoJob]

Present(table, c)   == table[c] # NoJob
IsQueued(table, c)  == table[c] # NoJob /\ table[c].state = "queued"
IsRunning(table, c) == table[c] # NoJob /\ table[c].state = "running"
IsDone(table, c)    == table[c] # NoJob /\ table[c].state = "done"

\* Fault: what has ended is made again without force.
AcceptsEnded(table, c, force) ==
  table[c] = NoJob \/ force \/ table[c].state \in Terminal

\* SubmitJob: is the submission taken, or answered with the present state?
Accepts(table, c, force) == table[c] = NoJob \/ force

\* SubmitJob: a new record is queued at the end of the slice, a forced one
\* replaces the present record - whatever its state - in its place.
SubmitJob(table, c, r, now) ==
  [table EXCEPT ![c] =
     [id |-> c, state |-> "queued", req |-> r, updated |-> now,
      created |-> IF table[c] = NoJob THEN r ELSE table[c].created]]

\* NextQueued: the first queued record of the slice.
IsNextQueued(table, c) ==
  /\ IsQueued(table, c)
  /\ \A d \in Captures :
       IsQueued(table, d) => table[c].created <= table[d].created

\* Fault: the job is handed out but its record stays queued.
MarkRunningForgotten(table, c, now) == [table EXCEPT ![c].updated = now]

\* NextQueued: the record is flipped to running inside the same lock.
MarkRunning(table, c, now) ==
  [table EXCEPT ![c].state = "running", ![c].updated = now]

\* UpdateJob: the worker's copy j replaces whatever record its captureId has
\* now; only CreatedAt survives.
UpdateJob(table, j, now) ==
  [table EXCEPT ![j.id] = [j EXCEPT !.created = table[j.id].created,
                                    !.updated = now]]

\* Fault: the record is blanked in its place instead of cut from the slice.
DeleteJobBlanked(table, c) == [table EXCEPT ![c].state = ""]

DeleteJob(table, c) == [table EXCEPT ![c] = NoJob]

\* Fault: age alone decides.
ExpiredInAnyState(table, cutoff) ==
  {c \in Captures : table[c] # NoJob /\ table[c].updated < cutoff}

\* ReapTerminalOlderThan: which records a sweep with this cutoff removes.
Expired(table, cutoff) ==
  {c \in Captures : /\ table[c] # NoJob
                    /\ table[c].state \in Terminal
                    /\ table[c].updated < cutoff}

Without(table, S) == [c \in Captures |-> IF c \in S THEN NoJob ELSE table[c]]
=============================================================================
