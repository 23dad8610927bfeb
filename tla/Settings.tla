------------------------------ MODULE Settings ------------------------------
(***************************************************************************)
(* The settings of the Setup page and where they take effect: how          *)
(* environment variables seed two of them at the start of the process, how *)
(* a save and a restart treat them, and what the queue and the sweep read. *)
(***************************************************************************)
EXTENDS Integers

CONSTANTS
  CPUs,          \* runtime.NumCPU()
  EnvValues,     \* what RETENTION_HOURS and WORKERS can be at a start
  Unset,         \* the variable is not in the environment
  Inputs,        \* the numbers users enter
  Hour,          \* nanoseconds of an hour, scaled down
  DurationRange, \* a time.Duration wraps around modulo this, scaled down
  Ages,          \* ages, in hours, of finished jobs a sweep can meet
  MaxSaves,      \* bound: saves of a setting
  MaxFaults,     \* bound: failed writes of the store file
  MaxCrashes     \* bound: ends of the process

Seeded == {"retention", "limit"}
Names  == Seeded \cup {"span", "speed"}

MaxConcurrentJobsCeiling == 4
DefaultSpanSeconds       == 20
DefaultSpeedMultiplier   == 2

ASSUME CPUsAssumption   == CPUs \in Nat \ {0}
ASSUME EnvAssumption    == EnvValues \subseteq Int \cup {Unset}
ASSUME InputsAssumption == Inputs \subseteq Int /\ Ages \subseteq Nat
ASSUME TimeAssumption   == Hour \in Nat \ {0} /\ DurationRange \in Nat \ {0}
ASSUME BoundsAssumption == MaxSaves \in Nat /\ MaxFaults \in Nat /\ MaxCrashes \in Nat

\* The fields of diskData: the values, and which were explicitly configured.
Data == [value: [Names -> Int], configured: SUBSET Seeded]
EmptyData == [value |-> [n \in Names |-> 0], configured |-> {}]

NoJob == -1

VARIABLES
  stage,     \* how far main has come; "down" is no process
  mem,       \* s.data
  disk,      \* the store file
  job,       \* the span of a submitted job, until it is processed
  open,      \* history: that job was submitted without a span
  ran,       \* what the last processed job was made with, and what with
             \* the values a user can expect it should have been
  swept,     \* the ages the last sweep removed, and the retention it had
  saves, faults, crashes,
  expected   \* history: per setting, the values a user can expect to hold;
             \* none where the environment decides

jobVars == <<job, open, ran, swept>>
vars == <<stage, mem, disk, jobVars, saves, faults, crashes, expected>>

WriteOk    == disk' = mem' /\ UNCHANGED faults
WriteFails == faults < MaxFaults /\ faults' = faults + 1 /\ UNCHANGED disk

Init ==
  /\ stage = "down" /\ mem = EmptyData /\ disk = EmptyData
  /\ job = NoJob /\ open = FALSE /\ swept = [ages |-> {}, hours |-> 0]
  /\ ran = [span |-> DefaultSpanSeconds, speed |-> DefaultSpeedMultiplier,
            spans |-> {DefaultSpanSeconds}, speeds |-> {DefaultSpeedMultiplier}]
  /\ saves = 0 /\ faults = 0 /\ crashes = 0
  /\ expected = [n \in Names |-> IF n \in Seeded THEN {} ELSE {0}]

-----------------------------------------------------------------------------
(* The start of the process.                                               *)

Open ==
  /\ stage = "down"
  /\ stage' = "retention"
  /\ mem' = disk
  /\ UNCHANGED <<disk, jobVars, saves, faults, crashes, expected>>

\* Fault: the environment always wins.
SeedAlways(n, env) == env # Unset

Seeds(n, env) == env # Unset /\ n \notin mem.configured

\* Fault: the setting is not marked as configured.
SetOnly(n, v) == mem' = [mem EXCEPT !.value[n] = v]

\* Fault: any setting is marked, also one the environment cannot seed.
SetAndMark(n, v) == mem' = [value |-> [mem.value EXCEPT ![n] = v],
                            configured |-> mem.configured \cup {n}]

\* SetRetentionHours, SetMaxConcurrentJobs and both seeds mark the setting as
\* explicitly configured; the other two are not seeded.
Set(n, v) == mem' = [value |-> [mem.value EXCEPT ![n] = v],
                     configured |-> mem.configured \cup ({n} \cap Seeded)]

\* SeedRetentionHoursIfUnset, then SeedMaxConcurrentJobsIfUnset; main exits
\* when the write fails.
Seed(n, next, env) ==
  /\ stage = n
  /\ IF Seeds(n, env)
     THEN /\ Set(n, env)
          /\ \/ WriteOk /\ stage' = next
             \/ WriteFails /\ stage' = "down"
     ELSE stage' = next /\ UNCHANGED <<mem, disk, faults>>
  /\ UNCHANGED <<jobVars, saves, crashes, expected>>

Crash ==
  /\ stage # "down"
  /\ crashes < MaxCrashes
  /\ crashes' = crashes + 1
  /\ stage' = "down"
  /\ UNCHANGED <<mem, disk, jobVars, saves, faults, expected>>

-----------------------------------------------------------------------------
(* The Setup page.                                                         *)

\* What each form takes; anything else is refused with a message.
Valid(n, v) ==
  CASE n = "retention" -> v >= 0
    [] n = "limit"     -> v \in 0 .. MaxConcurrentJobsCeiling
    [] n = "span"      -> v \in 1 .. 120
    [] n = "speed"     -> v \in 1 .. 8

\* When the write fails the page reports an error; the value is in force
\* until the process ends.
Save(n, v) ==
  /\ stage = "serving" /\ saves < MaxSaves
  /\ Valid(n, v)
  /\ saves' = saves + 1
  /\ Set(n, v)
  /\ \/ WriteOk /\ expected' = [expected EXCEPT ![n] = {v}]
     \/ /\ WriteFails
        /\ expected' = [expected EXCEPT ![n] =
             IF @ = {} THEN {} ELSE @ \cup {v}]
  /\ UNCHANGED <<stage, jobVars, crashes>>

-----------------------------------------------------------------------------
(* The readers.                                                            *)

AutoMaxConcurrentJobs ==
  CASE CPUs <= 2 -> 1
    [] CPUs > 2 /\ CPUs <= 4 -> 2
    [] CPUs > 4 /\ CPUs <= 8 -> 3
    [] OTHER -> MaxConcurrentJobsCeiling

\* Fault: the value is not clamped.
NotClamped(n) == IF n <= 0 THEN AutoMaxConcurrentJobs ELSE n

MaxConcurrentJobs(n) ==
  CASE n <= 0 -> AutoMaxConcurrentJobs
    [] n > MaxConcurrentJobsCeiling -> MaxConcurrentJobsCeiling
    [] OTHER -> n

OrDefault(v, default) == IF v <= 0 THEN default ELSE v

\* One item of POST /jobs: the span is filled in at once, the speed is not
\* part of the request.
Submit(span) ==
  /\ stage = "serving" /\ job = NoJob
  /\ job' = OrDefault(span, DefaultSpanSeconds)
  /\ open' = (span <= 0)
  /\ UNCHANGED <<stage, mem, disk, ran, swept, saves, faults, crashes, expected>>

DefaultSpeed(d) == OrDefault(d.value["speed"], DefaultSpeedMultiplier)
DefaultSpan(d)  == OrDefault(d.value["span"], DefaultSpanSeconds)

\* process reads the settings the job leaves open.
Process ==
  /\ stage = "serving" /\ job # NoJob
  /\ ran' = [span   |-> OrDefault(job, DefaultSpan(mem)),
             speed  |-> DefaultSpeed(mem),
             spans  |-> IF open THEN {OrDefault(v, DefaultSpanSeconds) : v \in expected["span"]}
                                ELSE {job},
             speeds |-> {OrDefault(v, DefaultSpeedMultiplier) : v \in expected["speed"]}]
  /\ job' = NoJob
  /\ UNCHANGED <<stage, mem, disk, open, swept, saves, faults, crashes, expected>>

\* A two's complement time.Duration.
Duration(n) == ((n + (DurationRange \div 2)) % DurationRange) - (DurationRange \div 2)

\* reapOnce: finished jobs updated before the cutoff go, whatever their
\* number; time.Duration(hours) * time.Hour can wrap around.
Sweep ==
  /\ stage = "serving" /\ mem.value["retention"] > 0
  /\ swept' = [hours |-> mem.value["retention"],
               ages  |-> {age \in Ages : age * Hour > Duration(mem.value["retention"] * Hour)}]
  /\ UNCHANGED <<stage, mem, disk, job, open, ran, saves, faults, crashes, expected>>

-----------------------------------------------------------------------------
Next ==
  \/ Open \/ Crash
  \/ \E env \in EnvValues : Seed("retention", "limit", env)
                            \/ Seed("limit", "serving", env)
  \/ \E n \in Names, v \in Inputs : Save(n, v)
  \/ \E span \in {0, 5} : Submit(span)
  \/ Process \/ Sweep

Spec == Init /\ [][Next]_vars

-----------------------------------------------------------------------------
(* Properties.                                                             *)

\* Types; in particular only the seeded settings are marked as configured.
TypeOK ==
  /\ stage \in {"down", "retention", "limit", "serving"}
  /\ mem \in Data /\ disk \in Data
  /\ saves \in Nat /\ faults \in Nat /\ crashes \in Nat
  /\ expected \in [Names -> SUBSET Int]
  /\ ran.span \in Int /\ ran.speed \in Int
  /\ ran.spans \subseteq Int /\ ran.speeds \subseteq Int
  /\ swept.ages \subseteq Ages /\ swept.hours \in Int
  /\ job \in Int /\ open \in BOOLEAN

\* "Seeds the initial value only": a value that was saved on the Setup page
\* stays until the next save, over restarts with other environment variables
\* and failed starts; a save that failed may stay or not.
SavedSticks ==
  stage = "serving" =>
    \A n \in Names : expected[n] # {} => mem.value[n] \in expected[n]

\* Whatever number is in the environment or was saved, the queue admits at
\* least one job and at most the ceiling.
LimitInRange ==
  stage = "serving" =>
    MaxConcurrentJobs(mem.value["limit"]) \in 1 .. MaxConcurrentJobsCeiling

\* A job is captured at the speed the Setup page last saved ("same
\* live-takes-effect pattern"), whenever the job was submitted and over
\* restarts, the default until one is saved.
SpeedApplies == ran.speed \in ran.speeds

-----------------------------------------------------------------------------
(* What the documentation says and the code does not do.                   *)

\* store.go:255-258: a saved clip duration "takes effect on the very next
\* job that omits its own spanSeconds".
SpanApplies == ran.span \in ran.spans

\* README.md:507 and the Setup page: the retention is "how long a done/failed
\* job's media and record stick around", whatever number was accepted.
NotBeforeRetention == \A age \in swept.ages : age >= swept.hours
=============================================================================
