--------------------------- MODULE SettingsProofs ---------------------------
(***************************************************************************)
(* Theorems about the settings for any environment, any numbers users      *)
(* enter, and any number of saves, failed writes and restarts.             *)
(***************************************************************************)
EXTENDS Settings, TLAPS

-----------------------------------------------------------------------------
(* What every step does to the data.                                       *)

LEMMA SetData ==
  ASSUME NEW n \in Names, NEW v \in Int, mem \in Data, Set(n, v)
  PROVE  /\ mem' \in Data
         /\ mem'.value[n] = v
         /\ \A m \in Names : m # n => mem'.value[m] = mem.value[m]
         /\ mem.configured \subseteq mem'.configured
         /\ n \in Seeded => n \in mem'.configured
<1>1. mem.value \in [Names -> Int] /\ mem.configured \subseteq Seeded
  BY DEF Data
<1>2. /\ mem'.value = [mem.value EXCEPT ![n] = v]
      /\ mem'.configured = mem.configured \cup ({n} \cap Seeded)
  BY DEF Set
<1>3. mem'.value \in [Names -> Int] /\ mem'.configured \subseteq Seeded
  BY <1>1, <1>2
<1>4. mem' \in Data
  BY <1>3 DEF Data, Set
<1> QED
  BY <1>1, <1>2, <1>4

LEMMA FunctionIn ==
  ASSUME NEW S, NEW T, NEW f, f = [x \in S |-> f[x]], \A x \in S : f[x] \in T
  PROVE  f \in [S -> T]
OBVIOUS

LEMMA EmptyIsData == EmptyData \in Data
BY DEF EmptyData, Data, Names, Seeded

\* A failed write leaves the file, any other brings it up to date.
LEMMA WriteKeeps ==
  ASSUME TypeOK, mem' \in Data, WriteOk \/ WriteFails
  PROVE  disk' \in Data /\ faults' \in Nat /\ (disk' = disk \/ disk' = mem')
BY BoundsAssumption DEF TypeOK, WriteOk, WriteFails

LEMMA DefaultIsInt ==
  ASSUME NEW v \in Int, NEW d \in Int
  PROVE  OrDefault(v, d) \in Int
BY DEF OrDefault

-----------------------------------------------------------------------------
(* Types.                                                                  *)

LEMMA InitTypes == Init => TypeOK
<1> SUFFICES ASSUME Init PROVE TypeOK
  OBVIOUS
<1>1. expected \in [Names -> SUBSET Int]
  <2>1. {0} \in SUBSET Int /\ {} \in SUBSET Int
    OBVIOUS
  <2>2. \A n \in Names : expected[n] \in SUBSET Int
    BY <2>1 DEF Init
  <2>3. expected = [n \in Names |-> expected[n]]
    BY DEF Init
  <2> QED
    BY <2>2, <2>3, FunctionIn
<1>2. mem \in Data /\ disk \in Data
  BY EmptyIsData DEF Init
<1>3. /\ ran.span \in Int /\ ran.speed \in Int
      /\ ran.spans \subseteq Int /\ ran.speeds \subseteq Int
  <2>1. ran = [span |-> 20, speed |-> 2, spans |-> {20}, speeds |-> {2}]
    BY DEF Init, DefaultSpanSeconds, DefaultSpeedMultiplier
  <2> QED
    BY <2>1
<1>4. /\ stage \in {"down", "retention", "limit", "serving"}
      /\ job \in Int
      /\ saves \in Nat /\ faults \in Nat /\ crashes \in Nat
  <2>1. /\ stage = "down" /\ job = -1
        /\ saves = 0 /\ faults = 0 /\ crashes = 0
    BY DEF Init, NoJob
  <2> QED
    BY <2>1
<1>6. open \in BOOLEAN
  BY Zenon DEF Init
<1>5. swept.ages \subseteq Ages /\ swept.hours \in Int
  BY DEF Init
<1> QED
  BY <1>1, <1>2, <1>3, <1>4, <1>5, <1>6 DEF TypeOK

LEMMA SeedTypes ==
  ASSUME TypeOK, NEW n \in Seeded, NEW next \in {"limit", "serving"},
         NEW env \in EnvValues, Seed(n, next, env)
  PROVE  TypeOK'
<1>1. /\ mem' \in Data /\ disk' \in Data /\ faults' \in Nat
      /\ stage' \in {"down", "limit", "serving"}
  <2>1. CASE Seeds(n, env)
    <3>1. env \in Int /\ n \in Names
      BY <2>1, EnvAssumption DEF Seeds, Names
    <3>2. mem' \in Data
      BY <2>1, <3>1, SetData DEF Seed, TypeOK
    <3>3. disk' \in Data /\ faults' \in Nat
      BY <2>1, <3>2, WriteKeeps DEF Seed
    <3> QED
      BY <2>1, <3>2, <3>3 DEF Seed
  <2>2. CASE ~Seeds(n, env)
    BY <2>2 DEF Seed, TypeOK
  <2> QED
    BY <2>1, <2>2
<1> QED
  BY <1>1 DEF Seed, TypeOK, jobVars

LEMMA SaveTypes ==
  ASSUME TypeOK, NEW n \in Names, NEW v \in Inputs, Save(n, v)
  PROVE  TypeOK'
<1>1. v \in Int
  BY InputsAssumption
<1>2. mem' \in Data
  BY <1>1, SetData DEF Save, TypeOK
<1>3. disk' \in Data /\ faults' \in Nat
  BY <1>2, WriteKeeps DEF Save
<1>4. expected' \in [Names -> SUBSET Int]
  <2>1. /\ expected \in [Names -> SUBSET Int]
        /\ {v} \in SUBSET Int
        /\ expected[n] = {} \/ expected[n] \cup {v} \in SUBSET Int
    BY <1>1 DEF TypeOK
  <2>2. CASE expected' = [expected EXCEPT ![n] = {v}]
    BY <2>1, <2>2
  <2>3. CASE expected' = [expected EXCEPT ![n] = IF @ = {} THEN {} ELSE @ \cup {v}]
    BY <2>1, <2>3
  <2> QED
    BY <2>2, <2>3 DEF Save
<1> QED
  BY <1>2, <1>3, <1>4, BoundsAssumption DEF Save, TypeOK, jobVars

LEMMA ProcessTypes == TypeOK /\ Process => TypeOK'
<1> SUFFICES ASSUME TypeOK, Process PROVE TypeOK'
  OBVIOUS
<1>1. /\ mem.value["span"] \in Int /\ mem.value["speed"] \in Int
      /\ expected["span"] \subseteq Int /\ expected["speed"] \subseteq Int
  BY DEF TypeOK, Data, Names
<1>2. DefaultSpanSeconds \in Int /\ DefaultSpeedMultiplier \in Int
  BY DEF DefaultSpanSeconds, DefaultSpeedMultiplier
<1>3. OrDefault(job, DefaultSpan(mem)) \in Int /\ DefaultSpeed(mem) \in Int
  BY <1>1, <1>2, DefaultIsInt DEF DefaultSpan, DefaultSpeed, TypeOK
<1>4. /\ {OrDefault(v, DefaultSpanSeconds) : v \in expected["span"]} \subseteq Int
      /\ {OrDefault(v, DefaultSpeedMultiplier) : v \in expected["speed"]} \subseteq Int
  BY <1>1, <1>2, DefaultIsInt
<1>5. job \in Int
  BY DEF TypeOK
<1>6. /\ ran'.span \in Int /\ ran'.speed \in Int
      /\ ran'.spans \subseteq Int /\ ran'.speeds \subseteq Int
  BY <1>3, <1>4, <1>5 DEF Process
<1> QED
  BY <1>6 DEF Process, TypeOK, NoJob

LEMMA TypesStep == TypeOK /\ [Next]_vars => TypeOK'
<1> SUFFICES ASSUME TypeOK, [Next]_vars PROVE TypeOK'
  OBVIOUS
<1>1. CASE Open
  BY <1>1 DEF Open, TypeOK, jobVars
<1>2. CASE Crash
  BY <1>2, BoundsAssumption DEF Crash, TypeOK, jobVars
<1>3. ASSUME NEW env \in EnvValues,
             Seed("retention", "limit", env) \/ Seed("limit", "serving", env)
      PROVE  TypeOK'
  BY <1>3, SeedTypes DEF Seeded
<1>4. ASSUME NEW n \in Names, NEW v \in Inputs, Save(n, v) PROVE TypeOK'
  BY <1>4, SaveTypes
<1>5. ASSUME NEW span \in {0, 5}, Submit(span) PROVE TypeOK'
  <2>1. job' \in Int /\ open' \in BOOLEAN
    BY <1>5 DEF Submit, OrDefault, DefaultSpanSeconds
  <2> QED
    BY <1>5, <2>1 DEF Submit, TypeOK
<1>6. CASE Process
  BY <1>6, ProcessTypes
<1>7. CASE Sweep
  <2>1. mem.value["retention"] \in Int
    BY DEF TypeOK, Data, Names, Seeded
  <2> QED
    BY <1>7, <2>1 DEF Sweep, TypeOK
<1>8. CASE UNCHANGED vars
  BY <1>8 DEF vars, jobVars, TypeOK
<1> QED
  BY <1>1, <1>2, <1>3, <1>4, <1>5, <1>6, <1>7, <1>8 DEF Next

\* Every variable keeps its type; in particular nothing but the two settings
\* the environment can seed is ever marked as configured.
THEOREM TypeCorrect == Spec => []TypeOK
BY InitTypes, TypesStep, PTL DEF Spec

-----------------------------------------------------------------------------
(* The limit the queue reads.                                              *)

LEMMA LimitRange ==
  ASSUME NEW n \in Int
  PROVE  MaxConcurrentJobs(n) \in 1 .. MaxConcurrentJobsCeiling
BY CPUsAssumption
DEF MaxConcurrentJobs, AutoMaxConcurrentJobs, MaxConcurrentJobsCeiling

LEMMA LimitFromTypes == TypeOK => LimitInRange
BY LimitRange DEF TypeOK, LimitInRange, Data, Names, Seeded

\* MaxConcurrentJobs is between one and the ceiling whatever is in the
\* environment, was saved, or is left of a save that failed.
THEOREM LimitAlwaysInRange == Spec => []LimitInRange
BY TypeCorrect, LimitFromTypes, PTL

-----------------------------------------------------------------------------
(* A saved value stays.  At every stage of the process both copies of the  *)
(* data hold a value the user can expect, and mark a setting that was      *)
(* saved as configured: what keeps the seeding of the next start away.     *)

Holds(d) ==
  \A n \in Names : expected[n] # {} =>
    d.value[n] \in expected[n] /\ (n \in Seeded => n \in d.configured)

SavedInv == /\ Holds(mem) /\ Holds(disk)
            /\ \A n \in Names \ Seeded : expected[n] # {}

LEMMA SavedInit == Init => SavedInv
BY DEF Init, SavedInv, Holds, EmptyData, Names, Seeded

LEMMA SeedSaved ==
  ASSUME TypeOK, SavedInv, NEW n \in Seeded, NEW next,
         NEW env \in EnvValues, Seed(n, next, env)
  PROVE  SavedInv'
<1>1. expected' = expected
  BY DEF Seed
<1>2. CASE Seeds(n, env)
  <2>1. env \in Int /\ n \in Names /\ n \notin mem.configured
    BY <1>2, EnvAssumption DEF Seeds, Names
  <2>2. /\ mem' \in Data
        /\ \A m \in Names : m # n => mem'.value[m] = mem.value[m]
        /\ mem.configured \subseteq mem'.configured
    BY <1>2, <2>1, SetData DEF Seed, TypeOK
  <2>3. expected[n] = {}
    BY <2>1 DEF SavedInv, Holds
  <2>4. Holds(mem)'
    BY <1>1, <2>2, <2>3 DEF SavedInv, Holds
  <2>5. disk' = disk \/ disk' = mem'
    BY <1>2, <2>2, WriteKeeps DEF Seed
  <2> QED
    BY <1>1, <2>4, <2>5 DEF SavedInv, Holds
<1>3. CASE ~Seeds(n, env)
  BY <1>3 DEF Seed, SavedInv, Holds
<1> QED
  BY <1>2, <1>3

LEMMA SaveSaved ==
  ASSUME TypeOK, SavedInv, NEW n \in Names, NEW v \in Inputs, Save(n, v)
  PROVE  SavedInv'
<1>1. v \in Int
  BY InputsAssumption
<1>2. /\ mem' \in Data
      /\ mem'.value[n] = v
      /\ \A m \in Names : m # n => mem'.value[m] = mem.value[m]
      /\ mem.configured \subseteq mem'.configured
      /\ n \in Seeded => n \in mem'.configured
  BY <1>1, SetData DEF Save, TypeOK
<1>3. DOMAIN expected = Names
  BY DEF TypeOK
<1>4. CASE WriteOk /\ expected' = [expected EXCEPT ![n] = {v}]
  <2>1. \A m \in Names : expected'[m] = IF m = n THEN {v} ELSE expected[m]
    BY <1>3, <1>4
  <2>2. Holds(mem)'
    BY <1>2, <2>1 DEF SavedInv, Holds
  <2>3. disk' = mem'
    BY <1>4 DEF WriteOk
  <2> QED
    BY <2>1, <2>2, <2>3 DEF SavedInv, Holds
<1>5. CASE /\ WriteFails
           /\ expected' = [expected EXCEPT ![n] = IF @ = {} THEN {} ELSE @ \cup {v}]
  <2>1. \A m \in Names :
          expected'[m] = IF m = n /\ expected[n] # {} THEN expected[n] \cup {v}
                                                      ELSE expected[m]
    BY <1>3, <1>5
  <2>2. Holds(mem)'
    BY <1>2, <2>1 DEF SavedInv, Holds
  <2>3. disk' = disk
    BY <1>5 DEF WriteFails
  <2>4. Holds(disk)'
    BY <2>1, <2>3 DEF SavedInv, Holds
  <2> QED
    BY <2>1, <2>2, <2>4 DEF SavedInv
<1> QED
  BY <1>4, <1>5 DEF Save

LEMMA SavedStep == TypeOK /\ SavedInv /\ [Next]_vars => SavedInv'
<1> SUFFICES ASSUME TypeOK, SavedInv, [Next]_vars PROVE SavedInv'
  OBVIOUS
<1>1. CASE Open
  BY <1>1 DEF Open, SavedInv, Holds
<1>2. ASSUME NEW env \in EnvValues,
             Seed("retention", "limit", env) \/ Seed("limit", "serving", env)
      PROVE  SavedInv'
  BY <1>2, SeedSaved DEF Seeded
<1>3. ASSUME NEW n \in Names, NEW v \in Inputs, Save(n, v) PROVE SavedInv'
  BY <1>3, SaveSaved
<1>4. CASE UNCHANGED <<mem, disk, expected>>
  BY <1>4 DEF SavedInv, Holds
<1> QED
  BY <1>1, <1>2, <1>3, <1>4 DEF Next, Crash, Submit, Process, Sweep, vars

LEMMA SavedImplies == SavedInv => SavedSticks
BY DEF SavedInv, Holds, SavedSticks

\* A value saved on the Setup page is never replaced by an environment
\* variable or lost by a restart or a failed write of another setting.
THEOREM SavedValueSticks == Spec => []SavedSticks
BY TypeCorrect, InitTypes, TypesStep, SavedInit, SavedStep, SavedImplies, PTL
DEF Spec

-----------------------------------------------------------------------------
(* What a job is captured with.                                            *)

LEMMA SpeedStep == SavedInv /\ SpeedApplies /\ [Next]_vars => SpeedApplies'
<1> SUFFICES ASSUME SavedInv, SpeedApplies, [Next]_vars PROVE SpeedApplies'
  OBVIOUS
<1>1. CASE Process
  <2>1. mem.value["speed"] \in expected["speed"]
    BY DEF SavedInv, Holds, Names, Seeded
  <2> QED
    BY <1>1, <2>1 DEF Process, SpeedApplies, DefaultSpeed
<1>2. CASE UNCHANGED ran
  BY <1>2 DEF SpeedApplies
<1> QED
  BY <1>1, <1>2 DEF Next, Open, Crash, Seed, Save, Submit, Sweep, vars, jobVars

LEMMA SpeedInit == Init => SpeedApplies
BY DEF Init, SpeedApplies

\* A job is captured at the speed that was saved last, over every restart
\* and failed write in between, whenever the job was submitted.
THEOREM SavedSpeedApplies == Spec => []SpeedApplies
BY InitTypes, TypesStep, SavedInit, SavedStep, SpeedInit, SpeedStep, PTL DEF Spec
=============================================================================
