---------------------------- MODULE SharedLemmas ----------------------------
(***************************************************************************)
(* What the proofs about several components rest on: the operators of the  *)
(* job table, for any captures, and loops over a list, for any list.       *)
(***************************************************************************)
EXTENDS JobTable, Lists, SequenceTheorems, FiniteSetTheorems,
        WellFoundedInduction, NaturalsInduction, TLAPS

-----------------------------------------------------------------------------
(* The job table: every operator keeps tables, touches the record it is    *)
(* about and no other, and this is what it makes of that record.           *)

LEMMA RecordType ==
  ASSUME NEW t \in Tables, NEW c \in Captures, Present(t, c)
  PROVE  t[c] \in Job
BY NoJobAssumption DEF Tables, Present

LEMMA EmptyTableType == EmptyTable \in Tables
BY DEF EmptyTable, Tables

LEMMA SubmitType ==
  ASSUME NEW t \in Tables, NEW c \in Captures, NEW r \in Nat, NEW n \in Nat
  PROVE  SubmitJob(t, c, r, n) \in Tables
<1>1. ASSUME t[c] = NoJob PROVE SubmitJob(t, c, r, n) \in Tables
  BY <1>1 DEF SubmitJob, Tables, Job, States
<1>2. ASSUME t[c] # NoJob PROVE SubmitJob(t, c, r, n) \in Tables
  <2>1. t[c].created \in Nat
    BY <1>2, RecordType DEF Present, Job
  <2> QED BY <1>2, <2>1 DEF SubmitJob, Tables, Job, States
<1> QED BY <1>1, <1>2

LEMMA MarkRunningType ==
  ASSUME NEW t \in Tables, NEW c \in Captures, Present(t, c), NEW n \in Nat
  PROVE  /\ MarkRunning(t, c, n) \in Tables
         /\ MarkRunning(t, c, n)[c] \in Job
         /\ MarkRunning(t, c, n)[c].state = "running"
         /\ MarkRunning(t, c, n)[c].req = t[c].req
         /\ MarkRunning(t, c, n)[c].id = t[c].id
<1>1. t[c] \in Job BY RecordType
<1>2. [t[c] EXCEPT !.state = "running", !.updated = n] \in Job
  BY <1>1 DEF Job, States
<1>3. MarkRunning(t, c, n) =
        [t EXCEPT ![c] = [t[c] EXCEPT !.state = "running", !.updated = n]]
  BY <1>1 DEF MarkRunning, Tables, Job
<1>4. MarkRunning(t, c, n)[c] =
        [t[c] EXCEPT !.state = "running", !.updated = n]
  BY <1>3 DEF Tables
<1>5. /\ MarkRunning(t, c, n)[c].state = "running"
      /\ MarkRunning(t, c, n)[c].req = t[c].req
      /\ MarkRunning(t, c, n)[c].id = t[c].id
  BY <1>1, <1>4 DEF Job
<1> QED BY <1>2, <1>3, <1>5 DEF Tables

LEMMA UpdateType ==
  ASSUME NEW t \in Tables, NEW j \in Job, Present(t, j.id), NEW n \in Nat
  PROVE  UpdateJob(t, j, n) \in Tables
<1>1. j.id \in Captures BY DEF Job
<1>2. t[j.id].created \in Nat BY <1>1, RecordType DEF Job
<1>3. [j EXCEPT !.created = t[j.id].created, !.updated = n] \in Job
  BY <1>2 DEF Job
<1> QED BY <1>1, <1>3 DEF UpdateJob, Tables

LEMMA DropType ==
  ASSUME NEW t \in Tables
  PROVE  /\ \A c \in Captures : DeleteJob(t, c) \in Tables
         /\ \A S : Without(t, S) \in Tables
BY DEF DeleteJob, Without, Tables

-----------------------------------------------------------------------------
(* The record an operator leaves, and the records it leaves alone.         *)

\* A stamped record of capture c.
Stamped(j, c, n) == j \in Job /\ j.id = c /\ j.updated = n

LEMMA SubmitRecord ==
  ASSUME NEW t \in Tables, NEW c \in Captures, NEW r \in Nat, NEW n \in Nat
  PROVE  /\ Stamped(SubmitJob(t, c, r, n)[c], c, n)
         /\ SubmitJob(t, c, r, n)[c].state = "queued"
         /\ SubmitJob(t, c, r, n)[c].req = r
         /\ \A d \in Captures : d # c => SubmitJob(t, c, r, n)[d] = t[d]
<1>1. (IF t[c] = NoJob THEN r ELSE t[c].created) \in Nat
  BY RecordType DEF Present, Job
<1>2. SubmitJob(t, c, r, n)[c] =
        [id |-> c, state |-> "queued", req |-> r, updated |-> n,
         created |-> IF t[c] = NoJob THEN r ELSE t[c].created]
  BY DEF SubmitJob, Tables
<1>3. \A d \in Captures : d # c => SubmitJob(t, c, r, n)[d] = t[d]
  BY DEF SubmitJob, Tables
<1> QED BY <1>1, <1>2, <1>3 DEF Stamped, Job, States

LEMMA RunningRecord ==
  ASSUME NEW t \in Tables, NEW c \in Captures, Present(t, c), t[c].id = c,
         NEW n \in Nat
  PROVE  /\ Stamped(MarkRunning(t, c, n)[c], c, n)
         /\ \A d \in Captures : d # c => MarkRunning(t, c, n)[d] = t[d]
<1>1. t[c] \in Job BY RecordType
<1>2. MarkRunning(t, c, n) =
        [t EXCEPT ![c] = [t[c] EXCEPT !.state = "running", !.updated = n]]
  BY <1>1 DEF MarkRunning, Tables, Job
<1>3. /\ MarkRunning(t, c, n)[c] =
           [t[c] EXCEPT !.state = "running", !.updated = n]
      /\ \A d \in Captures : d # c => MarkRunning(t, c, n)[d] = t[d]
  BY <1>2 DEF Tables
<1> QED BY <1>1, <1>3 DEF Stamped, Job, States

LEMMA UpdatedRecord ==
  ASSUME NEW t \in Tables, NEW j \in Job, Present(t, j.id), NEW n \in Nat
  PROVE  /\ Stamped(UpdateJob(t, j, n)[j.id], j.id, n)
         /\ UpdateJob(t, j, n)[j.id].state = j.state
         /\ UpdateJob(t, j, n)[j.id].req = j.req
         /\ \A d \in Captures : d # j.id => UpdateJob(t, j, n)[d] = t[d]
<1>1. j.id \in Captures BY DEF Job
<1>2. t[j.id].created \in Nat BY <1>1, RecordType DEF Job
<1>3. UpdateJob(t, j, n)[j.id] =
        [j EXCEPT !.created = t[j.id].created, !.updated = n]
  BY <1>1 DEF UpdateJob, Tables
<1>4. \A d \in Captures : d # j.id => UpdateJob(t, j, n)[d] = t[d]
  BY <1>1 DEF UpdateJob, Tables
<1> QED BY <1>2, <1>3, <1>4 DEF Stamped, Job

LEMMA DeletedRecord ==
  ASSUME NEW t \in Tables, NEW c \in Captures
  PROVE  /\ DeleteJob(t, c)[c] = NoJob
         /\ \A d \in Captures : d # c => DeleteJob(t, c)[d] = t[d]
BY DEF DeleteJob, Tables

-----------------------------------------------------------------------------
(* Induction.  A counterexample would have a smallest one.                 *)

\* A set of naturals that holds 0 and every successor holds them all.
LEMMA Ascending ==
  ASSUME NEW P \in SUBSET Nat, 0 \in P, \A n \in P : n + 1 \in P
  PROVE  P = Nat
<1> DEFINE missing == Nat \ P
<1> SUFFICES ASSUME missing # {} PROVE FALSE
  OBVIOUS
<1>1. PICK m \in missing : \A n \in missing : ~(<<n, m>> \in OpToRel(<, Nat))
  BY NatLessThanWellFounded, WFMin
<1>2. \A n \in missing : ~(n < m)
  BY <1>1 DEF OpToRel
<1>3. m - 1 \in Nat /\ m - 1 \notin missing
  BY <1>2
<1>4. (m - 1) + 1 = m
  OBVIOUS
<1> QED
  BY <1>3, <1>4

LEMMA Smallest ==
  ASSUME NEW S \in SUBSET Nat, S # {}
  PROVE  \E m \in S : \A n \in S : m <= n
<1>1. PICK m \in S : \A n \in S : ~(<<n, m>> \in OpToRel(<, Nat))
  BY NatLessThanWellFounded, WFMin
<1>2. S \subseteq Nat
  OBVIOUS
<1>3. \A n \in S : ~(n < m)
  BY <1>1, <1>2 DEF OpToRel
<1> QED
  BY <1>2, <1>3

LEMMA Largest ==
  ASSUME NEW n \in Nat, NEW I \in SUBSET (1 .. n), I # {}
  PROVE  Max(I) \in I /\ \A i \in I : i <= Max(I)
<1> DEFINE far == {n - i : i \in I}
<1>1. far \in SUBSET Nat
  <2>1. \A i \in I : n - i \in Nat
    OBVIOUS
  <2> QED
    BY <2>1
<1>2. far # {}
  OBVIOUS
<1> HIDE DEF far
<1>3. PICK m \in far : \A d \in far : m <= d
  BY <1>1, <1>2, Smallest
<1>4. PICK i \in I : m = n - i
  BY DEF far
<1>5. \A j \in I : n - j \in far
  BY DEF far
<1>6. ASSUME NEW j \in I PROVE j <= i
  <2>1. n - i <= n - j
    BY <1>3, <1>4, <1>5
  <2>2. i \in Int /\ j \in Int
    OBVIOUS
  <2> QED
    BY <2>1, <2>2
<1> QED
  BY <1>6 DEF Max

LEMMA LargestOf ==
  ASSUME NEW n \in Nat
  PROVE  Max(1 .. n + 1) = n + 1
<1>1. n + 1 \in Nat /\ 1 .. n + 1 # {} /\ n + 1 \in 1 .. n + 1
  OBVIOUS
<1>2. Max(1 .. n + 1) \in 1 .. n + 1 /\ n + 1 <= Max(1 .. n + 1)
  BY <1>1, Largest
<1> QED
  BY <1>2

-----------------------------------------------------------------------------
(* Places.  Where an element comes to when only those at the positions in  *)
(* J are kept.                                                             *)

Place(J, i) == Cardinality(J \cap (1 .. i))

LEMMA Places ==
  ASSUME NEW J, NEW k \in Nat
  PROVE  /\ Place(J, k) \in Nat /\ Place(J, 0) = 0
         /\ Place(J, k + 1) = IF k + 1 \in J THEN Place(J, k) + 1 ELSE Place(J, k)
         /\ \A i \in 1 .. k : Place(J, i) <= Place(J, k)
         /\ \A i \in 1 .. k : i \in J => Place(J, i) \in 1 .. Place(J, k)
<1>1. \A i \in Nat : IsFiniteSet(J \cap (1 .. i)) /\ Place(J, i) \in Nat
  <2> TAKE i \in Nat
  <2>1. IsFiniteSet(1 .. i)
    BY FS_Interval
  <2>2. IsFiniteSet(J \cap (1 .. i))
    BY <2>1, FS_Subset
  <2> QED
    BY <2>2, FS_CardinalityType DEF Place
<1>2. Place(J, 0) = 0
  <2>1. J \cap (1 .. 0) = {}
    OBVIOUS
  <2> QED
    BY <2>1, FS_EmptySet DEF Place
<1>3. Place(J, k + 1) = IF k + 1 \in J THEN Place(J, k) + 1 ELSE Place(J, k)
  <2>1. 1 .. k + 1 = (1 .. k) \cup {k + 1} /\ k + 1 \notin 1 .. k
    OBVIOUS
  <2>2. CASE k + 1 \in J
    <3>1. /\ J \cap (1 .. k + 1) = (J \cap (1 .. k)) \cup {k + 1}
          /\ k + 1 \notin J \cap (1 .. k)
      BY <2>1, <2>2
    <3> QED
      BY <1>1, <2>2, <3>1, FS_AddElement DEF Place
  <2>3. CASE k + 1 \notin J
    <3>1. J \cap (1 .. k + 1) = J \cap (1 .. k)
      BY <2>1, <2>3
    <3> QED
      BY <2>3, <3>1 DEF Place
  <2> QED
    BY <2>2, <2>3
<1>4. ASSUME NEW i \in 1 .. k
      PROVE  Place(J, i) <= Place(J, k)
  <2>1. J \cap (1 .. i) \subseteq J \cap (1 .. k)
    OBVIOUS
  <2> QED
    BY <1>1, <2>1, FS_Subset DEF Place
<1>5. ASSUME NEW i \in 1 .. k, i \in J
      PROVE  Place(J, i) \in 1 .. Place(J, k)
  <2>1. i \in J \cap (1 .. i) /\ i \in Nat
    BY <1>5
  <2>2. Place(J, i) # 0
    BY <1>1, <2>1, FS_EmptySet DEF Place
  <2>3. Place(J, i) \in Nat /\ Place(J, k) \in Nat
    BY <1>1, <2>1
  <2> QED
    BY <1>4, <2>2, <2>3
<1> QED
  BY <1>1, <1>2, <1>3, <1>4, <1>5

-----------------------------------------------------------------------------
(* Folds.  FoldLeft chooses a function that satisfies its recursion, so    *)
(* there has to be one.                                                    *)

\* The recursion of a fold has a solution, whatever its steps are.
Solves(it, n, base, step) ==
  it = [I \in SUBSET (1 .. n) |->
          IF I = {} THEN base ELSE step[Max(I)][it[I \ {Max(I)}]]]

LEMMA FoldExists ==
  ASSUME NEW n \in Nat, NEW W, NEW base \in W, NEW step \in [1 .. n -> [W -> W]]
  PROVE  \E it \in [SUBSET (1 .. n) -> W] : Solves(it, n, base, step)
<1> DEFINE Upto(k) == \E it \in [SUBSET (1 .. k) -> W] : Solves(it, k, base, step)
           Good == {k \in Nat : k <= n => Upto(k)}
<1>1. 0 \in Good
  <2> DEFINE it == [I \in SUBSET (1 .. 0) |-> base]
  <2>1. \A I \in SUBSET (1 .. 0) : I = {}
    OBVIOUS
  <2>2. it \in [SUBSET (1 .. 0) -> W] /\ Solves(it, 0, base, step)
    BY <2>1 DEF Solves
  <2> QED
    BY <2>2
<1>2. ASSUME NEW k \in Good PROVE k + 1 \in Good
  <2> SUFFICES ASSUME k + 1 <= n PROVE Upto(k + 1)
    <3>1. k + 1 \in Nat
      OBVIOUS
    <3> HIDE DEF Upto
    <3> QED
      BY <3>1
  <2>1. k \in Nat /\ k <= n
    OBVIOUS
  <2>2. PICK old \in [SUBSET (1 .. k) -> W] : Solves(old, k, base, step)
    BY <2>1
  <2> DEFINE it == [I \in SUBSET (1 .. k + 1) |->
                      IF k + 1 \in I THEN step[k + 1][old[I \ {k + 1}]] ELSE old[I]]
  <2>3. ASSUME NEW I \in SUBSET (1 .. k + 1)
        PROVE  /\ it[I] \in W
               /\ it[I] = IF I = {} THEN base ELSE step[Max(I)][it[I \ {Max(I)}]]
    <3>1. CASE k + 1 \in I
      <4>1. Max(I) = k + 1
        <5> HIDE DEF it
        <5>1. k + 1 \in Nat /\ I # {}
          BY <2>1, <3>1
        <5>2. Max(I) \in I /\ k + 1 <= Max(I)
          BY <3>1, <5>1, Largest
        <5>3. Max(I) \in 1 .. k + 1
          BY <5>2
        <5> QED
          BY <2>1, <5>2, <5>3
      <4>2. I \ {k + 1} \in SUBSET (1 .. k) /\ I \ {k + 1} \in SUBSET (1 .. k + 1)
        BY <2>1
      <4>3. it[I \ {k + 1}] = old[I \ {k + 1}]
        BY <4>2
      <4>4. it[I] = step[k + 1][old[I \ {k + 1}]]
        BY <3>1
      <4>5. step[k + 1] \in [W -> W] /\ old[I \ {k + 1}] \in W
        BY <2>1, <4>2
      <4> HIDE DEF it
      <4> QED
        BY <3>1, <4>1, <4>3, <4>4, <4>5
    <3>2. CASE k + 1 \notin I
      <4>1. I \in SUBSET (1 .. k)
        BY <2>1, <3>2
      <4>2. it[I] = old[I] /\ old[I] \in W
        BY <3>2, <4>1
      <4>3. old[I] = IF I = {} THEN base ELSE step[Max(I)][old[I \ {Max(I)}]]
        BY <2>2, <4>1 DEF Solves
      <4>4. I # {} => Max(I) \in I
        BY <2>1, <4>1, Largest
      <4>5. it[I \ {Max(I)}] = old[I \ {Max(I)}]
        BY <3>2, <4>1
      <4> HIDE DEF it
      <4> QED
        BY <4>2, <4>3, <4>5
    <3> QED
      BY <3>1, <3>2
  <2>4. it = [I \in SUBSET (1 .. k + 1) |-> it[I]]
    OBVIOUS
  <2> HIDE DEF it
  <2>5. it \in [SUBSET (1 .. k + 1) -> W] /\ Solves(it, k + 1, base, step)
    BY <2>3, <2>4 DEF Solves
  <2> QED
    BY <2>5
<1> HIDE DEF Upto, Good
<1>3. Good = Nat
  <2>1. Good \in SUBSET Nat
    BY DEF Good
  <2> QED
    BY <1>1, <1>2, <2>1, Ascending
<1>4. Upto(n)
  BY <1>3 DEF Good
<1> QED
  BY <1>4 DEF Upto

\* The last round of a fold over a prefix.
LEMMA PrefixStep ==
  ASSUME NEW n \in Nat, NEW k \in 0 .. n - 1
  PROVE  /\ 1 .. k + 1 \in SUBSET (1 .. n) /\ 1 .. k \in SUBSET (1 .. n)
         /\ 1 .. k + 1 # {} /\ Max(1 .. k + 1) = k + 1
         /\ (1 .. k + 1) \ {k + 1} = 1 .. k
<1>1. Max(1 .. k + 1) = k + 1
  BY LargestOf
<1> QED
  BY <1>1

\* What the loop has kept after so many rounds.
Rounds(at, list, S) ==
  /\ at[0] = <<>> /\ Keep(list, S) = at[Len(list)]
  /\ \A k \in 0 .. Len(list) - 1 :
       at[k + 1] = IF list[k + 1] \in S THEN Append(at[k], list[k + 1]) ELSE at[k]

LEMMA KeepUnrolls ==
  ASSUME NEW V, NEW list \in Seq(V), NEW S
  PROVE  \E at : Rounds(at, list, S)
<1>1. PICK n \in Nat : Len(list) = n /\ DOMAIN list = 1 .. n
                       /\ \A i \in 1 .. n : list[i] \in V
  BY LenProperties, ElementOfSeq
<1> DEFINE Round(w, x) == IF x \in S THEN Append(w, x) ELSE w
           Rec(it) == it = [I \in SUBSET (1 .. n) |-> IF I = {} THEN <<>>
                              ELSE Round(it[I \ {Max(I)}], list[Max(I)])]
           iter == CHOOSE it : Rec(it)
           at == [k \in 0 .. n |-> iter[1 .. k]]
<1>2. Keep(list, S) = iter[1 .. n]
  BY <1>1 DEF Keep, FoldLeft, MapThenFoldSet
<1>3. Rec(iter)
  <2> DEFINE step == [i \in 1 .. n |-> [w \in Seq(V) |-> Round(w, list[i])]]
  <2>1. step \in [1 .. n -> [Seq(V) -> Seq(V)]] /\ <<>> \in Seq(V)
    BY <1>1
  <2> HIDE DEF step
  <2>2. PICK it \in [SUBSET (1 .. n) -> Seq(V)] : Solves(it, n, <<>>, step)
    BY <2>1, FoldExists
  <2>3. ASSUME NEW I \in SUBSET (1 .. n), I # {}
        PROVE  step[Max(I)][it[I \ {Max(I)}]] = Round(it[I \ {Max(I)}], list[Max(I)])
    <3>1. Max(I) \in 1 .. n
      BY <2>3, Largest
    <3>2. it[I \ {Max(I)}] \in Seq(V)
      OBVIOUS
    <3> HIDE DEF Round
    <3> QED
      BY <3>1, <3>2 DEF step
  <2> HIDE DEF Round
  <2>4. Rec(it)
    BY <2>2, <2>3 DEF Solves
  <2> HIDE DEF Rec
  <2> QED
    BY <2>4
<1> HIDE DEF iter
<1>4. iter[{}] = <<>>
  BY <1>3
<1>5. ASSUME NEW k \in 0 .. n - 1
      PROVE  iter[1 .. k + 1] = Round(iter[1 .. k], list[k + 1])
  <2>1. /\ 1 .. k + 1 \in SUBSET (1 .. n) /\ 1 .. k + 1 # {}
        /\ Max(1 .. k + 1) = k + 1 /\ (1 .. k + 1) \ {k + 1} = 1 .. k
    BY PrefixStep
  <2> HIDE DEF Round
  <2>2. iter[1 .. k + 1] = Round(iter[(1 .. k + 1) \ {Max(1 .. k + 1)}],
                                list[Max(1 .. k + 1)])
    BY <1>3, <2>1
  <2> QED
    BY <2>1, <2>2
<1>6. at[0] = <<>> /\ at[n] = iter[1 .. n]
  BY <1>4
<1>7. \A k \in 0 .. n - 1 : at[k + 1] = Round(at[k], list[k + 1])
  BY <1>5
<1> HIDE DEF at
<1> QED
  BY <1>1, <1>2, <1>6, <1>7 DEF Rounds

EachInPlace(kept, list, J) ==
  \A i \in J : Place(J, i) \in 1 .. Len(kept) /\ kept[Place(J, i)] = list[i]

\* What is kept is what passes, all of it, each in its place.
LEMMA KeepKeeps ==
  ASSUME NEW V, NEW list \in Seq(V), NEW S, NEW J,
         \A i : i \in J <=> i \in DOMAIN list /\ list[i] \in S
  PROVE  /\ Keep(list, S) \in Seq(V \cap S)
         /\ Len(Keep(list, S)) = Place(J, Len(list))
         /\ EachInPlace(Keep(list, S), list, J)
<1>1. PICK at : Rounds(at, list, S)
  BY KeepUnrolls
<1>2. PICK n \in Nat : /\ Len(list) = n /\ DOMAIN list = 1 .. n
                       /\ \A i \in 1 .. n : list[i] \in V
                       /\ \A i \in 1 .. n : i \in J <=> list[i] \in S
  BY LenProperties, ElementOfSeq
<1> DEFINE InPlace(q, k) == \A i \in 1 .. k : i \in J => q[Place(J, i)] = list[i]
           Good == {k \in Nat : k <= n => /\ at[k] \in Seq(V \cap S)
                                         /\ Len(at[k]) = Place(J, k)
                                         /\ InPlace(at[k], k)}
<1>3. 0 \in Good
  <2>1. <<>> \in Seq(V \cap S) /\ Len(<<>>) = 0 /\ at[0] = <<>> /\ Place(J, 0) = 0
    BY <1>1, Places DEF Rounds
  <2>2. InPlace(at[0], 0)
    OBVIOUS
  <2> HIDE DEF InPlace
  <2> QED
    BY <2>1, <2>2
<1>4. ASSUME NEW k \in Good PROVE k + 1 \in Good
  <2> SUFFICES ASSUME k + 1 <= n
               PROVE  /\ at[k + 1] \in Seq(V \cap S)
                      /\ Len(at[k + 1]) = Place(J, k + 1)
                      /\ InPlace(at[k + 1], k + 1)
    OBVIOUS
  <2>1. /\ k \in Nat /\ k <= n /\ k \in 0 .. n - 1 /\ k + 1 \in 1 .. n
        /\ at[k] \in Seq(V \cap S) /\ Len(at[k]) = Place(J, k) /\ InPlace(at[k], k)
    OBVIOUS
  <2>2. PICK q \in Seq(V \cap S) : q = at[k] /\ Len(q) = Place(J, k) /\ InPlace(q, k)
    BY <2>1
  <2>3. 1 .. k + 1 = (1 .. k) \cup {k + 1}
    BY <2>1
  <2> HIDE DEF Good
  <2>4. CASE list[k + 1] \notin S
    <3>1. at[k + 1] = q /\ k + 1 \notin J
      BY <1>1, <1>2, <2>1, <2>2, <2>4 DEF Rounds
    <3>2. Place(J, k + 1) = Place(J, k)
      BY <2>1, <3>1, Places
    <3> QED
      BY <2>2, <2>3, <3>1, <3>2
  <2>5. CASE list[k + 1] \in S
    <3>1. PICK x \in V \cap S : x = list[k + 1]
      BY <1>2, <2>1, <2>5
    <3>2. at[k + 1] = Append(q, x) /\ k + 1 \in J
      BY <1>1, <1>2, <2>1, <2>2, <2>5, <3>1 DEF Rounds
    <3>3. Place(J, k + 1) = Place(J, k) + 1
      BY <2>1, <3>2, Places
    <3>4. /\ Append(q, x) \in Seq(V \cap S) /\ Len(Append(q, x)) = Len(q) + 1
          /\ \A i \in 1 .. Len(q) : Append(q, x)[i] = q[i]
          /\ Append(q, x)[Len(q) + 1] = x
      BY AppendProperties
    <3>5. \A i \in 1 .. k : i \in J => Place(J, i) \in 1 .. Len(q)
      BY <2>1, <2>2, Places
    <3>6. InPlace(Append(q, x), k + 1)
      BY <2>2, <2>3, <3>1, <3>3, <3>4, <3>5
    <3> HIDE DEF InPlace
    <3> QED
      BY <2>2, <3>2, <3>3, <3>4, <3>6
  <2> QED
    BY <2>4, <2>5
<1>5. Good = Nat
  <2>1. Good \in SUBSET Nat
    OBVIOUS
  <2> HIDE DEF Good
  <2> QED
    BY <1>3, <1>4, <2>1, Ascending
<1>6. at[n] \in Seq(V \cap S) /\ Len(at[n]) = Place(J, n) /\ InPlace(at[n], n)
  <2> HIDE DEF InPlace, Good
  <2>1. n \in Good /\ n <= n
    BY <1>2, <1>5
  <2> QED
    BY <2>1 DEF Good
<1>7. \A i \in J : i \in 1 .. n /\ Place(J, i) \in 1 .. Place(J, n)
  BY <1>2, Places
<1> QED
  BY <1>1, <1>2, <1>6, <1>7 DEF Rounds, EachInPlace

LEMMA KeepType ==
  ASSUME NEW V, NEW list \in Seq(V), NEW S
  PROVE  Keep(list, S) \in Seq(V \cap S)
<1> DEFINE J == {i \in DOMAIN list : list[i] \in S}
<1>1. \A i : i \in J <=> i \in DOMAIN list /\ list[i] \in S
  OBVIOUS
<1> HIDE DEF J
<1> QED
  BY <1>1, KeepKeeps

-----------------------------------------------------------------------------
(* Folds.  A fold over a list is a loop: what it makes of a longer list is *)
(* one round more.                                                         *)

\* A set of lists that holds the empty one and every longer one holds all.
LEMMA Growing ==
  ASSUME NEW V, NEW P \in SUBSET Seq(V), <<>> \in P,
         \A list \in P, x \in V : Append(list, x) \in P
  PROVE  P = Seq(V)
<1> DEFINE Good == {n \in Nat : \A list \in Seq(V) : Len(list) = n => list \in P}
<1>1. 0 \in Good
  BY EmptySeq
<1>2. ASSUME NEW n \in Good PROVE n + 1 \in Good
  <2> SUFFICES ASSUME NEW list \in Seq(V), Len(list) = n + 1 PROVE list \in P
    OBVIOUS
  <2>1. n \in Nat /\ list # <<>>
    BY EmptySeq
  <2>2. PICK front \in Seq(V), x \in V : list = Append(front, x)
    BY <2>1, SequenceEmptyOrAppend
  <2>3. Len(list) = Len(front) + 1 /\ Len(front) \in Nat
    BY <2>2, AppendProperties, LenProperties
  <2>4. front \in P
    BY <2>1, <2>3
  <2> QED
    BY <2>2, <2>4
<1>3. Good = Nat
  <2>1. Good \in SUBSET Nat
    OBVIOUS
  <2> HIDE DEF Good
  <2> QED
    BY <1>1, <1>2, <2>1, Ascending
<1>4. ASSUME NEW list \in Seq(V) PROVE list \in P
  BY <1>3, LenProperties
<1> QED
  BY <1>4

\* at goes through the loop over the list, F being what one round makes of
\* what there was and the next element.
Runs(at, W, base, F, list) ==
  /\ at[0] = base
  /\ \A k \in 0 .. Len(list) - 1 : at[k] \in W => at[k + 1] = F[at[k]][list[k + 1]]

\* The result of that loop.
Loops(result, W, base, F, list) ==
  \E at : Runs(at, W, base, F, list) /\ result = at[Len(list)]

IsAfter(next, F, w, x) == next = F[w][x]

LEMMA LoopsOn ==
  ASSUME NEW V, NEW W, NEW base \in W, NEW F \in [W -> [V -> W]],
         NEW list \in Seq(V), NEW x \in V, NEW r, NEW next,
         Loops(r, W, base, F, list), Loops(next, W, base, F, Append(list, x))
  PROVE  r \in W /\ IsAfter(next, F, r, x)
<1>1. PICK at : Runs(at, W, base, F, list) /\ r = at[Len(list)]
  BY DEF Loops
<1>2. PICK on : Runs(on, W, base, F, Append(list, x)) /\ next = on[Len(Append(list, x))]
  BY DEF Loops
<1>3. PICK n \in Nat : Len(list) = n /\ \A i \in 1 .. n : list[i] \in V
  BY LenProperties, ElementOfSeq
<1>4. /\ Len(Append(list, x)) = n + 1 /\ Append(list, x)[n + 1] = x
      /\ \A i \in 1 .. n : Append(list, x)[i] = list[i]
  <2>1. /\ Len(Append(list, x)) = Len(list) + 1 /\ Append(list, x)[Len(list) + 1] = x
        /\ \A i \in 1 .. Len(list) : Append(list, x)[i] = list[i]
    BY AppendProperties
  <2> QED
    BY <1>3, <2>1
<1>5. /\ at[0] = base /\ on[0] = base
      /\ \A k \in 0 .. n - 1 : at[k] \in W => at[k + 1] = F[at[k]][list[k + 1]]
      /\ \A k \in 0 .. n : on[k] \in W => on[k + 1] = F[on[k]][Append(list, x)[k + 1]]
  <2>1. 0 .. (n + 1) - 1 = 0 .. n
    OBVIOUS
  <2> QED
    BY <1>2, <1>1, <1>3, <1>4, <2>1 DEF Runs
<1> DEFINE Good == {k \in Nat : k <= n => at[k] \in W /\ on[k] = at[k]}
<1>6. 0 \in Good
  BY <1>5
<1>7. ASSUME NEW k \in Good PROVE k + 1 \in Good
  <2> SUFFICES ASSUME k + 1 <= n PROVE at[k + 1] \in W /\ on[k + 1] = at[k + 1]
    OBVIOUS
  <2>1. /\ k \in 0 .. n - 1 /\ k \in 0 .. n /\ k + 1 \in 1 .. n
        /\ at[k] \in W /\ on[k] = at[k]
    OBVIOUS
  <2>2. at[k + 1] = F[at[k]][list[k + 1]] /\ on[k + 1] = F[at[k]][list[k + 1]]
    BY <1>4, <1>5, <2>1
  <2> QED
    BY <1>3, <2>1, <2>2
<1>8. Good = Nat
  <2>1. Good \in SUBSET Nat
    OBVIOUS
  <2> HIDE DEF Good
  <2> QED
    BY <1>6, <1>7, <2>1, Ascending
<1>9. at[n] \in W /\ on[n] = at[n]
  <2>1. n \in Good /\ n <= n
    <3> HIDE DEF Good
    <3> QED
      BY <1>8
  <2> QED
    BY <2>1
<1> QED
  BY <1>2, <1>1, <1>3, <1>4, <1>5, <1>9 DEF IsAfter

LEMMA LoopsNowhere ==
  ASSUME NEW W, NEW base, NEW F, NEW r, Loops(r, W, base, F, <<>>)
  PROVE  r = base
BY EmptySeq DEF Loops, Runs

\* The recursion of a fold has a solution among functions into W.
Recurs(it, n, base, F, list) ==
  it = [I \in SUBSET (1 .. n) |->
          IF I = {} THEN base ELSE F[it[I \ {Max(I)}]][list[Max(I)]]]

LEMMA RecursionExists ==
  ASSUME NEW V, NEW W, NEW base \in W, NEW F \in [W -> [V -> W]], NEW list \in Seq(V),
         NEW n \in Nat, n = Len(list)
  PROVE  \E it \in [SUBSET (1 .. n) -> W] : Recurs(it, n, base, F, list)
<1>1. \A i \in 1 .. n : list[i] \in V
  BY ElementOfSeq
<1> DEFINE step == [i \in 1 .. n |-> [w \in W |-> F[w][list[i]]]]
<1>2. step \in [1 .. n -> [W -> W]]
  BY <1>1
<1> HIDE DEF step
<1>3. PICK it \in [SUBSET (1 .. n) -> W] : Solves(it, n, base, step)
  BY <1>2, FoldExists
<1>4. ASSUME NEW I \in SUBSET (1 .. n), I # {}
      PROVE  step[Max(I)][it[I \ {Max(I)}]] = F[it[I \ {Max(I)}]][list[Max(I)]]
  <2>1. Max(I) \in 1 .. n
    BY <1>4, Largest
  <2>2. it[I \ {Max(I)}] \in W
    OBVIOUS
  <2> QED
    BY <2>1, <2>2 DEF step
<1> QED
  BY <1>3, <1>4 DEF Solves, Recurs

\* Whatever follows that recursion goes through the list.
Follows(iter, n, W, base, F, list) ==
  /\ iter[{}] = base
  /\ \A I \in SUBSET (1 .. n) : I # {} /\ iter[I \ {Max(I)}] \in W =>
       iter[I] = F[iter[I \ {Max(I)}]][list[Max(I)]]

LEMMA RecursionLoops ==
  ASSUME NEW V, NEW W, NEW base, NEW F, NEW list \in Seq(V), NEW iter,
         NEW n \in Nat, n = Len(list), Follows(iter, n, W, base, F, list)
  PROVE  Loops(iter[1 .. n], W, base, F, list)
<1> DEFINE at == [k \in 0 .. n |-> iter[1 .. k]]
<1>2. at[0] = base /\ at[n] = iter[1 .. n]
  BY DEF Follows
<1>3. ASSUME NEW k \in 0 .. n - 1, at[k] \in W PROVE at[k + 1] = F[at[k]][list[k + 1]]
  <2>1. /\ 1 .. k + 1 \in SUBSET (1 .. n) /\ 1 .. k + 1 # {}
        /\ Max(1 .. k + 1) = k + 1 /\ (1 .. k + 1) \ {k + 1} = 1 .. k
    BY PrefixStep
  <2>2. at[k] = iter[1 .. k] /\ at[k + 1] = iter[1 .. k + 1]
    OBVIOUS
  <2>3. iter[(1 .. k + 1) \ {Max(1 .. k + 1)}] \in W
    BY <1>3, <2>1, <2>2
  <2> HIDE DEF at
  <2>4. iter[1 .. k + 1] = F[iter[(1 .. k + 1) \ {Max(1 .. k + 1)}]][list[Max(1 .. k + 1)]]
    BY <2>1, <2>3 DEF Follows
  <2> QED
    BY <2>1, <2>2, <2>4
<1> HIDE DEF at
<1> QED
  BY <1>2, <1>3 DEF Runs, Loops
=============================================================================
