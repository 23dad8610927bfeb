--------------------------- MODULE ApiClientProofs ---------------------------
(***************************************************************************)
(* Theorems about a client of the JSON API, what it learns by polling and  *)
(* what its repeated posts cause, for any batch, any number of captures,   *)
(* handlers and workers, any filter, and any number of lost answers,       *)
(* deletions, failed writes and restarts.                                  *)
(***************************************************************************)
EXTENDS ApiClient, SharedLemmas

-----------------------------------------------------------------------------
(* A set of stamps that have been given has a latest one.                  *)

LEMMA LatestStamp ==
  ASSUME NEW S \in SUBSET Nat, S # {}, NEW n \in Nat, \A s \in S : s <= n
  PROVE  \E t \in S : \A s \in S : s <= t
<1> DEFINE T == {n - s : s \in S}
<1>1. \A s \in S : n - s \in Nat
  OBVIOUS
<1>2. T \subseteq Nat /\ T # {}
  BY <1>1
<1>3. PICK m \in T : \A k \in T : ~(<<k, m>> \in OpToRel(<, Nat))
  BY <1>2, NatLessThanWellFounded, WFMin
<1>4. \A k \in T : ~(k < m)
  BY <1>2, <1>3 DEF OpToRel
<1>5. PICK t \in S : m = n - t
  OBVIOUS
<1>6. \A s \in S : ~(n - s < n - t)
  BY <1>4, <1>5
<1>7. ASSUME NEW s \in S PROVE s <= t
  <2>1. s \in Nat /\ t \in Nat /\ ~(n - s < n - t)
    BY <1>6
  <2> QED
    BY <2>1
<1> QED
  BY <1>7

-----------------------------------------------------------------------------
(* The stamps of the table are never ahead of the clock, nor is the        *)
(* client's cursor; what is on its way to the client is newer than the     *)
(* cursor, not newer than the present records of the same captures, and    *)
(* complete up to its own newest record.                                   *)

StampsOK ==
  /\ jobs \in Tables /\ copy \in [Workers -> Job \cup {NoJob}]
  /\ clock \in Nat /\ cursor \in Nat /\ cursor <= clock
  /\ \A c \in Captures :
       Present(jobs, c) => jobs[c].id = c /\ jobs[c].updated <= clock

SavedOK == faults = 0 => saved = jobs

KnownTo(since) ==
  \A c \in Captures :
    /\ Present(jobs, c) /\ jobs[c].state \in Watched
    /\ jobs[c].updated <= since
    => view[c] = jobs[c]

\* An answer, relative to the table as it is by now.
Complete(list) ==
  /\ \A j \in list : /\ j \in Job /\ cursor < j.updated /\ j.updated <= clock
                     /\ Present(jobs, j.id) => j.updated <= jobs[j.id].updated
  /\ \A j, k \in list : j.id = k.id => j = k
  /\ \A c \in Captures :
       Present(jobs, c) /\ jobs[c].state \in Watched /\ cursor < jobs[c].updated =>
         jobs[c] \in list \/ \A j \in list : j.updated < jobs[c].updated

Abreast == /\ StampsOK /\ SavedOK /\ KnownTo(cursor)
           /\ answer # NoAnswer => Complete(answer.jobs)

Inv == /\ faults \in Nat /\ crashes \in Nat
       /\ NothingUnwritten => Abreast

LEMMA InvInit == Init => Inv
<1> SUFFICES ASSUME Init PROVE Inv
  OBVIOUS
<1>1. \A c \in Captures : jobs[c] = NoJob
  BY DEF Init, EmptyTable
<1>2. StampsOK
  BY <1>1, EmptyTableType DEF Init, StampsOK, Present
<1> QED
  BY <1>1, <1>2 DEF Init, Inv, Abreast, SavedOK, KnownTo, Present

\* A write leaves the file at its old state only when it fails.
LEMMA WriteSaves ==
  ASSUME faults \in Nat, crashes \in Nat, Write
  PROVE  faults' \in Nat /\ (faults' = 0 => faults = 0 /\ saved' = jobs')
BY DEF Write, WriteOk, WriteFails

\* One record changes: it is stamped later than anything before, or it goes.
LEMMA TableStep ==
  ASSUME Abreast, NEW c \in Captures, jobs' \in Tables,
         \A d \in Captures : d # c => jobs'[d] = jobs[d],
         \/ clock' = clock /\ jobs'[c] = NoJob
         \/ clock' = clock + 1 /\ Stamped(jobs'[c], c, clock + 1),
         copy' \in [Workers -> Job \cup {NoJob}],
         faults' = 0 => saved' = jobs',
         UNCHANGED <<view, cursor, answer>>
  PROVE  Abreast'
<1>1. clock \in Nat /\ cursor \in Nat /\ cursor <= clock /\ clock <= clock'
      /\ clock' \in Nat
  BY DEF Abreast, StampsOK
<1>2. \A d \in Captures :
        Present(jobs, d)' =>
          \/ d # c /\ Present(jobs, d) /\ jobs'[d] = jobs[d]
          \/ d = c /\ jobs'[d].id = c /\ jobs'[d].updated = clock + 1 /\ clock' = clock + 1
  BY DEF Present, Stamped
<1>3. StampsOK'
  <2>1. \A d \in Captures :
          Present(jobs, d) => /\ jobs[d].id = d /\ jobs[d].updated <= clock
                              /\ jobs[d].updated \in Nat
    BY RecordType DEF Abreast, StampsOK, Job
  <2>2. \A d \in Captures :
          Present(jobs, d)' => jobs'[d].id = d /\ jobs'[d].updated <= clock'
    BY <1>1, <1>2, <2>1
  <2> QED
    BY <1>1, <2>2 DEF StampsOK
<1>4. KnownTo(cursor)'
  BY <1>1, <1>2 DEF Abreast, KnownTo
<1>5. ASSUME answer # NoAnswer PROVE Complete(answer.jobs)'
  <2>1. Complete(answer.jobs)
    BY <1>5 DEF Abreast
  <2>2. \A j \in answer.jobs : j.updated \in Nat /\ j.updated <= clock
    BY <2>1 DEF Complete, Job
  <2>3. \A j \in answer.jobs :
          /\ j \in Job /\ cursor < j.updated /\ j.updated <= clock'
          /\ Present(jobs, j.id)' => j.updated <= jobs'[j.id].updated
    <3> SUFFICES ASSUME NEW j \in answer.jobs
                 PROVE  /\ j \in Job /\ cursor < j.updated /\ j.updated <= clock'
                        /\ Present(jobs, j.id)' => j.updated <= jobs'[j.id].updated
      OBVIOUS
    <3>1. /\ j \in Job /\ cursor < j.updated /\ j.updated <= clock
          /\ Present(jobs, j.id) => j.updated <= jobs[j.id].updated
      BY <2>1 DEF Complete
    <3>2. j.id \in Captures /\ j.updated \in Nat
      BY <3>1 DEF Job
    <3>3. j.updated <= clock'
      BY <1>1, <3>1, <3>2
    <3>4. Present(jobs, j.id)' => j.updated <= jobs'[j.id].updated
      BY <1>1, <1>2, <3>1, <3>2
    <3> QED
      BY <3>1, <3>3, <3>4
  <2>4. ASSUME NEW d \in Captures, Present(jobs, d)', jobs'[d].state \in Watched,
               cursor < jobs'[d].updated
        PROVE  \/ jobs'[d] \in answer.jobs
               \/ \A j \in answer.jobs : j.updated < jobs'[d].updated
    <3>1. CASE d # c
      BY <1>2, <2>1, <2>4, <3>1 DEF Complete
    <3>2. CASE d = c
      BY <1>1, <1>2, <2>2, <2>4, <3>2
    <3> QED
      BY <3>1, <3>2
  <2>5. \A j, k \in answer.jobs : j.id = k.id => j = k
    BY <2>1 DEF Complete
  <2> QED
    BY <2>3, <2>4, <2>5 DEF Complete
<1> QED
  BY <1>3, <1>4, <1>5 DEF Abreast, SavedOK

\* A poll is answered: everything watched that is newer than the cursor.
LEMMA PollStep == Abreast /\ Poll => Abreast'
<1> SUFFICES ASSUME Abreast, Poll PROVE Abreast'
  OBVIOUS
<1>1. UNCHANGED <<jobs, saved, clock, faults, copy, view, cursor>>
  BY DEF Poll, storeVars, workVars
<1>2. StampsOK' /\ SavedOK' /\ KnownTo(cursor)'
  BY <1>1 DEF Abreast, StampsOK, SavedOK, KnownTo, Present
<1>3. ASSUME answer' # NoAnswer PROVE Complete(answer.jobs)'
  <2> DEFINE sent == {d \in Captures :
                /\ jobs[d] # NoJob /\ jobs[d].state \in Watched
                /\ jobs[d].updated > cursor}
  <2>1. answer'.jobs = {jobs[d] : d \in sent}
    BY DEF Poll, ListJobs
  <2>2. \A d \in sent : /\ jobs[d] \in Job /\ jobs[d].id = d
                        /\ cursor < jobs[d].updated /\ jobs[d].updated <= clock
                        /\ jobs[d].updated \in Nat
    BY RecordType DEF Abreast, StampsOK, Present, Job
  <2>3. \A j \in answer'.jobs :
          /\ j \in Job /\ cursor < j.updated /\ j.updated <= clock
          /\ Present(jobs, j.id) => j.updated <= jobs[j.id].updated
    BY <2>1, <2>2
  <2>4. \A j, k \in answer'.jobs : j.id = k.id => j = k
    BY <2>1, <2>2
  <2>5. \A d \in Captures :
          Present(jobs, d) /\ jobs[d].state \in Watched /\ cursor < jobs[d].updated =>
            jobs[d] \in answer'.jobs
    <3> SUFFICES ASSUME NEW d \in Captures, Present(jobs, d),
                        jobs[d].state \in Watched, cursor < jobs[d].updated
                 PROVE  jobs[d] \in answer'.jobs
      OBVIOUS
    <3>1. jobs[d].updated \in Nat /\ cursor \in Nat
      BY RecordType DEF Abreast, StampsOK, Job
    <3>2. d \in sent
      BY <3>1 DEF Present
    <3> QED
      BY <2>1, <3>2
  <2> QED
    BY <1>1, <2>3, <2>4, <2>5 DEF Complete, Present
<1> QED
  BY <1>2, <1>3 DEF Abreast

\* The answer is taken in: what it does not hold is newer than all of it.
LEMMA HearStep == Abreast /\ Hear => Abreast'
<1> SUFFICES ASSUME Abreast, Hear PROVE Abreast'
  OBVIOUS
<1> DEFINE list == answer.jobs
<1>1. /\ answer # NoAnswer /\ answer' = NoAnswer
      /\ UNCHANGED <<jobs, saved, clock, faults, copy>>
      /\ \A c \in Captures :
           view'[c] = IF \E j \in list : j.id = c
                      THEN CHOOSE j \in list : j.id = c ELSE view[c]
  BY DEF Hear, storeVars, workVars
<1>2. /\ Complete(list) /\ clock \in Nat /\ cursor \in Nat /\ cursor <= clock
      /\ jobs \in Tables
  BY <1>1 DEF Abreast, StampsOK
<1>3. SavedOK'
  BY <1>1 DEF Abreast, SavedOK
<1>4. CASE list = {}
  <2>1. cursor' = cursor /\ \A c \in Captures : view'[c] = view[c]
    BY <1>1, <1>4 DEF Hear
  <2>2. StampsOK' /\ KnownTo(cursor)'
    BY <1>1, <2>1 DEF Abreast, StampsOK, KnownTo, Present
  <2> QED
    BY <1>1, <1>3, <2>2 DEF Abreast
<1>5. CASE list # {}
  <2> DEFINE stamps == {j.updated : j \in list}
  <2>1. stamps \subseteq Nat /\ stamps # {} /\ \A s \in stamps : s <= clock /\ cursor < s
    BY <1>2, <1>5 DEF Complete, Job
  <2>2. \E t \in stamps : \A s \in stamps : s <= t
    BY <1>2, <2>1, LatestStamp
  <2>3. \E t \in stamps : \A j \in list : j.updated <= t
    BY <2>2
  <2>4. cursor' = CHOOSE t \in stamps : \A j \in list : j.updated <= t
    BY <1>5 DEF Hear
  <2> HIDE DEF stamps
  <2>5. cursor' \in stamps /\ \A j \in list : j.updated <= cursor'
    BY <2>3, <2>4
  <2>6. /\ cursor' \in Nat /\ cursor' <= clock /\ cursor < cursor'
        /\ \E j \in list : j.updated = cursor'
    BY <2>1, <2>5 DEF stamps
  <2>7. StampsOK'
    BY <1>1, <2>6 DEF Abreast, StampsOK, Present
  <2>8. ASSUME NEW c \in Captures, Present(jobs, c), jobs[c].state \in Watched,
               jobs[c].updated <= cursor'
        PROVE  view'[c] = jobs[c]
    <3>1. jobs[c] \in Job /\ jobs[c].updated \in Nat /\ jobs[c].id = c
      BY <1>2, <2>8, RecordType DEF Abreast, StampsOK, Job
    <3>2. CASE jobs[c].updated <= cursor
      <4>1. \A j \in list : j.id # c
        <5> SUFFICES ASSUME NEW j \in list, j.id = c PROVE FALSE
          OBVIOUS
        <5>1. j.updated \in Nat /\ cursor < j.updated /\ j.updated <= jobs[c].updated
          BY <1>2, <2>8 DEF Complete, Job
        <5> QED
          BY <1>2, <3>1, <3>2, <5>1
      <4> QED
        BY <1>1, <2>8, <3>2, <4>1 DEF Abreast, KnownTo
    <3>3. CASE cursor < jobs[c].updated
      <4>1. ~ \A j \in list : j.updated < jobs[c].updated
        BY <2>6, <2>8, <3>1
      <4>2. jobs[c] \in list
        BY <1>2, <2>8, <3>3, <4>1 DEF Complete
      <4>3. \A j \in list : j.id = c => j = jobs[c]
        BY <1>2, <3>1, <4>2 DEF Complete
      <4>4. (CHOOSE j \in list : j.id = c) = jobs[c]
        BY <3>1, <4>2, <4>3
      <4> QED
        BY <1>1, <3>1, <4>2, <4>4
    <3> QED
      BY <1>2, <3>1, <3>2, <3>3
  <2>9. KnownTo(cursor)'
    BY <1>1, <2>8 DEF KnownTo, Present
  <2> QED
    BY <1>1, <1>3, <2>7, <2>9 DEF Abreast
<1> QED
  BY <1>4, <1>5

\* Neither the table nor what the client knows of it changes.
LEMMA QuietStep ==
  ASSUME Abreast, UNCHANGED <<jobs, saved, clock, faults, view, cursor>>,
         copy' \in [Workers -> Job \cup {NoJob}],
         answer' \in {answer, NoAnswer}
  PROVE  Abreast'
BY DEF Abreast, StampsOK, SavedOK, KnownTo, Complete, Present

-----------------------------------------------------------------------------
(* The steps of the others.                                                *)

LEMMA TakeStep ==
  ASSUME Inv, Abreast, NEW p \in Posts, NEW c \in Captures, TakeItem(p, c)
  PROVE  Abreast'
<1>1. UNCHANGED <<copy, view, cursor, answer>>
  BY DEF TakeItem, workVars, pollVars
<1>2. CASE Accepts(jobs, c, post[p].force)
  <2>1. /\ clock' = clock + 1 /\ jobs' = SubmitJob(jobs, c, clock + 1, clock + 1)
        /\ Write
    BY <1>2 DEF TakeItem, Now
  <2> DEFINE n == clock + 1
  <2>2. jobs \in Tables /\ n \in Nat
    BY DEF Abreast, StampsOK
  <2> HIDE DEF n
  <2>3. /\ SubmitJob(jobs, c, n, n) \in Tables
        /\ Stamped(SubmitJob(jobs, c, n, n)[c], c, n)
        /\ \A d \in Captures : d # c => SubmitJob(jobs, c, n, n)[d] = jobs[d]
    BY <2>2, SubmitType, SubmitRecord
  <2>4. copy' \in [Workers -> Job \cup {NoJob}]
    BY <1>1 DEF Abreast, StampsOK
  <2>5. faults' = 0 => saved' = jobs'
    BY <2>1, WriteSaves DEF Inv
  <2> QED
    BY <1>1, <2>1, <2>3, <2>4, <2>5, TableStep DEF n
<1>3. CASE ~Accepts(jobs, c, post[p].force)
  BY <1>1, <1>3, QuietStep DEF TakeItem, storeVars, Abreast, StampsOK
<1> QED
  BY <1>2, <1>3

LEMMA ClaimStep ==
  ASSUME Inv, Abreast, NEW w \in Workers, NEW c \in Captures, Claim(w, c)
  PROVE  Abreast'
<1>1. /\ jobs \in Tables /\ clock + 1 \in Nat /\ Present(jobs, c)
      /\ jobs[c].id = c
  BY DEF Abreast, StampsOK, Claim, IsNextQueued, IsQueued, Present
<1>2. clock' = clock + 1 /\ jobs' = MarkRunning(jobs, c, clock + 1) /\ Write
  BY DEF Claim, Now
<1>3. /\ jobs' \in Tables
      /\ Stamped(jobs'[c], c, clock + 1)
      /\ \A d \in Captures : d # c => jobs'[d] = jobs[d]
  BY <1>1, <1>2, MarkRunningType, RunningRecord
<1>4. copy' \in [Workers -> Job \cup {NoJob}]
  BY <1>3 DEF Claim, Abreast, StampsOK, Stamped
<1>5. faults' = 0 => saved' = jobs'
  BY <1>2, WriteSaves DEF Inv
<1> QED
  BY <1>2, <1>3, <1>4, <1>5, TableStep DEF Claim, pollVars

LEMMA ReportStep ==
  ASSUME Inv, Abreast, NEW w \in Workers, NEW s \in Outcomes, Report(w, s)
  PROVE  Abreast'
<1>1. copy[w] \in Job /\ jobs \in Tables /\ clock + 1 \in Nat
  BY DEF Abreast, StampsOK, Report
<1>2. copy' \in [Workers -> Job \cup {NoJob}]
  BY DEF Report, Abreast, StampsOK
<1>3. CASE Present(jobs, copy[w].id)
  <2> DEFINE j == [copy[w] EXCEPT !.state = s]
  <2>1. j \in Job /\ j.id = copy[w].id /\ j.id \in Captures
    BY <1>1, OutcomesAssumption DEF Job, States, Terminal
  <2>2. clock' = clock + 1 /\ jobs' = UpdateJob(jobs, j, clock + 1) /\ Write
    BY <1>3 DEF Report, Now
  <2> HIDE DEF j
  <2>3. /\ jobs' \in Tables
        /\ Stamped(jobs'[j.id], j.id, clock + 1)
        /\ \A d \in Captures : d # j.id => jobs'[d] = jobs[d]
    BY <1>1, <1>3, <2>1, <2>2, UpdateType, UpdatedRecord
  <2>4. faults' = 0 => saved' = jobs'
    BY <2>2, WriteSaves DEF Inv
  <2> QED
    BY <1>2, <2>1, <2>2, <2>3, <2>4, TableStep DEF Report, pollVars
<1>4. CASE ~Present(jobs, copy[w].id)
  BY <1>2, <1>4, QuietStep DEF Report, storeVars, pollVars
<1> QED
  BY <1>3, <1>4

LEMMA DropStep ==
  ASSUME Inv, Abreast, NEW c \in Captures, Drop(c)
  PROVE  Abreast'
<1>1. jobs \in Tables
  BY DEF Abreast, StampsOK
<1>2. /\ jobs' \in Tables /\ jobs'[c] = NoJob
      /\ \A d \in Captures : d # c => jobs'[d] = jobs[d]
  BY <1>1, DropType, DeletedRecord DEF Drop
<1>3. UNCHANGED <<clock, copy, view, cursor, answer>>
  BY DEF Drop, workVars, pollVars
<1>4. copy' \in [Workers -> Job \cup {NoJob}]
  BY <1>3 DEF Abreast, StampsOK
<1>5. faults' = 0 => saved' = jobs'
  BY WriteSaves DEF Inv, Drop
<1> QED
  BY <1>2, <1>3, <1>4, <1>5, TableStep

\* Without a failed write the file that is loaded is the table.
LEMMA RestartStep ==
  ASSUME Inv, Restart, NothingUnwritten'
  PROVE  Abreast'
<1>1. faults = 0 /\ UNCHANGED <<saved, clock, faults, view, cursor>>
      /\ answer' = NoAnswer /\ jobs' = saved
      /\ copy' \in [Workers -> Job \cup {NoJob}]
  BY DEF Restart, NothingUnwritten, Inv
<1>2. Abreast
  BY <1>1 DEF Inv, NothingUnwritten
<1>3. jobs' = jobs
  BY <1>1, <1>2 DEF Abreast, SavedOK
<1> QED
  BY <1>1, <1>2, <1>3, QuietStep

\* What was not written before a restart stays so.
LEMMA UnwrittenLasts ==
  ASSUME Inv, [Next]_vars
  PROVE  /\ faults' \in Nat /\ crashes' \in Nat
         /\ NothingUnwritten' => NothingUnwritten
<1>1. CASE UNCHANGED <<faults, crashes>>
  BY <1>1 DEF Inv, NothingUnwritten
<1>2. CASE Write /\ UNCHANGED crashes
  BY <1>2 DEF Inv, NothingUnwritten, Write, WriteOk, WriteFails
<1>3. CASE Restart
  BY <1>3 DEF Inv, NothingUnwritten, Restart
<1> QED
  BY <1>1, <1>2, <1>3
  DEF Next, Client, Handle, Work, Send, LoseAnswer, AskAgain, Poll, Hear,
      LosePoll, TakeItem, Refuse, Accepted, Answered, Claim, Report, Drop,
      vars, storeVars, boundVars

LEMMA InvStep == Inv /\ [Next]_vars => Inv'
<1> SUFFICES ASSUME Inv, [Next]_vars PROVE Inv'
  OBVIOUS
<1>1. /\ faults' \in Nat /\ crashes' \in Nat
      /\ NothingUnwritten' => NothingUnwritten
  BY UnwrittenLasts
<1>2. ASSUME NothingUnwritten' PROVE Abreast'
  <2>0. Abreast
    BY <1>1, <1>2 DEF Inv
  <2>1. ASSUME NEW p \in Posts, NEW c \in Captures, TakeItem(p, c) PROVE Abreast'
    BY <2>0, <2>1, TakeStep
  <2>2. ASSUME NEW w \in Workers, NEW c \in Captures, Claim(w, c) PROVE Abreast'
    BY <2>0, <2>2, ClaimStep
  <2>3. ASSUME NEW w \in Workers, NEW s \in Outcomes, Report(w, s) PROVE Abreast'
    BY <2>0, <2>3, ReportStep
  <2>4. ASSUME NEW c \in Captures, Drop(c) PROVE Abreast'
    BY <2>0, <2>4, DropStep
  <2>5. CASE Restart
    BY <1>2, <2>5, RestartStep
  <2>6. CASE Poll
    BY <2>0, <2>6, PollStep
  <2>7. CASE Hear
    BY <2>0, <2>7, HearStep
  <2>8. CASE /\ UNCHANGED <<jobs, saved, clock, faults, view, cursor, copy>>
             /\ answer' \in {answer, NoAnswer}
    BY <2>0, <2>8, QuietStep DEF Abreast, StampsOK
  <2> QED
    BY <2>1, <2>2, <2>3, <2>4, <2>5, <2>6, <2>7, <2>8
    DEF Next, Client, Handle, Work, Send, LoseAnswer, AskAgain, LosePoll,
        Refuse, Accepted, Answered, vars, storeVars, workVars, pollVars
<1> QED
  BY <1>1, <1>2 DEF Inv

LEMMA InvImplies == Inv => KnownUpToCursor
BY DEF Inv, Abreast, KnownTo, KnownUpToCursor

\* A client that polls with the largest updatedAt it has seen misses no
\* change of a record it watches, over lost answers, deletions, repeated
\* submissions and restarts, whatever the filter.
THEOREM PollsMissNothing == Spec => []KnownUpToCursor
BY InvInit, InvStep, InvImplies, PTL DEF Spec

-----------------------------------------------------------------------------
(* Repeated posts.  With force the client posts at most one capture, and   *)
(* what a handler has left of such a post is that capture or nothing.      *)

Single(items) == items = <<>> \/ \E c \in Captures : items = <<c>>

Forced(p) == post[p] # NoPost /\ post[p].force

PostsOK ==
  /\ DOMAIN post = Posts
  /\ \A p \in Posts : post[p] # NoPost =>
       post[p] = [items |-> post[p].items, force |-> post[p].force]
  /\ \A p \in Posts : Forced(p) => Single(post[p].items)
  /\ force => Single(wanted)
  /\ waiting \in Posts /\ post[waiting] # NoPost => post[waiting].force = force

LEMMA PostsInit == Init => PostsOK
BY DEF Init, PostsOK, Forced

\* What is left of the post of one handler, when it takes an item.
LEMMA NextItemEffect ==
  ASSUME PostsOK, NEW p \in Posts, NEW c \in Captures, TakeItem(p, c)
  PROVE  /\ DOMAIN post' = Posts
         /\ \A q \in Posts : q # p => post'[q] = post[q]
         /\ post'[p] = [items |-> Tail(post[p].items), force |-> post[p].force]
         /\ Forced(p) => post[p].items = <<c>> /\ post'[p].items = <<>>
<1>1. post[p] # NoPost /\ post[p].items # <<>> /\ Head(post[p].items) = c
  BY DEF TakeItem
<1>2. post[p] = [items |-> post[p].items, force |-> post[p].force]
  BY <1>1 DEF PostsOK
<1>3. /\ DOMAIN post' = Posts
      /\ \A q \in Posts : q # p => post'[q] = post[q]
      /\ post'[p] = [post[p] EXCEPT !.items = Tail(post[p].items)]
  BY DEF TakeItem, NextItem, PostsOK
<1>4. post'[p] = [items |-> Tail(post[p].items), force |-> post[p].force]
  BY <1>2, <1>3
<1>5. ASSUME Forced(p) PROVE post[p].items = <<c>> /\ post'[p].items = <<>>
  <2>1. PICK d \in Captures : post[p].items = <<d>>
    BY <1>1, <1>5 DEF PostsOK, Single
  <2>2. d = c /\ Tail(<<d>>) = <<>>
    BY <1>1, <2>1
  <2> QED
    BY <1>4, <2>1, <2>2
<1> QED
  BY <1>3, <1>4, <1>5

LEMMA PostsStep == PostsOK /\ [Next]_vars => PostsOK'
<1> SUFFICES ASSUME PostsOK, [Next]_vars PROVE PostsOK'
  OBVIOUS
<1>1. ASSUME NEW p \in Posts, Send(p) PROVE PostsOK'
  <2>1. /\ DOMAIN post' = Posts
        /\ \A q \in Posts : q # p => post'[q] = post[q]
        /\ post'[p] = [items |-> wanted, force |-> force]
        /\ waiting' = p /\ UNCHANGED <<wanted, force>>
    BY <1>1 DEF Send, PostsOK
  <2> QED
    BY <2>1 DEF PostsOK, Forced
<1>2. ASSUME NEW p \in Posts, NEW c \in Captures, TakeItem(p, c) PROVE PostsOK'
  <2>1. UNCHANGED <<wanted, force, waiting>> /\ post[p] # NoPost
    BY <1>2 DEF TakeItem, clientVars
  <2>2. /\ DOMAIN post' = Posts
        /\ \A q \in Posts : q # p => post'[q] = post[q]
        /\ post'[p] = [items |-> Tail(post[p].items), force |-> post[p].force]
        /\ Forced(p) => post'[p].items = <<>>
    BY <1>2, NextItemEffect
  <2>3. post'[p].force = post[p].force
    BY <2>2
  <2> QED
    BY <2>1, <2>2, <2>3 DEF PostsOK, Forced, Single
<1>3. ASSUME NEW p \in Posts, Refuse(p) \/ Accepted(p) PROVE PostsOK'
  <2>1. /\ DOMAIN post' = Posts
        /\ \A q \in Posts : q # p => post'[q] = post[q]
        /\ post'[p] = NoPost /\ post[p] # NoPost
        /\ UNCHANGED force
    BY <1>3 DEF Refuse, Accepted, Answered, PostsOK
  <2>2. CASE waiting # p
    <3>1. UNCHANGED <<waiting, wanted>>
      BY <1>3, <2>2 DEF Refuse, Accepted, Answered
    <3> QED
      BY <2>1, <3>1 DEF PostsOK, Forced
  <2>3. CASE waiting = p
    <3>1. force => Single(wanted')
      <4>1. CASE Accepted(p)
        BY <2>3, <4>1 DEF Accepted, Answered, Single
      <4>2. CASE Refuse(p)
        <5>1. post[p].items # <<>> /\ Head(post[p].items) = Bad
          BY <4>2 DEF Refuse
        <5>2. ~Single(post[p].items)
          BY <5>1, BadAssumption DEF Single
        <5> QED
          BY <2>1, <2>3, <5>2 DEF PostsOK, Forced
      <4> QED
        BY <1>3, <4>1, <4>2
    <3>2. waiting' = NoPost
      BY <1>3, <2>3 DEF Refuse, Accepted, Answered
    <3> QED
      BY <2>1, <3>1, <3>2, NullAssumption DEF PostsOK, Forced
  <2> QED
    BY <2>2, <2>3
<1>4. CASE LoseAnswer
  BY <1>4, NullAssumption DEF LoseAnswer, PostsOK, Forced
<1>5. ASSUME NEW c \in Captures, AskAgain(c) PROVE PostsOK'
  BY <1>5, NullAssumption DEF AskAgain, PostsOK, Forced, Single
<1>6. CASE Restart
  BY <1>6, NullAssumption DEF Restart, PostsOK, Forced
<1>7. CASE UNCHANGED <<post, wanted, force, waiting>>
  BY <1>7 DEF PostsOK, Forced
<1> QED
  BY <1>1, <1>2, <1>3, <1>4, <1>5, <1>6, <1>7
  DEF Next, Client, Handle, Work, Poll, Hear, LosePoll, Claim, Report, Drop,
      vars, clientVars

-----------------------------------------------------------------------------
(* What may still be claimed: a capture that is queued, or that the next   *)
(* post will queue because it is not there, and a post with force that has *)
(* still to be taken.                                                      *)

Due(c) == IF ~Present(jobs, c) \/ IsQueued(jobs, c) THEN 1 ELSE 0

Forcing(c) == {p \in Posts : Forced(p) /\ post[p].items = <<c>>}

CountsOK == claims \in [Captures -> Nat] /\ chances \in [Captures -> Nat]

Covered ==
  \A c \in Captures :
    claims[c] + Due(c) + Cardinality(Forcing(c)) <= chances[c]

RedoInv == CountsOK /\ (NothingUnwritten => Covered)

LEMMA ForcingFinite ==
  ASSUME NEW c
  PROVE  IsFiniteSet(Forcing(c)) /\ Cardinality(Forcing(c)) \in Nat
<1>1. Forcing(c) \subseteq Posts
  BY DEF Forcing
<1> QED
  BY <1>1, PostsAssumption, FS_Subset, FS_CardinalityType

LEMMA RedoInit == Init => RedoInv
<1> SUFFICES ASSUME Init PROVE RedoInv
  OBVIOUS
<1>1. \A c \in Captures : Forcing(c) = {}
  BY DEF Init, Forcing, Forced
<1>2. \A c \in Captures : Cardinality(Forcing(c)) = 0
  BY <1>1, FS_EmptySet
<1>3. \A c \in Captures : claims[c] = 0 /\ chances[c] = 1 /\ Due(c) = 1
  BY DEF Init, Due, Present, EmptyTable
<1>4. Covered
  <2> SUFFICES ASSUME NEW c \in Captures
               PROVE  claims[c] + Due(c) + Cardinality(Forcing(c)) <= chances[c]
    BY DEF Covered
  <2>1. claims[c] = 0 /\ chances[c] = 1 /\ Due(c) = 1 /\ Cardinality(Forcing(c)) = 0
    BY <1>2, <1>3
  <2> QED
    BY <2>1
<1> QED
  BY <1>4 DEF Init, RedoInv, CountsOK

\* A step that makes nothing more likely.
LEMMA RedoFrame ==
  ASSUME CountsOK, Covered, UNCHANGED claims, CountsOK',
         \A c \in Captures : /\ Forcing(c)' \subseteq Forcing(c)
                             /\ chances[c] <= chances'[c]
                             /\ Due(c)' <= Due(c) \/ chances[c] < chances'[c]
  PROVE  Covered'
<1> SUFFICES ASSUME NEW c \in Captures
             PROVE  claims'[c] + Due(c)' + Cardinality(Forcing(c)') <= chances'[c]
  BY DEF Covered
<1>1. /\ Cardinality(Forcing(c)) \in Nat /\ Cardinality(Forcing(c)') \in Nat
      /\ Cardinality(Forcing(c)') <= Cardinality(Forcing(c))
  BY ForcingFinite, FS_Subset, FS_CardinalityType
<1>2. Due(c) \in 0 .. 1 /\ Due(c)' \in 0 .. 1
  BY DEF Due
<1>3. claims[c] \in Nat /\ chances[c] \in Nat /\ chances'[c] \in Nat
  BY DEF CountsOK
<1>4. claims[c] + Due(c) + Cardinality(Forcing(c)) <= chances[c]
  BY DEF Covered
<1> QED
  BY <1>1, <1>2, <1>3, <1>4

\* A post that is sent with force adds to the chances of what it asks for.
LEMMA SendRedo ==
  ASSUME PostsOK, CountsOK, Covered, NEW p \in Posts, Send(p)
  PROVE  CountsOK' /\ Covered'
<1> DEFINE asks(c) == \E i \in DOMAIN wanted : wanted[i] = c
<1>1. \A c \in Captures : chances'[c] = IF force /\ asks(c) THEN chances[c] + 1
                                                            ELSE chances[c]
  BY DEF Send
<1>2. CountsOK'
  BY DEF Send, CountsOK, workVars
<1>3. /\ \A q \in Posts : q # p => post'[q] = post[q]
      /\ post'[p] = [items |-> wanted, force |-> force]
      /\ post[p] = NoPost
  BY DEF Send, PostsOK
<1>4. UNCHANGED <<jobs, claims>>
  BY DEF Send, storeVars, workVars
<1> SUFFICES ASSUME NEW c \in Captures
             PROVE  claims'[c] + Due(c)' + Cardinality(Forcing(c)') <= chances'[c]
  BY <1>2 DEF Covered
<1>5. Due(c)' = Due(c) /\ Due(c) \in 0 .. 1
  BY <1>4 DEF Due, Present, IsQueued
<1>6. claims[c] \in Nat /\ chances[c] \in Nat
  BY DEF CountsOK
<1>7. claims[c] + Due(c) + Cardinality(Forcing(c)) <= chances[c]
  BY DEF Covered
<1>8. CASE force /\ wanted = <<c>>
  <2>1. asks(c)
    BY <1>8
  <2>2. Forcing(c)' \subseteq Forcing(c) \cup {p}
    BY <1>3 DEF Forcing, Forced
  <2>3. /\ IsFiniteSet(Forcing(c) \cup {p})
        /\ Cardinality(Forcing(c) \cup {p}) <= Cardinality(Forcing(c)) + 1
        /\ Cardinality(Forcing(c)) \in Nat
        /\ Cardinality(Forcing(c) \cup {p}) \in Nat
    <3>1. IsFiniteSet(Forcing(c)) /\ Cardinality(Forcing(c)) \in Nat
      BY ForcingFinite
    <3>2. /\ IsFiniteSet(Forcing(c) \cup {p})
          /\ \/ Cardinality(Forcing(c) \cup {p}) = Cardinality(Forcing(c))
             \/ Cardinality(Forcing(c) \cup {p}) = Cardinality(Forcing(c)) + 1
      BY <3>1, FS_AddElement
    <3> QED
      BY <3>1, <3>2
  <2>4. /\ Cardinality(Forcing(c)') \in Nat
        /\ Cardinality(Forcing(c)') <= Cardinality(Forcing(c) \cup {p})
    BY <2>2, <2>3, FS_Subset, FS_CardinalityType
  <2>5. chances'[c] = chances[c] + 1
    BY <1>1, <1>8, <2>1
  <2> QED
    BY <1>4, <1>5, <1>6, <1>7, <2>3, <2>4, <2>5
<1>9. CASE ~(force /\ wanted = <<c>>)
  <2>1. Forcing(c)' = Forcing(c)
    BY <1>3, <1>9 DEF Forcing, Forced
  <2>2. chances'[c] \in Nat /\ chances[c] <= chances'[c]
    BY <1>1, <1>6
  <2> QED
    BY <1>4, <1>5, <1>6, <1>7, <2>1, <2>2, ForcingFinite
<1> QED
  BY <1>8, <1>9

\* A capture is queued because it was not there, or at the cost of a post
\* with force.
LEMMA TakeRedo ==
  ASSUME PostsOK, StampsOK, CountsOK, Covered,
         NEW p \in Posts, NEW c \in Captures, TakeItem(p, c)
  PROVE  CountsOK' /\ Covered'
<1>1. UNCHANGED <<claims, chances>> /\ post[p] # NoPost
  BY DEF TakeItem, workVars, clientVars
<1>2. CountsOK'
  BY <1>1 DEF CountsOK
<1>3. /\ \A q \in Posts : q # p => post'[q] = post[q]
      /\ post'[p] = [items |-> Tail(post[p].items), force |-> post[p].force]
      /\ Forced(p) => post[p].items = <<c>> /\ post'[p].items = <<>>
  BY NextItemEffect
<1>4. \A d \in Captures : Forcing(d)' \subseteq Forcing(d) \ {p}
  <2>1. \A d \in Captures : <<>> # <<d>>
    OBVIOUS
  <2>2. post'[p].force = post[p].force
    BY <1>3
  <2>3. \A d \in Captures : p \notin Forcing(d)'
    BY <1>1, <1>3, <2>1, <2>2 DEF Forcing, Forced
  <2>4. \A d \in Captures, q \in Posts :
          q # p /\ q \in Forcing(d)' => q \in Forcing(d)
    BY <1>3 DEF Forcing, Forced
  <2> QED
    BY <2>3, <2>4 DEF Forcing
<1>5. CASE ~Accepts(jobs, c, post[p].force)
  <2>1. \A d \in Captures : Due(d)' = Due(d)
    BY <1>5 DEF TakeItem, storeVars, Due, Present, IsQueued
  <2>2. \A d \in Captures : /\ Due(d) \in 0 .. 1 /\ chances[d] \in Nat
                            /\ Forcing(d)' \subseteq Forcing(d)
    BY <1>4 DEF Due, CountsOK
  <2> QED
    BY <1>1, <1>2, <2>1, <2>2, RedoFrame
<1>6. CASE Accepts(jobs, c, post[p].force)
  <2>1. jobs' = SubmitJob(jobs, c, clock + 1, clock + 1)
    BY <1>6 DEF TakeItem, Now
  <2>2. jobs \in Tables /\ clock + 1 \in Nat
    BY DEF StampsOK
  <2>3. \A d \in Captures : d # c => jobs'[d] = jobs[d]
    BY <2>1, <2>2, SubmitRecord
  <2>4. \A d \in Captures : d # c => Due(d)' = Due(d)
    BY <2>3 DEF Due, Present, IsQueued
  <2>5. \A d \in Captures : /\ Due(d) \in 0 .. 1 /\ Due(d)' \in 0 .. 1
                            /\ claims[d] \in Nat /\ chances[d] \in Nat
                            /\ claims[d] + Due(d) + Cardinality(Forcing(d)) <= chances[d]
    BY DEF Due, CountsOK, Covered
  <2>6. CASE ~Present(jobs, c)
    <3>1. Due(c) = 1
      BY <2>6 DEF Due
    <3>2. \A d \in Captures : /\ Due(d)' <= Due(d)
                              /\ Forcing(d)' \subseteq Forcing(d)
      BY <1>4, <2>4, <2>5, <3>1
    <3> QED
      BY <1>1, <1>2, <2>5, <3>2, RedoFrame
  <2>7. CASE Present(jobs, c)
    <3>1. Forced(p) /\ p \in Forcing(c)
      BY <1>1, <1>3, <1>6, <2>7 DEF Accepts, Present, Forced, Forcing
    <3>2. ASSUME NEW d \in Captures
          PROVE  /\ Cardinality(Forcing(d)') \in Nat
                 /\ Cardinality(Forcing(d)') <= Cardinality(Forcing(d))
                 /\ Cardinality(Forcing(d)) \in Nat
      BY <1>4, ForcingFinite, FS_Subset, FS_CardinalityType
    <3>3. Cardinality(Forcing(c) \ {p}) = Cardinality(Forcing(c)) - 1
      BY <3>1, ForcingFinite, FS_RemoveElement
    <3>4. Cardinality(Forcing(c)') <= Cardinality(Forcing(c) \ {p})
      BY <1>4, ForcingFinite, FS_RemoveElement, FS_Subset
    <3>5. Cardinality(Forcing(c)') <= Cardinality(Forcing(c)) - 1
      BY <3>3, <3>4
    <3>6. ASSUME NEW d \in Captures
          PROVE  claims'[d] + Due(d)' + Cardinality(Forcing(d)') <= chances'[d]
      <4>1. CASE d = c
        BY <1>1, <2>5, <3>2, <3>5, <4>1
      <4>2. CASE d # c
        BY <1>1, <2>4, <2>5, <3>2, <4>2
      <4> QED
        BY <4>1, <4>2
    <3> QED
      BY <1>2, <3>6 DEF Covered
  <2> QED
    BY <2>6, <2>7
<1> QED
  BY <1>5, <1>6

\* A claim is what a queued capture was due.
LEMMA ClaimRedo ==
  ASSUME StampsOK, CountsOK, Covered,
         NEW w \in Workers, NEW c \in Captures, Claim(w, c)
  PROVE  CountsOK' /\ Covered'
<1>1. UNCHANGED <<post, chances>> /\ claims' = [claims EXCEPT ![c] = @ + 1]
  BY DEF Claim, clientVars
<1>2. CountsOK'
  BY <1>1 DEF CountsOK
<1>3. /\ jobs \in Tables /\ clock + 1 \in Nat /\ IsQueued(jobs, c)
      /\ Present(jobs, c) /\ jobs[c].id = c
  BY DEF StampsOK, Claim, IsNextQueued, IsQueued, Present
<1>4. jobs' = MarkRunning(jobs, c, clock + 1)
  BY DEF Claim, Now
<1>5. /\ \A d \in Captures : d # c => jobs'[d] = jobs[d]
      /\ jobs'[c] \in Job /\ jobs'[c].state = "running"
  BY <1>3, <1>4, MarkRunningType, RunningRecord
<1>6. Due(c) = 1 /\ Due(c)' = 0
  BY <1>3, <1>5, NoJobAssumption DEF Due, Present, IsQueued
<1>7. \A d \in Captures : d # c => Due(d)' = Due(d)
  BY <1>5 DEF Due, Present, IsQueued
<1>8. \A d \in Captures : /\ Forcing(d)' = Forcing(d)
                          /\ Cardinality(Forcing(d)) \in Nat
  BY <1>1, ForcingFinite DEF Forcing, Forced
<1>9. \A d \in Captures : /\ Due(d) \in 0 .. 1
                          /\ claims[d] \in Nat /\ chances[d] \in Nat
                          /\ claims[d] + Due(d) + Cardinality(Forcing(d)) <= chances[d]
                          /\ claims'[d] = IF d = c THEN claims[d] + 1 ELSE claims[d]
  BY <1>1 DEF Due, CountsOK, Covered
<1>10. Covered'
  BY <1>1, <1>6, <1>7, <1>8, <1>9 DEF Covered
<1> QED
  BY <1>2, <1>10

\* A report ends an attempt and queues nothing.
LEMMA ReportRedo ==
  ASSUME StampsOK, CountsOK, Covered,
         NEW w \in Workers, NEW s \in Outcomes, Report(w, s)
  PROVE  CountsOK' /\ Covered'
<1>1. UNCHANGED <<post, claims, chances>>
  BY DEF Report, clientVars
<1>2. CountsOK'
  BY <1>1 DEF CountsOK
<1>3. copy[w] \in Job /\ jobs \in Tables /\ clock + 1 \in Nat
  BY DEF StampsOK, Report
<1>4. \A d \in Captures : Due(d)' <= Due(d)
  <2>1. CASE Present(jobs, copy[w].id)
    <3>1. PICK j \in Job : /\ j = [copy[w] EXCEPT !.state = s]
                           /\ j.id = copy[w].id /\ j.state = s
      <4>1. s \in States
        BY OutcomesAssumption DEF States, Terminal
      <4>2. /\ [copy[w] EXCEPT !.state = s] \in Job
            /\ [copy[w] EXCEPT !.state = s].id = copy[w].id
            /\ [copy[w] EXCEPT !.state = s].state = s
        BY <1>3, <4>1 DEF Job
      <4> QED
        BY <4>2, Zenon
    <3>2. PICK n \in Nat : n = clock + 1
      BY <1>3
    <3>3. jobs' = UpdateJob(jobs, j, n) /\ Present(jobs, j.id) /\ j.id \in Captures
      BY <2>1, <3>1, <3>2 DEF Report, Now, Job
    <3>4. /\ jobs'[j.id] \in Job /\ jobs'[j.id].state = s
          /\ \A d \in Captures : d # j.id => jobs'[d] = jobs[d]
      <4>1. /\ Stamped(UpdateJob(jobs, j, n)[j.id], j.id, n)
            /\ UpdateJob(jobs, j, n)[j.id].state = j.state
            /\ \A d \in Captures : d # j.id => UpdateJob(jobs, j, n)[d] = jobs[d]
        BY <1>3, <3>3, UpdatedRecord
      <4> QED
        BY <3>1, <3>3, <4>1 DEF Stamped
    <3>5. Due(j.id)' = 0
      BY <3>4, OutcomesAssumption, NoJobAssumption
      DEF Due, Present, IsQueued, Terminal
    <3>6. \A d \in Captures : d # j.id => Due(d)' = Due(d)
      BY <3>4 DEF Due, Present, IsQueued
    <3>7. \A d \in Captures : Due(d) \in 0 .. 1
      BY DEF Due
    <3> QED
      BY <3>5, <3>6, <3>7
  <2>2. CASE ~Present(jobs, copy[w].id)
    BY <2>2 DEF Report, storeVars, Due, Present, IsQueued
  <2> QED
    BY <2>1, <2>2
<1>5. \A d \in Captures : Forcing(d)' = Forcing(d) /\ chances[d] \in Nat
  BY <1>1 DEF Forcing, Forced, CountsOK
<1> QED
  BY <1>1, <1>2, <1>4, <1>5, RedoFrame

\* A deletion makes one more attempt possible.
LEMMA DropRedo ==
  ASSUME StampsOK, CountsOK, Covered, NEW c \in Captures, Drop(c)
  PROVE  CountsOK' /\ Covered'
<1>1. /\ UNCHANGED <<post, claims>> /\ jobs \in Tables
      /\ chances' = [chances EXCEPT ![c] = @ + 1]
      /\ jobs' = DeleteJob(jobs, c)
  BY DEF Drop, workVars, StampsOK
<1>2. CountsOK'
  BY <1>1 DEF CountsOK
<1>3. \A d \in Captures : d # c => jobs'[d] = jobs[d]
  BY <1>1, DeletedRecord
<1>4. \A d \in Captures : d # c => Due(d)' = Due(d)
  BY <1>3 DEF Due, Present, IsQueued
<1>5. \A d \in Captures :
        /\ Forcing(d)' = Forcing(d) /\ chances[d] \in Nat /\ Due(d) \in 0 .. 1
        /\ chances'[d] = IF d = c THEN chances[d] + 1 ELSE chances[d]
  BY <1>1 DEF Forcing, Forced, CountsOK, Due
<1>6. \A d \in Captures : /\ Forcing(d)' \subseteq Forcing(d)
                          /\ chances[d] <= chances'[d]
                          /\ Due(d)' <= Due(d) \/ chances[d] < chances'[d]
  BY <1>4, <1>5
<1> QED
  BY <1>1, <1>2, <1>6, RedoFrame

\* Neither the table nor the counts change, and no handler gets a post.
LEMMA QuietRedo ==
  ASSUME CountsOK, Covered, UNCHANGED <<jobs, claims, chances>>,
         \A p \in Posts : post'[p] \in {post[p], NoPost}
  PROVE  CountsOK' /\ Covered'
<1>1. CountsOK'
  BY DEF CountsOK
<1>2. \A d \in Captures : /\ Forcing(d)' \subseteq Forcing(d)
                          /\ Due(d)' = Due(d) /\ Due(d) \in 0 .. 1
                          /\ chances[d] \in Nat
  BY DEF Forcing, Forced, Due, Present, IsQueued, CountsOK
<1> QED
  BY <1>1, <1>2, RedoFrame

LEMMA CountsStep == CountsOK /\ [Next]_vars => CountsOK'
<1> SUFFICES ASSUME CountsOK, [Next]_vars PROVE CountsOK'
  OBVIOUS
<1>1. ASSUME NEW p \in Posts, Send(p) PROVE CountsOK'
  BY <1>1 DEF Send, CountsOK, workVars
<1>2. ASSUME NEW w \in Workers, NEW c \in Captures, Claim(w, c) PROVE CountsOK'
  BY <1>2 DEF Claim, CountsOK, clientVars
<1>3. ASSUME NEW c \in Captures, Drop(c) PROVE CountsOK'
  BY <1>3 DEF Drop, CountsOK, workVars
<1>4. CASE UNCHANGED <<claims, chances>>
  BY <1>4 DEF CountsOK
<1> QED
  BY <1>1, <1>2, <1>3, <1>4
  DEF Next, Client, Handle, Work, LoseAnswer, AskAgain, Poll, Hear, LosePoll,
      TakeItem, Refuse, Accepted, Answered, Report, Restart, vars, workVars,
      clientVars

LEMMA RedoStep == Inv /\ PostsOK /\ RedoInv /\ [Next]_vars => RedoInv'
<1> SUFFICES ASSUME Inv, PostsOK, RedoInv, [Next]_vars PROVE RedoInv'
  OBVIOUS
<1>1. CountsOK'
  BY CountsStep DEF RedoInv
<1>2. ASSUME NothingUnwritten' PROVE Covered'
  <2>0. NothingUnwritten /\ Abreast
    BY <1>2, UnwrittenLasts DEF Inv
  <2>1. StampsOK /\ CountsOK /\ Covered
    BY <2>0 DEF Abreast, RedoInv
  <2>2. ASSUME NEW p \in Posts, Send(p) PROVE Covered'
    BY <2>1, <2>2, SendRedo
  <2>3. ASSUME NEW p \in Posts, NEW c \in Captures, TakeItem(p, c) PROVE Covered'
    BY <2>1, <2>3, TakeRedo
  <2>4. ASSUME NEW w \in Workers, NEW c \in Captures, Claim(w, c) PROVE Covered'
    BY <2>1, <2>4, ClaimRedo
  <2>5. ASSUME NEW w \in Workers, NEW s \in Outcomes, Report(w, s) PROVE Covered'
    BY <2>1, <2>5, ReportRedo
  <2>6. ASSUME NEW c \in Captures, Drop(c) PROVE Covered'
    BY <2>1, <2>6, DropRedo
  <2>7. ASSUME NEW p \in Posts, Refuse(p) \/ Accepted(p) PROVE Covered'
    <3>1. \A q \in Posts : post'[q] \in {post[q], NoPost}
      BY <2>7 DEF Refuse, Accepted, Answered, PostsOK
    <3> QED
      BY <2>1, <2>7, <3>1, QuietRedo
      DEF Refuse, Accepted, Answered, storeVars, workVars
  <2>8. CASE Restart
    <3>1. jobs' = saved /\ faults = 0
      BY <1>2, <2>8 DEF Restart, NothingUnwritten, Inv
    <3>2. jobs' = jobs
      BY <2>0, <3>1 DEF Abreast, SavedOK
    <3> QED
      BY <2>1, <2>8, <3>2, QuietRedo DEF Restart
  <2>9. CASE UNCHANGED <<jobs, claims, chances, post>>
    BY <2>1, <2>9, QuietRedo
  <2> QED
    BY <2>2, <2>3, <2>4, <2>5, <2>6, <2>7, <2>8, <2>9
    DEF Next, Client, Handle, Work, LoseAnswer, AskAgain, Poll, Hear, LosePoll,
        vars, storeVars, workVars, clientVars
<1> QED
  BY <1>1, <1>2 DEF RedoInv

LEMMA RedoImplies == RedoInv => NoRedo
<1> SUFFICES ASSUME RedoInv, NothingUnwritten, NEW c \in Captures
             PROVE  claims[c] <= chances[c]
  BY DEF NoRedo
<1>1. claims[c] + Due(c) + Cardinality(Forcing(c)) <= chances[c]
  BY DEF RedoInv, Covered
<1>2. claims[c] \in Nat /\ chances[c] \in Nat /\ Due(c) \in 0 .. 1
  BY DEF RedoInv, CountsOK, Due
<1> QED
  BY <1>1, <1>2, ForcingFinite

\* A capture is claimed at most once, and once more for every deletion and
\* every post with force, however often a batch is posted again because its
\* answer did not come, and while an earlier handler is still at it.
THEOREM RepeatsMakeNothingAgain == Spec => []NoRedo
BY InvInit, InvStep, PostsInit, PostsStep, RedoInit, RedoStep, RedoImplies, PTL
DEF Spec

-----------------------------------------------------------------------------
(* The types of all variables.  They hold whatever failed to be written,   *)
(* and so does that no stamp is ahead of the clock, without which the      *)
(* client's cursor would have nothing largest to move to.                  *)

Dated(table) ==
  \A c \in Captures : Present(table, c) => table[c].updated <= clock

TableTypes == /\ jobs \in Tables /\ saved \in Tables /\ clock \in Nat
              /\ copy \in [Workers -> Job \cup {NoJob}]
              /\ Dated(jobs) /\ Dated(saved)

PostTypes == /\ post \in [Posts -> Post \cup {NoPost}]
             /\ wanted \in Seq(Items) /\ force \in BOOLEAN
             /\ waiting \in Posts \cup {NoPost}

PollTypes == /\ view \in Tables /\ cursor \in Nat
             /\ answer \in List \cup {NoAnswer}
             /\ answer # NoAnswer => \A j \in answer.jobs : j.updated <= clock

BoundTypes == /\ lost \in Nat /\ forced \in Nat /\ drops \in Nat
              /\ faults \in Nat /\ crashes \in Nat

Types == TableTypes /\ PostTypes /\ PollTypes /\ CountsOK /\ BoundTypes

\* A table with later stamps, or fewer, is written or not.
LEMMA TablesKept ==
  ASSUME TableTypes, Write, jobs' \in Tables,
         copy' \in [Workers -> Job \cup {NoJob}],
         clock' \in {clock, clock + 1},
         \A c \in Captures : Present(jobs, c)' =>
           jobs'[c] = jobs[c] \/ jobs'[c].updated = clock'
  PROVE  TableTypes'
<1>1. /\ clock \in Nat /\ clock' \in Nat /\ clock <= clock'
  BY DEF TableTypes
<1>2. \A t \in Tables : Dated(t) => Dated(t)'
  <2> SUFFICES ASSUME NEW t \in Tables, Dated(t), NEW c \in Captures, Present(t, c)
               PROVE  t[c].updated <= clock'
    BY DEF Dated, Present
  <2>1. t[c].updated \in Nat /\ t[c].updated <= clock
    BY RecordType DEF Dated, Job
  <2> QED
    BY <1>1, <2>1
<1>3. Dated(jobs)'
  <2> SUFFICES ASSUME NEW c \in Captures, Present(jobs, c)'
               PROVE  jobs'[c].updated <= clock'
    BY DEF Dated
  <2>1. CASE jobs'[c] = jobs[c]
    <3>1. Present(jobs, c) /\ jobs \in Tables /\ Dated(jobs)
      BY <2>1 DEF Present, TableTypes
    <3>2. jobs[c].updated \in Nat /\ jobs[c].updated <= clock
      BY <3>1, RecordType DEF Dated, Job
    <3> QED
      BY <1>1, <2>1, <3>2
  <2> QED
    BY <1>1, <2>1
<1>4. saved' \in Tables /\ Dated(saved)'
  <2>1. CASE saved' = jobs'
    BY <1>3, <2>1 DEF Dated
  <2>2. CASE saved' = saved
    BY <1>2, <2>2 DEF TableTypes, Dated
  <2> QED
    BY <2>1, <2>2 DEF Write, WriteOk, WriteFails
<1> QED
  BY <1>1, <1>3, <1>4 DEF TableTypes

LEMMA TableTypesKept ==
  ASSUME TableTypes, [Next]_vars
  PROVE  TableTypes' /\ clock <= clock'
<1>1. clock \in Nat /\ clock <= clock /\ clock <= clock + 1
  BY DEF TableTypes
<1>2. PICK n \in Nat : n = clock + 1
  BY <1>1
<1>3. CASE UNCHANGED <<jobs, saved, clock, copy>>
  BY <1>1, <1>3 DEF TableTypes, Dated, Present
<1>4. ASSUME NEW p \in Posts, NEW c \in Captures, TakeItem(p, c)
      PROVE  TableTypes' /\ clock <= clock'
  <2>1. CASE Accepts(jobs, c, post[p].force)
    <3>1. /\ jobs' = SubmitJob(jobs, c, n, n) /\ clock' = n /\ Write
          /\ jobs \in Tables /\ copy' = copy
      BY <1>2, <1>4, <2>1 DEF TakeItem, Now, TableTypes, workVars
    <3>2. /\ SubmitJob(jobs, c, n, n) \in Tables
          /\ Stamped(SubmitJob(jobs, c, n, n)[c], c, n)
          /\ \A d \in Captures : d # c => SubmitJob(jobs, c, n, n)[d] = jobs[d]
      BY <3>1, SubmitType, SubmitRecord
    <3>3. /\ jobs' \in Tables /\ jobs'[c].updated = n
          /\ \A d \in Captures : d # c => jobs'[d] = jobs[d]
      BY <3>1, <3>2 DEF Stamped
    <3> QED
      BY <1>1, <1>2, <3>1, <3>3, TablesKept DEF TableTypes
  <2>2. CASE ~Accepts(jobs, c, post[p].force)
    BY <1>3, <1>4, <2>2 DEF TakeItem, storeVars, workVars
  <2> QED
    BY <2>1, <2>2
<1>5. ASSUME NEW w \in Workers, NEW c \in Captures, Claim(w, c)
      PROVE  TableTypes' /\ clock <= clock'
  <2>1. /\ jobs' = MarkRunning(jobs, c, n) /\ clock' = n /\ Write
        /\ jobs \in Tables /\ Present(jobs, c) /\ jobs[c] \in Job
    BY <1>2, <1>5, RecordType DEF Claim, Now, TableTypes, IsNextQueued, IsQueued, Present
  <2>2. /\ jobs' \in Tables /\ jobs'[c] \in Job /\ jobs'[c].updated = n
        /\ \A d \in Captures : d # c => jobs'[d] = jobs[d]
    <3>1. jobs' = [jobs EXCEPT ![c] =
                     [jobs[c] EXCEPT !.state = "running", !.updated = n]]
      BY <2>1 DEF MarkRunning, Tables, Job
    <3>2. [jobs[c] EXCEPT !.state = "running", !.updated = n].updated = n
      BY <2>1 DEF Job
    <3>3. jobs' \in Tables /\ jobs'[c] \in Job
      BY <2>1, MarkRunningType
    <3> QED
      BY <2>1, <3>1, <3>2, <3>3 DEF Tables
  <2>3. copy' \in [Workers -> Job \cup {NoJob}]
    BY <1>5, <2>2 DEF Claim, TableTypes
  <2> QED
    BY <1>1, <1>2, <2>1, <2>2, <2>3, TablesKept
<1>6. ASSUME NEW w \in Workers, NEW s \in Outcomes, Report(w, s)
      PROVE  TableTypes' /\ clock <= clock'
  <2>1. copy' \in [Workers -> Job \cup {NoJob}] /\ copy[w] \in Job /\ jobs \in Tables
    BY <1>6 DEF Report, TableTypes
  <2>2. CASE Present(jobs, copy[w].id)
    <3>1. PICK j \in Job : j = [copy[w] EXCEPT !.state = s] /\ j.id = copy[w].id
      <4>1. s \in States
        BY OutcomesAssumption DEF States, Terminal
      <4>2. /\ [copy[w] EXCEPT !.state = s] \in Job
            /\ [copy[w] EXCEPT !.state = s].id = copy[w].id
        BY <2>1, <4>1 DEF Job
      <4> QED
        BY <4>2, Zenon
    <3>2. jobs' = UpdateJob(jobs, j, n) /\ clock' = n /\ Write /\ j.id \in Captures
      BY <1>2, <1>6, <2>2, <3>1 DEF Report, Now, Job
    <3>3. /\ jobs' \in Tables /\ jobs'[j.id].updated = n
          /\ \A d \in Captures : d # j.id => jobs'[d] = jobs[d]
      BY <2>1, <2>2, <3>1, <3>2, UpdateType, UpdatedRecord DEF Stamped
    <3> QED
      BY <1>1, <1>2, <2>1, <3>2, <3>3, TablesKept
  <2>3. CASE ~Present(jobs, copy[w].id)
    BY <1>1, <1>6, <2>1, <2>3 DEF Report, storeVars, TableTypes, Dated, Present
  <2> QED
    BY <2>2, <2>3
<1>7. ASSUME NEW c \in Captures, Drop(c)
      PROVE  TableTypes' /\ clock <= clock'
  <2>1. /\ jobs' = DeleteJob(jobs, c) /\ Write /\ jobs \in Tables
        /\ clock' = clock /\ copy' = copy
    BY <1>7 DEF Drop, workVars, TableTypes
  <2>2. /\ jobs' \in Tables /\ jobs'[c] = NoJob
        /\ \A d \in Captures : d # c => jobs'[d] = jobs[d]
    BY <2>1, DropType, DeletedRecord
  <2> QED
    BY <1>1, <2>1, <2>2, TablesKept DEF TableTypes, Present
<1>8. CASE Restart
  BY <1>1, <1>8 DEF Restart, TableTypes, Dated, Present
<1> QED
  BY <1>3, <1>4, <1>5, <1>6, <1>7, <1>8
  DEF Next, Client, Handle, Work, Send, LoseAnswer, AskAgain, Poll, Hear,
      LosePoll, Refuse, Accepted, Answered, vars, storeVars, workVars

LEMMA PostTypesKept ==
  ASSUME PostTypes, [Next]_vars
  PROVE  PostTypes'
<1>1. CASE UNCHANGED <<post, wanted, force, waiting>>
  BY <1>1 DEF PostTypes
<1>2. ASSUME NEW p \in Posts, Send(p) PROVE PostTypes'
  <2>1. [items |-> wanted, force |-> force] \in Post
    BY DEF PostTypes, Post
  <2> QED
    BY <1>2, <2>1 DEF Send, PostTypes
<1>3. ASSUME NEW p \in Posts, NEW c \in Captures, TakeItem(p, c) PROVE PostTypes'
  <2>1. PICK items \in Seq(Items), f \in BOOLEAN :
          post[p] = [items |-> items, force |-> f] /\ items # <<>>
    BY <1>3 DEF TakeItem, PostTypes, Post
  <2>2. Tail(items) \in Seq(Items)
    BY <2>1, HeadTailProperties
  <2>3. [items |-> Tail(items), force |-> f] \in Post
    BY <2>2 DEF Post
  <2>4. post' = [post EXCEPT ![p] = [post[p] EXCEPT !.items = Tail(post[p].items)]]
    BY <1>3 DEF TakeItem, NextItem
  <2>5. [post[p] EXCEPT !.items = Tail(post[p].items)] =
          [items |-> Tail(items), force |-> f]
    BY <2>1
  <2> QED
    BY <1>3, <2>3, <2>4, <2>5 DEF TakeItem, clientVars, PostTypes
<1>4. ASSUME NEW p \in Posts, Refuse(p) \/ Accepted(p) PROVE PostTypes'
  <2>1. /\ Keep(wanted, Captures) \in Seq(Items) /\ <<>> \in Seq(Items)
    <3>1. wanted \in Seq(Items)
      BY DEF PostTypes
    <3>2. Keep(wanted, Captures) \in Seq(Items \cap Captures)
      BY <3>1, KeepType
    <3>3. Items \cap Captures \subseteq Items
      OBVIOUS
    <3> QED
      BY <3>2, <3>3
  <2>2. PICK left \in Seq(Items) : Answered(p, left)
    BY <1>4, <2>1 DEF Refuse, Accepted
  <2> QED
    BY <2>2 DEF Answered, PostTypes
<1>5. CASE LoseAnswer
  BY <1>5 DEF LoseAnswer, PostTypes
<1>6. ASSUME NEW c \in Captures, AskAgain(c) PROVE PostTypes'
  <2>1. <<c>> \in Seq(Items)
    BY DEF Items
  <2> QED
    BY <1>6, <2>1 DEF AskAgain, PostTypes
<1>7. CASE Restart
  BY <1>7 DEF Restart, PostTypes
<1> QED
  BY <1>1, <1>2, <1>3, <1>4, <1>5, <1>6, <1>7
  DEF Next, Client, Handle, Work, Poll, Hear, LosePoll, Claim, Report, Drop,
      vars, clientVars

LEMMA PollTypesKept ==
  ASSUME TableTypes, clock' \in Nat, clock <= clock', PollTypes, [Next]_vars
  PROVE  PollTypes'
<1>1. CASE UNCHANGED <<view, cursor>> /\ answer' \in {answer, NoAnswer}
  <2>1. answer # NoAnswer => \A j \in answer.jobs : j.updated \in Nat
    BY DEF PollTypes, List, Job
  <2>2. clock \in Nat
    BY DEF TableTypes
  <2> QED
    BY <1>1, <2>1, <2>2 DEF PollTypes
<1>2. CASE Poll
  <2> DEFINE sent == {d \in Captures : /\ jobs[d] # NoJob /\ jobs[d].state \in Watched
                                     /\ jobs[d].updated > cursor}
  <2>1. answer' = [jobs |-> {jobs[d] : d \in sent}]
    BY <1>2 DEF Poll, ListJobs
  <2>2. \A d \in sent : jobs[d] \in Job /\ jobs[d].updated <= clock
    BY RecordType DEF TableTypes, Dated, Present
  <2> HIDE DEF sent
  <2>3. answer' \in List /\ \A j \in answer'.jobs : j.updated <= clock
    BY <2>1, <2>2 DEF List
  <2>4. UNCHANGED <<view, cursor, clock>>
    BY <1>2 DEF Poll, storeVars
  <2> QED
    BY <2>3, <2>4 DEF PollTypes
<1>3. CASE Hear
  <2>1. PICK list \in SUBSET Job :
          list = answer.jobs /\ \A j \in list : j.updated <= clock
    BY <1>3 DEF Hear, PollTypes, List
  <2>2. view' \in Tables
    <3>1. view' = [c \in Captures |->
                     IF \E j \in list : j.id = c
                     THEN CHOOSE j \in list : j.id = c ELSE view[c]]
      BY <1>3, <2>1 DEF Hear
    <3>2. view \in Tables
      BY DEF PollTypes
    <3> QED
      BY <3>1, <3>2 DEF Tables
  <2>3. cursor' \in Nat
    <3>1. CASE list = {}
      BY <1>3, <2>1, <3>1 DEF Hear, PollTypes
    <3>2. CASE list # {}
      <4> DEFINE stamps == {j.updated : j \in list}
      <4>1. stamps \subseteq Nat /\ stamps # {} /\ \A s \in stamps : s <= clock
        BY <2>1, <3>2 DEF Job
      <4>2. \E t \in stamps : \A s \in stamps : s <= t
        BY <4>1, LatestStamp DEF TableTypes
      <4>3. \E t \in stamps : \A j \in list : j.updated <= t
        BY <4>2
      <4>4. cursor' = CHOOSE t \in stamps : \A j \in list : j.updated <= t
        BY <1>3, <2>1, <3>2 DEF Hear
      <4> HIDE DEF stamps
      <4> QED
        BY <4>1, <4>3, <4>4
    <3> QED
      BY <3>1, <3>2
  <2> QED
    BY <1>3, <2>2, <2>3 DEF Hear, PollTypes
<1>4. CASE LosePoll
  BY <1>1, <1>4 DEF LosePoll
<1>5. CASE Restart
  BY <1>1, <1>5 DEF Restart
<1>6. CASE UNCHANGED pollVars
  BY <1>1, <1>6 DEF pollVars
<1> QED
  BY <1>2, <1>3, <1>4, <1>5, <1>6
  DEF Next, Client, Handle, Work, Send, LoseAnswer, AskAgain, TakeItem, Refuse,
      Accepted, Answered, Claim, Report, Drop, vars, pollVars

LEMMA BoundTypesKept ==
  ASSUME BoundTypes, [Next]_vars
  PROVE  BoundTypes'
<1>1. CASE Write /\ UNCHANGED <<lost, forced, crashes>> /\ drops' \in {drops, drops + 1}
  BY <1>1 DEF BoundTypes, Write, WriteOk, WriteFails
<1>2. CASE UNCHANGED <<faults, lost, forced, drops, crashes>>
  BY <1>2 DEF BoundTypes
<1>3. CASE LoseAnswer \/ LosePoll \/ Restart \/ \E c \in Captures : AskAgain(c)
  BY <1>3 DEF LoseAnswer, LosePoll, Restart, AskAgain, BoundTypes, storeVars
<1> QED
  BY <1>1, <1>2, <1>3
  DEF Next, Client, Handle, Work, Send, TakeItem, Refuse, Accepted, Answered,
      Poll, Hear, Claim, Report, Drop, vars, storeVars, boundVars

LEMMA TypesInit == Init => Types
<1> SUFFICES ASSUME Init PROVE Types
  OBVIOUS
<1>1. TableTypes
  BY EmptyTableType DEF Init, TableTypes, Dated, Present, EmptyTable
<1>2. PostTypes
  BY BatchAssumption DEF Init, PostTypes
<1>3. PollTypes
  BY DEF Init, PollTypes, Tables
<1>4. CountsOK /\ BoundTypes
  BY RedoInit DEF Init, RedoInv, BoundTypes
<1> QED
  BY <1>1, <1>2, <1>3, <1>4 DEF Types

LEMMA TypesStep == Types /\ [Next]_vars => Types'
<1> SUFFICES ASSUME Types, [Next]_vars PROVE Types'
  OBVIOUS
<1>1. TableTypes' /\ clock <= clock' /\ clock' \in Nat
  BY TableTypesKept DEF Types, TableTypes
<1> QED
  BY <1>1, PostTypesKept, PollTypesKept, CountsStep, BoundTypesKept DEF Types

\* Every variable keeps its type, also after a restart that lost what was
\* not written; an answer with records has a newest one for the cursor.
THEOREM TypeCorrect == Spec => []TypeOK
<1>1. Types => TypeOK
  BY DEF Types, TypeOK, TableTypes, PostTypes, PollTypes, CountsOK, BoundTypes
<1> QED
  BY <1>1, TypesInit, TypesStep, PTL DEF Spec
=============================================================================
