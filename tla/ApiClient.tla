------------------------------ MODULE ApiClient ------------------------------
(***************************************************************************)
(* The JSON API seen by a client of it, over the job table: POST /jobs,    *)
(* whose handler takes the items of a batch one by one, and                *)
(* GET /jobs?since=, which the client polls with the largest updatedAt it  *)
(* has seen.                                                               *)
(*                                                                         *)
(* The client is docs/API.md's: it posts its batch again until it is       *)
(* answered, leaves out an item that was refused, and keeps what it was    *)
(* told.  Its answers can be lost while the handler goes on.  Others       *)
(* delete jobs, workers make them, writes fail, the process ends.          *)
(***************************************************************************)
EXTENDS JobTable, Lists

CONSTANTS Batch,      \* what the client wants, in the order it posts it
          Bad,        \* an item without captureId, serverId or itemId
          Posts,      \* the POST handlers that can be in progress at once
          Workers,    \* the worker goroutines
          Outcomes,   \* how an attempt can end
          Watched,    \* the ?state= filter of its polls; States: none
          NoPost,     \* this handler is idle, or no answer is awaited
          NoAnswer,   \* no poll is under way
          MaxLost,    \* bound: answers that do not arrive
          MaxUpsets   \* bound: posts with force, deletions by others, failed
                      \*   writes and ends of the process, together

Items == Captures \cup {Bad}
Post  == [items: Seq(Items), force: BOOLEAN]
List  == [jobs: SUBSET Job]

ASSUME BatchAssumption == Batch \in Seq(Items)
ASSUME BadAssumption   == Bad \notin Captures
ASSUME PostsAssumption == IsFiniteSet(Posts)
ASSUME OutcomesAssumption == Outcomes \subseteq Terminal
ASSUME WatchedAssumption == Watched \subseteq States
ASSUME NullAssumption  == /\ NoPost \notin Post /\ NoPost \notin Posts
                          /\ NoAnswer \notin List

VARIABLES
  jobs,     \* s.data.Jobs
  saved,    \* the store file
  clock,    \* the last stamp time.Now() gave under the lock
  post,     \* what each handler has still to take of its batch
  copy,     \* each worker's job
  wanted,   \* the client: what it has not been told is accepted
  force,    \*   and whether with force
  waiting,  \*   the handler whose answer it awaits
  view,     \*   the last record it was told of each capture
  cursor,   \*   the largest updatedAt among them
  answer,   \*   the answer to its poll, on its way
  claims, chances,  \* history: claims of a capture, and what may cause one
  lost, forced, drops, faults, crashes   \* how much of each bound is used

storeVars  == <<jobs, saved, clock, faults>>
workVars   == <<copy, claims>>
pollVars   == <<view, cursor, answer>>
clientVars == <<wanted, force, waiting, chances>>
boundVars  == <<lost, forced, drops, crashes>>
vars == <<jobs, saved, clock, post, copy, wanted, force, waiting, view,
          cursor, answer, claims, chances, lost, forced, drops, faults, crashes>>

-----------------------------------------------------------------------------
Init ==
  /\ jobs = EmptyTable /\ saved = EmptyTable /\ clock = 0 /\ faults = 0
  /\ post  = [p \in Posts |-> NoPost]
  /\ copy  = [w \in Workers |-> NoJob]
  /\ wanted = Batch /\ force = FALSE /\ waiting = NoPost
  /\ view  = [c \in Captures |-> NoJob] /\ cursor = 0 /\ answer = NoAnswer
  /\ claims = [c \in Captures |-> 0] /\ chances = [c \in Captures |-> 1]
  /\ lost = 0 /\ forced = 0 /\ drops = 0 /\ crashes = 0

MoreUpsets == forced + drops + faults + crashes < MaxUpsets

\* writeLocked, whose error SubmitJob and NextQueued ignore.
WriteOk    == saved' = jobs' /\ UNCHANGED faults
WriteFails == MoreUpsets /\ faults' = faults + 1 /\ UNCHANGED saved
Write      == WriteOk \/ WriteFails

\* Every stamp is taken under the lock, so each is larger than the last.
Now == clock + 1

-----------------------------------------------------------------------------
(* POST /jobs.                                                             *)

\* The client posts what it still wants.  With force every post is one more
\* reason to make the captures again; without, a repeated one is none.
Send(p) ==
  /\ waiting = NoPost /\ wanted # <<>> /\ post[p] = NoPost
  /\ post' = [post EXCEPT ![p] = [items |-> wanted, force |-> force]]
  /\ waiting' = p
  /\ chances' = [c \in Captures |->
                   IF force /\ \E i \in DOMAIN wanted : wanted[i] = c
                   THEN chances[c] + 1 ELSE chances[c]]
  /\ UNCHANGED <<storeVars, workVars, pollVars, boundVars, wanted, force>>

\* Fault: an item that is there already ends the batch.
NextItemIfTaken(p, c) ==
  post' = [post EXCEPT ![p].items =
             IF Accepts(jobs, c, post[p].force) THEN Tail(@) ELSE <<>>]

NextItem(p, c) == post' = [post EXCEPT ![p].items = Tail(@)]

\* One round of the loop: SubmitJob, in a locked section of its own.
TakeItem(p, c) ==
  /\ post[p] # NoPost /\ post[p].items # <<>> /\ Head(post[p].items) = c
  /\ NextItem(p, c)
  /\ IF Accepts(jobs, c, post[p].force)
     THEN /\ clock' = Now
          /\ jobs' = SubmitJob(jobs, c, Now, Now)
          /\ Write
     ELSE UNCHANGED storeVars
  /\ UNCHANGED <<workVars, pollVars, boundVars, clientVars>>

\* The handler ends; the client hears of it if it still waits for it.
Answered(p, left) ==
  /\ post' = [post EXCEPT ![p] = NoPost]
  /\ IF waiting = p THEN waiting' = NoPost /\ wanted' = left
                    ELSE UNCHANGED <<waiting, wanted>>
  /\ UNCHANGED <<storeVars, workVars, pollVars, boundVars, force, chances>>

\* 400 at the first item that is not complete: the ones before it stay
\* accepted, the ones after it are not looked at.
Refuse(p) ==
  /\ post[p] # NoPost /\ post[p].items # <<>> /\ Head(post[p].items) = Bad
  /\ Answered(p, Keep(wanted, Captures))

\* 202.
Accepted(p) == post[p] # NoPost /\ post[p].items = <<>> /\ Answered(p, <<>>)

\* The answer to the post does not arrive, and the client stops waiting.
LoseAnswer ==
  /\ waiting # NoPost /\ lost < MaxLost
  /\ lost' = lost + 1 /\ waiting' = NoPost
  /\ UNCHANGED <<storeVars, workVars, pollVars, post, wanted, force,
                 chances, forced, drops, crashes>>

\* The client wants a capture made again that it knows has ended.
AskAgain(c) ==
  /\ waiting = NoPost /\ wanted = <<>> /\ MoreUpsets
  /\ view[c] # NoJob /\ view[c].state \in Terminal
  /\ forced' = forced + 1 /\ wanted' = <<c>> /\ force' = TRUE
  /\ UNCHANGED <<storeVars, workVars, pollVars, post, waiting, chances,
                 lost, drops, crashes>>

-----------------------------------------------------------------------------
(* GET /jobs?since=.                                                       *)

\* Fault: what was created since, not what changed.
CreatedSince(table, since) == {table[c] : c \in {d \in Captures :
  /\ table[d] # NoJob /\ table[d].state \in Watched
  /\ table[d].created > since}}

ListJobs(table, since) == {table[c] : c \in {d \in Captures :
  /\ table[d] # NoJob /\ table[d].state \in Watched
  /\ table[d].updated > since}}

Poll ==
  /\ answer = NoAnswer
  /\ answer' = [jobs |-> ListJobs(jobs, cursor)]
  /\ UNCHANGED <<storeVars, workVars, clientVars, boundVars, post, view,
                 cursor>>

\* The client takes the records in and moves its cursor to the newest.
Hear ==
  /\ answer # NoAnswer
  /\ answer' = NoAnswer
  /\ view' = [c \in Captures |->
                IF \E j \in answer.jobs : j.id = c
                THEN CHOOSE j \in answer.jobs : j.id = c ELSE view[c]]
  /\ cursor' = IF answer.jobs = {} THEN cursor
               ELSE CHOOSE t \in {j.updated : j \in answer.jobs} :
                      \A j \in answer.jobs : j.updated <= t
  /\ UNCHANGED <<storeVars, workVars, clientVars, boundVars, post>>

LosePoll ==
  /\ answer # NoAnswer /\ lost < MaxLost
  /\ lost' = lost + 1 /\ answer' = NoAnswer
  /\ UNCHANGED <<storeVars, workVars, clientVars, post, view, cursor,
                 forced, drops, crashes>>

-----------------------------------------------------------------------------
(* Workers, deletions, the end of the process.                             *)

Claim(w, c) ==
  /\ copy[w] = NoJob /\ IsNextQueued(jobs, c)
  /\ clock' = Now
  /\ jobs' = MarkRunning(jobs, c, Now)
  /\ Write
  /\ copy' = [copy EXCEPT ![w] = jobs'[c]]
  /\ claims' = [claims EXCEPT ![c] = @ + 1]
  /\ UNCHANGED <<pollVars, clientVars, boundVars, post>>

\* UpdateJob, or nothing when the record is gone.
Report(w, s) ==
  /\ copy[w] # NoJob
  /\ copy' = [copy EXCEPT ![w] = NoJob]
  /\ IF Present(jobs, copy[w].id)
     THEN /\ clock' = Now
          /\ jobs' = UpdateJob(jobs, [copy[w] EXCEPT !.state = s], Now)
          /\ Write
     ELSE UNCHANGED storeVars
  /\ UNCHANGED <<pollVars, clientVars, boundVars, post, claims>>

\* DELETE by somebody else, or the retention sweep.
Drop(c) ==
  /\ MoreUpsets /\ Present(jobs, c)
  /\ drops' = drops + 1
  /\ jobs' = DeleteJob(jobs, c)
  /\ Write
  /\ chances' = [chances EXCEPT ![c] = @ + 1]
  /\ UNCHANGED <<workVars, pollVars, post, clock, wanted, force, waiting, lost,
                 forced, crashes>>

\* Whatever was under way is gone, and the file is loaded.
Restart ==
  /\ MoreUpsets
  /\ crashes' = crashes + 1
  /\ jobs' = saved
  /\ post' = [p \in Posts |-> NoPost] /\ waiting' = NoPost
  /\ copy' = [w \in Workers |-> NoJob]
  /\ answer' = NoAnswer
  /\ UNCHANGED <<saved, clock, faults, claims, wanted, force, chances, view,
                 cursor, lost, forced, drops>>

-----------------------------------------------------------------------------
Handle(p)  == (\E c \in Captures : TakeItem(p, c)) \/ Refuse(p) \/ Accepted(p)
Work(w)    == \/ \E c \in Captures : Claim(w, c)
              \/ \E s \in Outcomes : Report(w, s)
Client     == \/ \E p \in Posts : Send(p)
              \/ LoseAnswer \/ \E c \in Captures : AskAgain(c)
              \/ Poll \/ Hear \/ LosePoll

Next == \/ Client \/ (\E p \in Posts : Handle(p)) \/ (\E w \in Workers : Work(w))
        \/ (\E c \in Captures : Drop(c)) \/ Restart

(***************************************************************************)
(* Fairness: handlers and workers go on, and the client keeps posting and  *)
(* polling.  Answers are lost finitely often.                              *)
(***************************************************************************)
Spec == /\ Init /\ [][Next]_vars
        /\ \A p \in Posts : WF_vars(Handle(p))
        /\ \A w \in Workers : WF_vars(Work(w))
        /\ WF_vars(\E p \in Posts : Send(p))
        /\ WF_vars(Poll) /\ WF_vars(Hear)

-----------------------------------------------------------------------------
(* Properties.                                                             *)

\* Types of all variables.
TypeOK ==
  /\ jobs \in Tables /\ saved \in Tables /\ clock \in Nat
  /\ post \in [Posts -> Post \cup {NoPost}]
  /\ copy \in [Workers -> Job \cup {NoJob}]
  /\ wanted \in Seq(Items) /\ force \in BOOLEAN
  /\ waiting \in Posts \cup {NoPost}
  /\ view \in Tables /\ cursor \in Nat
  /\ answer \in List \cup {NoAnswer}
  /\ claims \in [Captures -> Nat] /\ chances \in [Captures -> Nat]
  /\ lost \in Nat /\ forced \in Nat /\ drops \in Nat
  /\ faults \in Nat /\ crashes \in Nat

\* No restart brought back a file that a failed write left behind.
NothingUnwritten == faults = 0 \/ crashes = 0

\* A poll with ?since= misses nothing: every present record that is not
\* newer than the client's cursor is in its view exactly as it is, whatever
\* was lost, deleted, submitted again or restarted.
KnownUpToCursor ==
  NothingUnwritten =>
    \A c \in Captures :
      /\ Present(jobs, c) /\ jobs[c].state \in Watched
      /\ jobs[c].updated <= cursor
      => view[c] = jobs[c]

\* Repeating a batch whose answer was lost - also while the first handler is
\* still at it - never makes a capture again: it is claimed once, and once
\* more for every deletion and every post with force.
NoRedo ==
  NothingUnwritten => \A c \in Captures : claims[c] <= chances[c]

\* Every complete item of the batch is shown to the client as done or failed
\* in the end, although an item before it was refused and answers were lost;
\* unless somebody deletes it or the process ends.
BatchDelivered ==
  \A c \in Captures :
    (\E i \in DOMAIN Batch : Batch[i] = c) =>
      <>(\/ view[c] # NoJob /\ view[c].state \in Terminal
         \/ drops > 0 \/ crashes > 0)
=============================================================================
