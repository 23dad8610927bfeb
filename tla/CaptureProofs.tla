---------------------------- MODULE CaptureProofs ----------------------------
(***************************************************************************)
(* Theorems about one capture on its way to the client, for any number of  *)
(* submissions, deletions, failed writes and restarts, any sources and     *)
(* media servers.                                                          *)
(***************************************************************************)
EXTENDS Capture, LiveLog, SharedLemmas

-----------------------------------------------------------------------------
(* The records: every table is of this capture, describes a submission     *)
(* that was made, and is not newer than the clock.                         *)

RecordsOK(t) ==
  /\ t \in Tables
  /\ Present(t, c) => /\ t[c].id = c /\ t[c].req \in DOMAIN asked
                      /\ t[c].updated <= clock

StoreOK == /\ asked \in Seq(Asks) /\ clock \in Nat
           /\ faults \in Nat /\ crashes \in Nat
           /\ RecordsOK(jobs) /\ RecordsOK(saved.jobs)
           /\ faults = 0 => saved.jobs = jobs

CopyOK == stage # "idle" =>
            copy \in Job /\ copy.id = c /\ copy.req \in DOMAIN asked

LEMMA TheCapture == c \in Captures /\ \A d \in Captures : d = c
BY CapturesAssumption

\* A step under the lock of the store.
LEMMA StoreStep ==
  ASSUME StoreOK, asked' \in Seq(Asks), DOMAIN asked \subseteq DOMAIN asked',
         clock' \in Nat, clock <= clock',
         RecordsOK(jobs)', Write, crashes' = crashes
  PROVE  StoreOK'
<1>1. RecordsOK(saved.jobs)'
  <2>1. CASE saved'.jobs = jobs'
    BY <2>1 DEF RecordsOK
  <2>2. CASE saved' = saved
    <3>1. saved.jobs \in Tables
      BY DEF StoreOK, RecordsOK
    <3>2. Present(saved.jobs, c) => saved.jobs[c].updated \in Nat
      BY <3>1, TheCapture, RecordType DEF Job
    <3> QED
      BY <2>2, <3>1, <3>2 DEF StoreOK, RecordsOK, Present
  <2> QED
    BY <2>1, <2>2 DEF Write, WriteOk, WriteFails
<1>2. faults' \in Nat /\ (faults' = 0 => saved'.jobs = jobs')
  BY DEF Write, WriteOk, WriteFails, StoreOK
<1> QED
  BY <1>1, <1>2 DEF StoreOK

LEMMA StoreKept ==
  ASSUME StoreOK, UNCHANGED <<storeVars, asked>>, crashes' \in Nat
  PROVE  StoreOK'
BY DEF StoreOK, RecordsOK, Present, storeVars

LEMMA SubmitStore ==
  ASSUME StoreOK, NEW ask \in Asks, NEW force \in BOOLEAN, Submit(ask, force)
  PROVE  /\ StoreOK' /\ DOMAIN asked \subseteq DOMAIN asked'
         /\ \A i \in DOMAIN asked : asked'[i] = asked[i]
         /\ ~IsDone(jobs, c)'
<1>1. PICK r \in Nat, n \in Nat : r = Len(asked) + 1 /\ n = clock + 1
  BY DEF StoreOK
<1>2. /\ asked' = Append(asked, ask) /\ asked \in Seq(Asks)
      /\ asked' \in Seq(Asks) /\ Len(asked') = r /\ r \in DOMAIN asked'
      /\ DOMAIN asked \subseteq DOMAIN asked'
      /\ \A i \in DOMAIN asked : asked'[i] = asked[i]
  <2>1. asked' = Append(asked, ask) /\ asked \in Seq(Asks) /\ Len(asked) \in Nat
    BY DEF StoreOK, Submit
  <2>2. /\ asked' \in Seq(Asks) /\ Len(asked') = r
        /\ \A i \in 1 .. Len(asked) : asked'[i] = asked[i]
    BY <1>1, <2>1, AppendProperties
  <2>3. DOMAIN asked = 1 .. Len(asked) /\ DOMAIN asked' = 1 .. r
    BY <2>1, <2>2, LenProperties
  <2> QED
    BY <1>1, <2>1, <2>2, <2>3
<1>3. jobs' = SubmitJob(jobs, c, r, n) /\ clock' = n /\ jobs \in Tables
  <2>1. jobs' = SubmitJob(jobs, c, Len(asked'), clock') /\ clock' = clock + 1
    BY DEF Submit
  <2>2. Len(asked') = r /\ clock' = n
    BY <1>1, <1>2, <2>1
  <2>3. jobs' = SubmitJob(jobs, c, r, n)
    BY <2>1, <2>2
  <2> QED
    BY <2>2, <2>3 DEF StoreOK, RecordsOK
<1>4. /\ jobs' \in Tables /\ jobs'[c] \in Job
      /\ jobs'[c].id = c /\ jobs'[c].updated = n
      /\ jobs'[c].state = "queued" /\ jobs'[c].req = r
  <2>1. SubmitJob(jobs, c, r, n) \in Tables
    BY <1>3, TheCapture, SubmitType
  <2>2. /\ Stamped(SubmitJob(jobs, c, r, n)[c], c, n)
        /\ SubmitJob(jobs, c, r, n)[c].state = "queued"
        /\ SubmitJob(jobs, c, r, n)[c].req = r
    BY <1>3, TheCapture, SubmitRecord
  <2> QED
    BY <1>3, <2>1, <2>2 DEF Stamped
<1>5. RecordsOK(jobs)'
  BY <1>2, <1>3, <1>4 DEF RecordsOK
<1>6. clock' \in Nat /\ clock <= clock'
  BY <1>1, <1>3 DEF StoreOK
<1>7. StoreOK'
  BY <1>2, <1>5, <1>6, StoreStep DEF Submit, restVars
<1> QED
  BY <1>2, <1>4, <1>7 DEF IsDone

LEMMA DeleteStore ==
  ASSUME StoreOK, Delete
  PROVE  StoreOK' /\ ~IsDone(jobs, c)'
<1>1. jobs' \in Tables /\ jobs'[c] = NoJob
  BY TheCapture, DropType, DeletedRecord DEF Delete, StoreOK, RecordsOK
<1>2. Write /\ UNCHANGED <<clock, asked, crashes>>
  BY DEF Delete, Write
<1>3. RecordsOK(jobs)'
  BY <1>1 DEF RecordsOK, Present
<1> QED
  BY <1>1, <1>2, <1>3, StoreStep DEF StoreOK, IsDone

LEMMA ClaimStore ==
  ASSUME StoreOK, Claim
  PROVE  StoreOK' /\ ~IsDone(jobs, c)' /\ CopyOK'
<1>1. PICK n \in Nat : n = clock + 1
  BY DEF StoreOK
<1>2. /\ jobs \in Tables /\ Present(jobs, c) /\ jobs[c].id = c
      /\ jobs[c].req \in DOMAIN asked
  BY DEF StoreOK, RecordsOK, Claim, IsNextQueued, IsQueued, Present
<1>3. jobs' = MarkRunning(jobs, c, n) /\ clock' = n
  BY <1>1 DEF Claim
<1>4. /\ jobs' \in Tables /\ jobs'[c] \in Job /\ jobs'[c].id = c
      /\ jobs'[c].state = "running" /\ jobs'[c].updated = n
      /\ jobs'[c].req = jobs[c].req
  BY <1>2, <1>3, TheCapture, MarkRunningType, RunningRecord DEF Stamped
<1>5. RecordsOK(jobs)'
  BY <1>2, <1>3, <1>4 DEF RecordsOK, Claim
<1>6. StoreOK'
  BY <1>1, <1>3, <1>5, StoreStep DEF Claim, restVars, StoreOK
<1> QED
  BY <1>2, <1>4, <1>6 DEF IsDone, CopyOK, Claim

LEMMA ReportStore ==
  ASSUME StoreOK, CopyOK, Report
  PROVE  /\ StoreOK'
         /\ IsDone(jobs, c)' => /\ copy.state = "done" /\ jobs'[c].req = copy.req
                                /\ jobs'[c].updated = clock + 1
<1>1. PICK n \in Nat : n = clock + 1
  BY DEF StoreOK
<1>2. /\ copy \in Job /\ copy.id = c /\ copy.req \in DOMAIN asked
      /\ jobs \in Tables
  BY DEF Report, CopyOK, StoreOK, RecordsOK
<1>3. CASE Present(jobs, c)
  <2>1. jobs' = UpdateJob(jobs, copy, n) /\ clock' = n /\ Write
    BY <1>1, <1>3 DEF Report
  <2>2. /\ jobs' \in Tables /\ jobs'[c] \in Job /\ jobs'[c].id = c
        /\ jobs'[c].updated = n
        /\ jobs'[c].state = copy.state /\ jobs'[c].req = copy.req
    BY <1>2, <1>3, <2>1, UpdateType, UpdatedRecord DEF Stamped
  <2>3. RecordsOK(jobs)'
    BY <1>2, <2>1, <2>2 DEF RecordsOK, Report
  <2>4. StoreOK'
    BY <1>1, <2>1, <2>3, StoreStep DEF Report, restVars, StoreOK
  <2> QED
    BY <1>1, <2>2, <2>4 DEF IsDone
<1>4. CASE ~Present(jobs, c)
  <2>1. UNCHANGED <<storeVars, asked, crashes>>
    BY <1>4 DEF Report, restVars
  <2>2. StoreOK'
    BY <2>1, StoreKept DEF StoreOK
  <2>3. ~IsDone(jobs, c)'
    BY <1>4, <2>1 DEF IsDone, Present, storeVars
  <2> QED
    BY <2>2, <2>3
<1> QED
  BY <1>3, <1>4

-----------------------------------------------------------------------------
(* The attempt: what the worker has left on the disk at each stage.  Past  *)
(* the end of the source an old still may survive, but then the clip has   *)
(* no frames and the attempt cannot end well.                              *)

FileType == file \in [Kinds -> Media \cup {NoFile}]

Past     == Remaining(try.source, Request.at) = 0
Mine(k)  == file[k] # NoFile => file[k].req = copy.req
Whole(k) == file[k] # NoFile => file[k].req = copy.req /\ file[k].whole
Empty    == Past /\ file["clip"] # NoFile => file["clip"].seconds = 0

Trying == stage \in {"still", "stilling", "clip", "clipping", "inspect"}

AttemptOK ==
  /\ Trying => try.source \in Sources /\ try.speed \in Speeds
  /\ stage = "stilling" => Past \/ Mine("still")
  /\ stage \in {"clip", "clipping", "inspect"} => Past \/ Whole("still")
  /\ stage = "clipping" => Mine("clip") /\ Empty
  /\ stage = "inspect" => Whole("clip") /\ Empty
  /\ stage = "probe" \/ (stage = "report" /\ copy.state = "done") =>
       Whole("still") /\ Whole("clip")

LEMMA AttemptKept ==
  ASSUME CopyOK, AttemptOK, UNCHANGED tryVars,
         DOMAIN asked \subseteq DOMAIN asked',
         \A i \in DOMAIN asked : asked'[i] = asked[i],
         \A k \in Kinds : file'[k] = file[k] \/ file'[k] = NoFile
  PROVE  CopyOK' /\ AttemptOK'
<1>1. CopyOK'
  BY DEF CopyOK, tryVars
<1>2. stage # "idle" => Request' = Request
  BY DEF CopyOK, tryVars, Request
<1>3. ASSUME stage # "idle" PROVE Past' <=> Past
  BY <1>2, <1>3 DEF Past, tryVars
<1>4. /\ \A k \in Kinds : Mine(k) => Mine(k)'
      /\ \A k \in Kinds : Whole(k) => Whole(k)'
  BY DEF Mine, Whole, tryVars
<1>5. stage # "idle" => (Empty => Empty')
  BY <1>3 DEF Empty, Kinds
<1>6. "still" \in Kinds /\ "clip" \in Kinds
  BY DEF Kinds
<1>7. stage' = stage /\ copy' = copy /\ try' = try
  BY DEF tryVars
<1>8. AttemptOK'
  BY <1>3, <1>4, <1>5, <1>6, <1>7 DEF AttemptOK, Trying
<1> QED
  BY <1>1, <1>8

LEMMA RequestType ==
  ASSUME StoreOK, CopyOK, stage # "idle"
  PROVE  Request \in Ask /\ copy.req \in Nat
<1>1. asked[copy.req] \in Asks
  BY ElementOfSeq, LenProperties DEF StoreOK, CopyOK
<1> QED
  BY <1>1, AsksAssumption DEF Request, CopyOK, Job

\* What ffmpeg reads and writes for a request, which is all a clip's length
\* depends on.
Reads(ask, source, speed) == SecondsRead(source, ClipArgs(ask, speed))
Lasts(ask, source, speed) == SecondsWritten(source, ClipArgs(ask, speed))

LEMMA Quotient ==
  ASSUME NEW v \in Nat \ {0}, NEW s \in Nat, NEW r \in Nat, r <= s * v
  PROVE  r \div v \in Nat /\ r \div v <= s /\ (s * v) \div v = s /\ 0 \div v = 0
OBVIOUS

LEMMA ClipLasts ==
  ASSUME NEW ask \in Ask, NEW source \in Sources, NEW speed \in Speeds
  PROVE  /\ Reads(ask, source, speed) \in Nat /\ Lasts(ask, source, speed) \in Nat
         /\ Reads(ask, source, speed) <= ask.span * speed
         /\ Lasts(ask, source, speed) <= ask.span
         /\ \/ Lasts(ask, source, speed) = ask.span
            \/ Lasts(ask, source, speed) = Remaining(source, ask.at) \div speed
         /\ Remaining(source, ask.at) = 0 => Lasts(ask, source, speed) = 0
<1>1. PICK at \in Nat, span \in Nat \ {0} : ask.at = at /\ ask.span = span
  BY DEF Ask
<1>2. PICK v \in Nat \ {0} : speed = v
  BY AsksAssumption
<1>3. PICK rest \in Nat : Remaining(source, at) = rest
  BY SourcesAssumption DEF Remaining
<1>4. PICK n \in Nat : span * v = n /\ n > 0
  BY <1>1, <1>2
<1> DEFINE args == ClipArgs(ask, speed)
<1>5. args.seek = at /\ args.read = n /\ args.write * args.speed = n /\ args.speed = v
  BY <1>1, <1>2, <1>4 DEF ClipArgs
<1>6. Reads(ask, source, speed) = Smaller(Smaller(rest, n), n)
  BY <1>3, <1>5 DEF SecondsRead, Reads
<1>7. PICK r \in Nat : /\ Reads(ask, source, speed) = r /\ r <= span * v
                       /\ r = span * v \/ r = rest
  BY <1>4, <1>6 DEF Smaller
<1>8. Lasts(ask, source, speed) = r \div v
  BY <1>5, <1>7 DEF Lasts, Reads, SecondsWritten
<1>9. r \div v \in Nat /\ r \div v <= span /\ (span * v) \div v = span /\ 0 \div v = 0
  BY <1>7, Quotient
<1>10. rest = 0 => r = 0
  BY <1>4, <1>6, <1>7 DEF Smaller
<1> QED
  BY <1>1, <1>2, <1>3, <1>7, <1>8, <1>9, <1>10

LEMMA OutputType ==
  ASSUME StoreOK, CopyOK, AttemptOK, Trying,
         NEW k \in Kinds, NEW whole \in BOOLEAN
  PROVE  /\ Output(k, whole) \in Media
         /\ Output(k, whole).req = copy.req
         /\ Output(k, whole).whole = whole
         /\ Past => Output(k, whole).seconds = 0
<1>1. /\ Request \in Ask /\ try.source \in Sources /\ try.speed \in Speeds
      /\ copy.req \in Nat
  BY RequestType DEF Trying, AttemptOK
<1>2. PICK r \in Nat, w \in Nat :
        /\ Reads(Request, try.source, try.speed) = r
        /\ Lasts(Request, try.source, try.speed) = w
        /\ Past => w = 0
  BY <1>1, ClipLasts DEF Past
<1>3. Output(k, whole) = [req |-> copy.req, whole |-> whole,
                          read |-> IF k = "clip" THEN r ELSE 0,
                          seconds |-> IF k = "clip" THEN w ELSE 0]
  BY <1>2 DEF Output, Reads, Lasts
<1> QED
  BY <1>1, <1>2, <1>3 DEF Media

LEMMA FailsStep ==
  ASSUME CopyOK, stage # "idle", UNCHANGED asked,
         NEW why, FailsWith(why)
  PROVE  CopyOK' /\ AttemptOK' /\ stage' # "idle"
<1>1. /\ copy \in Job /\ copy.id = c /\ copy.req \in DOMAIN asked
      /\ stage' = "report" /\ copy' = [copy EXCEPT !.state = "failed"]
  BY DEF CopyOK, FailsWith, Ends
<1>2. /\ copy' \in Job /\ copy'.id = c /\ copy'.req = copy.req
      /\ copy'.state = "failed"
  BY <1>1 DEF Job, States
<1> QED
  BY <1>1, <1>2 DEF CopyOK, AttemptOK, Trying

\* The worker's steps between Claim and Report leave the store alone.
Working == \/ \E server \in Servers, a \in Answers, source \in Sources, speed \in Speeds :
                ResolveItem(server, a, source, speed)
           \/ Extract

LEMMA WorkingStep ==
  ASSUME Working
  PROVE  UNCHANGED <<storeVars, asked, restVars>> /\ stage # "idle"
BY DEF Working, Extract, ResolveItem, Open, Close, NotReadable, TimeOut, Inspect,
       Probe, Ends, FailsWith, Kinds

LEMMA ResolveStep ==
  ASSUME CopyOK, NEW server \in Servers, NEW a \in Answers,
         NEW source \in Sources, NEW speed \in Speeds,
         ResolveItem(server, a, source, speed)
  PROVE  CopyOK' /\ AttemptOK' /\ UNCHANGED file
<1>1. copy \in Job /\ copy.id = c /\ copy.req \in DOMAIN asked
  BY DEF CopyOK, ResolveItem
<1>2. UNCHANGED <<asked, file>>
  BY DEF ResolveItem
<1>3. CASE Resolve(server, a).ok
  <2>1. stage' = "still" /\ UNCHANGED copy
    BY <1>3 DEF ResolveItem
  <2>2. try'.source = source /\ try'.speed = speed
    BY <1>3 DEF ResolveItem
  <2> QED
    BY <1>1, <1>2, <2>1, <2>2 DEF CopyOK, AttemptOK, Trying
<1>4. CASE ~Resolve(server, a).ok
  <2>1. stage' = "report" /\ copy' = [copy EXCEPT !.state = "failed"]
    BY <1>4 DEF ResolveItem
  <2>2. copy' \in Job /\ copy'.id = c /\ copy'.req = copy.req /\ copy'.state = "failed"
    BY <1>1, <2>1 DEF Job, States
  <2> QED
    BY <1>1, <1>2, <2>1, <2>2 DEF CopyOK, AttemptOK, Trying
<1> QED
  BY <1>3, <1>4

LEMMA OpenStep ==
  ASSUME StoreOK, CopyOK, AttemptOK, FileType, NEW k \in Kinds, Open(k)
  PROVE  CopyOK' /\ AttemptOK' /\ FileType'
<1>1. /\ Trying /\ k \in {"still", "clip"} /\ stage = k /\ FALSE \in BOOLEAN
      /\ UNCHANGED <<asked, copy, try>>
  BY DEF Open, Trying, Kinds
<1>2. CopyOK'
  BY <1>1 DEF CopyOK, Open
<1>3. PICK o \in Media : /\ Output(k, FALSE) = o /\ o.req = copy.req
                         /\ Past => o.seconds = 0
  BY <1>1, OutputType
<1>4. (Past' <=> Past) /\ try.source \in Sources /\ try.speed \in Speeds
  BY <1>1 DEF Past, Request, AttemptOK
<1>5. CASE k = "still" /\ Past
  <2>1. stage' = "stilling" /\ file' = file
    BY <1>5 DEF Open, Past
  <2> QED
    BY <1>1, <1>2, <1>4, <1>5, <2>1 DEF AttemptOK, Trying, FileType
<1>6. CASE ~(k = "still" /\ Past)
  <2>1. file' = [file EXCEPT ![k] = o]
    BY <1>3, <1>6 DEF Open, Past
  <2>2. /\ FileType' /\ file'[k] = o
        /\ \A d \in Kinds : d # k => file'[d] = file[d]
    BY <2>1 DEF FileType
  <2>3. Mine(k)'
    BY <1>1, <1>3, <2>2 DEF Mine
  <2>4. CASE k = "still"
    <3>1. stage' = "stilling"
      BY <2>4 DEF Open
    <3> QED
      BY <1>1, <1>2, <1>4, <2>2, <2>3, <2>4, <3>1 DEF AttemptOK, Trying
  <2>5. CASE k = "clip"
    <3>1. stage' = "clipping"
      BY <2>5 DEF Open
    <3>2. Past \/ Whole("still")
      BY <1>1, <2>5 DEF AttemptOK
    <3>3. Whole("still") => Whole("still")'
      BY <1>1, <2>2, <2>5 DEF Whole, Kinds
    <3>4. Empty'
      BY <1>3, <1>4, <2>2, <2>5 DEF Empty
    <3> QED
      BY <1>1, <1>2, <1>4, <2>2, <2>3, <2>5, <3>1, <3>2, <3>3, <3>4
         DEF AttemptOK, Trying
  <2> QED
    BY <1>1, <2>4, <2>5
<1> QED
  BY <1>5, <1>6

LEMMA CloseStep ==
  ASSUME StoreOK, CopyOK, AttemptOK, FileType,
         NEW k \in Kinds, NEW ok \in BOOLEAN, Close(k, ok)
  PROVE  CopyOK' /\ AttemptOK' /\ FileType'
<1>1. /\ k \in {"still", "clip"} /\ stage # "idle" /\ Trying
      /\ stage = IF k = "still" THEN "stilling" ELSE "clipping"
      /\ UNCHANGED asked
  BY DEF Close, Kinds, Trying
<1>2. /\ file' \in [Kinds -> Media \cup {NoFile}]
      /\ \A d \in Kinds : d # k => file'[d] = file[d]
      /\ file[k] = NoFile => file'[k] = NoFile
      /\ file[k] # NoFile /\ file[k].req = copy.req =>
           /\ file'[k].req = file[k].req /\ file'[k].whole = ok
           /\ file'[k].seconds = file[k].seconds
  <2>1. CASE file[k] # NoFile /\ file[k].req = copy.req
    <3>1. PICK o \in Media : file[k] = o
      BY <2>1 DEF FileType
    <3>2. PICK p \in Media : /\ p = [o EXCEPT !.whole = ok] /\ p.req = o.req
                               /\ p.whole = ok /\ p.seconds = o.seconds
      <4> DEFINE p == [o EXCEPT !.whole = ok]
      <4>1. p \in Media
        BY DEF Media
      <4>2. p.req = o.req /\ p.seconds = o.seconds
        BY DEF Media
      <4>3. p.whole = ok
        BY Zenon DEF Media
      <4> QED
        BY <4>1, <4>2, <4>3
    <3>3. file' = [file EXCEPT ![k] = p]
      BY <2>1, <3>1, <3>2 DEF Close, FileType
    <3> QED
      BY <2>1, <3>1, <3>2, <3>3 DEF FileType
  <2>2. CASE ~(file[k] # NoFile /\ file[k].req = copy.req)
    BY <2>2 DEF Close, FileType
  <2> QED
    BY <2>1, <2>2
<1>3. FileType'
  BY <1>2 DEF FileType
<1>4. CASE ~ok
  BY <1>1, <1>3, <1>4, FailsStep DEF Close
<1>5. CASE ok
  <2>1. UNCHANGED <<copy, try>>
    BY <1>5 DEF Close
  <2>2. stage' = IF k = "still" THEN "clip" ELSE "inspect"
    BY <1>5 DEF Close
  <2>3. CopyOK'
    BY <1>1, <2>1 DEF CopyOK
  <2>4. (Past' <=> Past) /\ try.source \in Sources /\ try.speed \in Speeds
    BY <1>1, <2>1 DEF Past, Request, AttemptOK
  <2>5. Mine(k) => Whole(k)'
    BY <1>2, <1>5, <2>1 DEF Mine, Whole
  <2>6. CASE k = "still"
    BY <1>1, <2>1, <2>2, <2>3, <2>4, <2>5, <1>3, <2>6 DEF AttemptOK, Trying
  <2>7. CASE k = "clip"
    <3>1. Whole("still") => Whole("still")'
      BY <1>2, <2>1, <2>7 DEF Whole, Kinds
    <3>2. Mine(k) /\ Empty => Empty'
      BY <1>2, <2>1, <2>4, <2>7 DEF Empty, Mine
    <3> QED
      BY <1>1, <2>1, <2>2, <2>3, <2>4, <2>5, <1>3, <2>7, <3>1, <3>2
         DEF AttemptOK, Trying
  <2> QED
    BY <1>1, <2>6, <2>7
<1> QED
  BY <1>4, <1>5

LEMMA InspectStep ==
  ASSUME CopyOK, AttemptOK, FileType, Inspect
  PROVE  CopyOK' /\ AttemptOK' /\ FileType'
<1>1. stage = "inspect" /\ UNCHANGED asked
  BY DEF Inspect
<1>2. CASE file["clip"] = NoFile \/ file["clip"].seconds = 0
  <2>1. FailsWith("inspect") /\ UNCHANGED file
    BY <1>2 DEF Inspect
  <2> QED
    BY <1>1, <2>1, FailsStep DEF FileType
<1>3. CASE /\ ~(file["clip"] = NoFile \/ file["clip"].seconds = 0)
           /\ file["clip"].seconds * FPS <= 1
  <2>1. FailsWith("short") /\ file' = [k \in Kinds |-> NoFile]
    BY <1>3 DEF Inspect
  <2>2. FileType'
    BY <2>1 DEF FileType
  <2> QED
    BY <1>1, <2>1, <2>2, FailsStep
<1>4. CASE /\ ~(file["clip"] = NoFile \/ file["clip"].seconds = 0)
           /\ ~(file["clip"].seconds * FPS <= 1)
  <2>1. stage' = "probe" /\ UNCHANGED <<copy, file>>
    BY <1>4 DEF Inspect
  <2>2. Whole("clip") /\ Whole("still")
    BY <1>1, <1>4 DEF AttemptOK, Empty
  <2> QED
    BY <1>1, <2>1, <2>2 DEF AttemptOK, Whole, CopyOK, FileType, Trying
<1> QED
  BY <1>2, <1>3, <1>4

LEMMA ProbeStep ==
  ASSUME CopyOK, AttemptOK, FileType, NEW answered, Probe(answered)
  PROVE  CopyOK' /\ AttemptOK' /\ FileType'
<1>1. /\ stage = "probe" /\ UNCHANGED <<asked, file>>
      /\ stage' = "report" /\ copy' = [copy EXCEPT !.state = "done"]
  BY DEF Probe, Ends
<1>2. copy \in Job /\ copy.id = c /\ copy.req \in DOMAIN asked
  BY <1>1 DEF CopyOK
<1>3. copy' \in Job /\ copy'.id = c /\ copy'.req = copy.req
  BY <1>1, <1>2 DEF Job, States
<1> QED
  BY <1>1, <1>2, <1>3 DEF CopyOK, AttemptOK, Trying, Whole, FileType

LEMMA WorkingKeeps ==
  ASSUME StoreOK, CopyOK, AttemptOK, FileType, Working
  PROVE  CopyOK' /\ AttemptOK' /\ FileType'
<1>1. ASSUME NEW server \in Servers, NEW a \in Answers, NEW source \in Sources,
             NEW speed \in Speeds, ResolveItem(server, a, source, speed)
      PROVE  CopyOK' /\ AttemptOK' /\ FileType'
  BY <1>1, ResolveStep DEF FileType
<1>2. ASSUME NotReadable \/ TimeOut
      PROVE  CopyOK' /\ AttemptOK' /\ FileType'
  <2>1. PICK why : FailsWith(why) /\ stage # "idle" /\ UNCHANGED <<asked, file>>
    BY <1>2 DEF NotReadable, TimeOut
  <2> QED
    BY <2>1, FailsStep DEF FileType
<1> QED
  BY <1>1, <1>2, OpenStep, CloseStep, InspectStep, ProbeStep DEF Working, Extract

-----------------------------------------------------------------------------
(* The client's copy.  A done record is newer than whatever was sent       *)
(* before it was, and as long as it stands no attempt is under way, so     *)
(* what is sent is what the record describes.                              *)

DoneOK ==
  NothingUnwritten /\ IsDone(jobs, c) =>
    stage = "idle" /\ \A k \in Kinds :
      file[k] # NoFile => file[k].req = jobs[c].req /\ file[k].whole

TagsOK ==
  /\ DOMAIN cache = Kinds
  /\ \A k \in Kinds : cache[k] # Nothing => cache[k].tag \in 0 .. clock
  /\ fetch # Nothing => fetch \in [kind: Kinds, tag: 0 .. clock, sends: BOOLEAN]

WorkerInv == StoreOK /\ CopyOK /\ FileType /\ AttemptOK
ClientInv == DoneOK /\ TagsOK /\ CachedIsCurrent
CaptureInv == WorkerInv /\ ClientInv

\* The tags stay old while the clock runs.
LEMMA TagsKept ==
  ASSUME TagsOK, clock \in Nat, clock' \in Nat, clock <= clock', UNCHANGED getVars
  PROVE  TagsOK'
<1>1. 0 .. clock \subseteq 0 .. clock'
  OBVIOUS
<1> QED
  BY <1>1 DEF TagsOK, getVars

\* Without a done record there is nothing to be current with.
LEMMA NotDone ==
  ASSUME TagsOK, clock \in Nat, clock' \in Nat, clock <= clock', UNCHANGED getVars,
         ~(NothingUnwritten' /\ IsDone(jobs, c)')
  PROVE  ClientInv'
BY TagsKept DEF ClientInv, DoneOK, CachedIsCurrent

LEMMA SubmitKeeps ==
  ASSUME CaptureInv, NEW ask \in Asks, NEW force \in BOOLEAN, Submit(ask, force)
  PROVE  CaptureInv'
<1>1. /\ StoreOK' /\ DOMAIN asked \subseteq DOMAIN asked'
      /\ \A i \in DOMAIN asked : asked'[i] = asked[i]
      /\ ~IsDone(jobs, c)'
  BY SubmitStore DEF CaptureInv, WorkerInv
<1>2. UNCHANGED <<tryVars, file, getVars>> /\ clock' = clock + 1 /\ clock \in Nat
  BY DEF Submit, restVars, CaptureInv, WorkerInv, StoreOK
<1>3. CopyOK' /\ AttemptOK'
  BY <1>1, <1>2, AttemptKept DEF CaptureInv, WorkerInv
<1>4. FileType'
  BY <1>2 DEF FileType, CaptureInv, WorkerInv
<1>5. ClientInv'
  BY <1>1, <1>2, NotDone DEF CaptureInv, ClientInv
<1> QED
  BY <1>1, <1>3, <1>4, <1>5 DEF CaptureInv, WorkerInv

LEMMA DeleteKeeps ==
  ASSUME CaptureInv, Delete
  PROVE  CaptureInv'
<1>1. StoreOK' /\ ~IsDone(jobs, c)'
  BY DeleteStore DEF CaptureInv, WorkerInv
<1>2. UNCHANGED <<tryVars, file, getVars, clock, asked>> /\ clock \in Nat
  BY DEF Delete, CaptureInv, WorkerInv, StoreOK
<1>3. CopyOK' /\ AttemptOK'
  BY <1>2, AttemptKept DEF CaptureInv, WorkerInv
<1>4. FileType'
  BY <1>2 DEF FileType, CaptureInv, WorkerInv
<1>5. ClientInv'
  BY <1>1, <1>2, NotDone DEF CaptureInv, ClientInv
<1> QED
  BY <1>1, <1>3, <1>4, <1>5 DEF CaptureInv, WorkerInv

LEMMA RemoveFileKeeps ==
  ASSUME CaptureInv, NEW k \in Kinds, RemoveFile(k)
  PROVE  CaptureInv'
<1>1. /\ UNCHANGED <<storeVars, crashes, tryVars, getVars, asked>>
      /\ file' = [file EXCEPT ![k] = NoFile] /\ file \in [Kinds -> Media \cup {NoFile}]
  BY DEF RemoveFile, CaptureInv, WorkerInv, FileType
<1>2. /\ FileType'
      /\ \A d \in Kinds : file'[d] = file[d] \/ file'[d] = NoFile
  BY <1>1 DEF FileType
<1>3. StoreOK'
  BY <1>1, StoreKept DEF CaptureInv, WorkerInv, StoreOK
<1>4. CopyOK' /\ AttemptOK'
  BY <1>1, <1>2, AttemptKept DEF CaptureInv, WorkerInv
<1>5. DoneOK'
  BY <1>1, <1>2 DEF CaptureInv, ClientInv, DoneOK, NothingUnwritten, IsDone,
                    storeVars, tryVars
<1>6. TagsOK' /\ CachedIsCurrent'
  BY <1>1 DEF CaptureInv, ClientInv, TagsOK, CachedIsCurrent, NothingUnwritten,
              IsDone, Tag, storeVars, getVars
<1> QED
  BY <1>2, <1>3, <1>4, <1>5, <1>6 DEF CaptureInv, WorkerInv, ClientInv

LEMMA ClaimKeeps ==
  ASSUME CaptureInv, Claim
  PROVE  CaptureInv'
<1>1. StoreOK' /\ ~IsDone(jobs, c)' /\ CopyOK'
  BY ClaimStore DEF CaptureInv, WorkerInv
<1>2. /\ UNCHANGED <<file, getVars>> /\ clock' = clock + 1 /\ clock \in Nat
      /\ stage' = "resolve"
  BY DEF Claim, restVars, CaptureInv, WorkerInv, StoreOK
<1>3. AttemptOK'
  BY <1>2 DEF AttemptOK, Trying
<1>4. FileType'
  BY <1>2 DEF FileType, CaptureInv, WorkerInv
<1>5. ClientInv'
  BY <1>1, <1>2, NotDone DEF CaptureInv, ClientInv
<1> QED
  BY <1>1, <1>3, <1>4, <1>5 DEF CaptureInv, WorkerInv

LEMMA WorkingInv ==
  ASSUME CaptureInv, Working
  PROVE  CaptureInv'
<1>1. UNCHANGED <<storeVars, asked, crashes, getVars>> /\ stage # "idle"
  BY WorkingStep DEF restVars
<1>2. StoreOK' /\ clock \in Nat /\ clock' = clock
  BY <1>1, StoreKept DEF CaptureInv, WorkerInv, StoreOK, storeVars
<1>3. CopyOK' /\ AttemptOK' /\ FileType'
  BY WorkingKeeps DEF CaptureInv, WorkerInv
<1>4. ~(NothingUnwritten' /\ IsDone(jobs, c)')
  BY <1>1 DEF CaptureInv, ClientInv, DoneOK, NothingUnwritten, IsDone, storeVars
<1>5. ClientInv'
  BY <1>1, <1>2, <1>4, NotDone DEF CaptureInv, ClientInv
<1> QED
  BY <1>2, <1>3, <1>5 DEF CaptureInv, WorkerInv

LEMMA ReportKeeps ==
  ASSUME CaptureInv, Report
  PROVE  CaptureInv'
<1>1. PICK n \in Nat : n = clock
  BY DEF CaptureInv, WorkerInv, StoreOK
<1>2. /\ StoreOK'
      /\ IsDone(jobs, c)' => /\ copy.state = "done" /\ jobs'[c].req = copy.req
                             /\ jobs'[c].updated = n + 1
  BY <1>1, ReportStore DEF CaptureInv, WorkerInv
<1>3. /\ UNCHANGED <<file, getVars>> /\ stage = "report" /\ stage' = "idle"
      /\ clock' = n + 1 \/ clock' = n
  BY <1>1 DEF Report, restVars, storeVars
<1>4. CopyOK' /\ AttemptOK' /\ FileType'
  BY <1>3 DEF CopyOK, AttemptOK, Trying, FileType, CaptureInv, WorkerInv
<1>5. DoneOK'
  BY <1>2, <1>3 DEF DoneOK, CaptureInv, WorkerInv, AttemptOK, Whole, Kinds
<1>6. TagsOK'
  BY <1>1, <1>3, TagsKept DEF CaptureInv, ClientInv
<1>7. CachedIsCurrent'
  <2>1. \A k \in Kinds : cache'[k] # Nothing => cache'[k].tag \in 0 .. n
    BY <1>1, <1>3 DEF CaptureInv, ClientInv, TagsOK, getVars
  <2> QED
    BY <1>2, <2>1 DEF CachedIsCurrent, Tag
<1> QED
  BY <1>2, <1>4, <1>5, <1>6, <1>7 DEF CaptureInv, WorkerInv, ClientInv

LEMMA FetchKeeps ==
  ASSUME CaptureInv,
         (\E k \in Kinds : AskMedia(k)) \/ StatFile \/ ServeFile
  PROVE  CaptureInv'
<1>1. UNCHANGED <<storeVars, asked, crashes, tryVars, file>>
  BY DEF AskMedia, StatFile, ServeFile
<1>2. StoreOK' /\ clock' = clock /\ jobs' = jobs
  BY <1>1, StoreKept DEF CaptureInv, WorkerInv, StoreOK, storeVars
<1>3. CopyOK' /\ AttemptOK' /\ FileType'
  BY <1>1, AttemptKept DEF CaptureInv, WorkerInv, FileType
<1>4. DoneOK' /\ (NothingUnwritten' <=> NothingUnwritten)
      /\ (IsDone(jobs, c)' <=> IsDone(jobs, c)) /\ Tag(jobs[c])' = Tag(jobs[c])
  BY <1>1 DEF CaptureInv, ClientInv, DoneOK, NothingUnwritten, IsDone, Tag,
              storeVars, tryVars
<1>5. TagsOK' /\ CachedIsCurrent'
  <2>1. ASSUME NEW k \in Kinds, AskMedia(k)
        PROVE  TagsOK' /\ CachedIsCurrent'
    <3>1. /\ fetch' = [kind |-> k, tag |-> Tag(jobs[c]), sends |-> FALSE]
          /\ cache' = cache /\ Present(jobs, c)
      BY <2>1 DEF AskMedia, IsDone, Present
    <3>2. Tag(jobs[c]) \in 0 .. clock
      <4>1. jobs[c].updated \in Nat /\ jobs[c].updated <= clock
        BY <3>1, TheCapture, RecordType
           DEF CaptureInv, WorkerInv, StoreOK, RecordsOK, Job
      <4> QED
        BY <4>1 DEF Tag, CaptureInv, WorkerInv, StoreOK
    <3> QED
      BY <1>2, <1>4, <3>1, <3>2
         DEF TagsOK, CachedIsCurrent, CaptureInv, ClientInv
  <2>2. ASSUME StatFile PROVE TagsOK' /\ CachedIsCurrent'
    <3>1. /\ cache' = cache /\ fetch # Nothing
          /\ fetch' = Nothing \/ fetch' = [fetch EXCEPT !.sends = TRUE]
      BY <2>2 DEF StatFile
    <3> QED
      BY <1>2, <1>4, <3>1 DEF TagsOK, CachedIsCurrent, CaptureInv, ClientInv
  <2>3. ASSUME ServeFile PROVE TagsOK' /\ CachedIsCurrent'
    <3>1. PICK k \in Kinds, t \in 0 .. clock : k = fetch.kind /\ t = fetch.tag
      BY <2>3 DEF ServeFile, TagsOK, CaptureInv, ClientInv
    <3>2. /\ fetch' = Nothing
          /\ cache' = IF file[k] = NoFile THEN cache
                      ELSE [cache EXCEPT ![k] = [tag |-> t, req |-> file[k].req,
                                                 whole |-> file[k].whole]]
      BY <2>3, <3>1 DEF ServeFile
    <3>3. CASE file[k] = NoFile
      BY <1>2, <1>4, <3>2, <3>3 DEF TagsOK, CachedIsCurrent, CaptureInv, ClientInv
    <3>4. CASE file[k] # NoFile
      <4>1. /\ DOMAIN cache' = Kinds
            /\ cache'[k].tag = t /\ cache'[k].req = file[k].req
            /\ cache'[k].whole <=> file[k].whole
            /\ \A d \in Kinds : d # k => cache'[d] = cache[d]
        BY <3>2, <3>4 DEF TagsOK, CaptureInv, ClientInv
      <4>2. TagsOK'
        BY <1>2, <3>1, <3>2, <4>1 DEF TagsOK, CaptureInv, ClientInv
      <4>3. NothingUnwritten /\ IsDone(jobs, c) =>
              file[k].req = jobs[c].req /\ file[k].whole
        BY <3>4 DEF DoneOK, CaptureInv, ClientInv
      <4>4. CachedIsCurrent'
        BY <1>2, <1>4, <4>1, <4>3 DEF CachedIsCurrent, CaptureInv, ClientInv
      <4> QED
        BY <4>2, <4>4
    <3> QED
      BY <3>3, <3>4
  <2> QED
    BY <2>1, <2>2, <2>3
<1> QED
  BY <1>2, <1>3, <1>4, <1>5 DEF CaptureInv, WorkerInv, ClientInv

LEMMA RestartKeeps ==
  ASSUME CaptureInv, Restart
  PROVE  CaptureInv'
<1>1. /\ jobs' = saved.jobs /\ fetch' = Nothing /\ stage' = "idle"
      /\ crashes' = crashes + 1
      /\ UNCHANGED <<saved, clock, faults, asked, file, cache>>
  BY DEF Restart
<1>2. /\ StoreOK' /\ (NothingUnwritten' => faults = 0 /\ jobs' = jobs)
  <2>1. /\ crashes \in Nat /\ faults \in Nat /\ (faults = 0 => saved.jobs = jobs)
        /\ RecordsOK(saved.jobs) /\ asked \in Seq(Asks) /\ clock \in Nat
    BY DEF CaptureInv, WorkerInv, StoreOK
  <2>2. RecordsOK(jobs)' /\ RecordsOK(saved.jobs)'
    BY <1>1, <2>1 DEF RecordsOK, Present
  <2> QED
    BY <1>1, <2>1, <2>2 DEF StoreOK, NothingUnwritten
<1>3. CopyOK' /\ AttemptOK' /\ FileType'
  BY <1>1 DEF CopyOK, AttemptOK, Trying, FileType, CaptureInv, WorkerInv
<1>4. TagsOK'
  BY <1>1 DEF TagsOK, CaptureInv, ClientInv
<1>5. DoneOK' /\ CachedIsCurrent'
  BY <1>1, <1>2 DEF DoneOK, CachedIsCurrent, NothingUnwritten, IsDone, Tag,
                    CaptureInv, ClientInv
<1> QED
  BY <1>2, <1>3, <1>4, <1>5 DEF CaptureInv, WorkerInv, ClientInv

LEMMA CaptureInvHolds == Spec => []CaptureInv
<1>1. Init => CaptureInv
  <2> SUFFICES ASSUME Init PROVE CaptureInv
    OBVIOUS
  <2>1. jobs = EmptyTable /\ saved.jobs = EmptyTable /\ EmptyTable[c] = NoJob
    BY TheCapture DEF Init, EmptyTable
  <2>2. RecordsOK(jobs) /\ RecordsOK(saved.jobs) /\ ~IsDone(jobs, c)
    BY <2>1, EmptyTableType DEF RecordsOK, Present, IsDone
  <2>3. StoreOK
    BY <2>1, <2>2 DEF StoreOK, Init
  <2>4. CopyOK /\ AttemptOK /\ FileType
    BY DEF Init, CopyOK, AttemptOK, Trying, FileType
  <2>5. ClientInv
    BY <2>2 DEF Init, ClientInv, DoneOK, TagsOK, CachedIsCurrent
  <2> QED
    BY <2>3, <2>4, <2>5 DEF CaptureInv, WorkerInv
<1>2. CaptureInv /\ [Next]_vars => CaptureInv'
  <2> SUFFICES ASSUME CaptureInv, [Next]_vars PROVE CaptureInv'
    OBVIOUS
  <2>1. CASE Next
    BY <2>1, SubmitKeeps, DeleteKeeps, RemoveFileKeeps, ClaimKeeps, WorkingInv,
       ReportKeeps, FetchKeeps, RestartKeeps DEF Next, Working
  <2>2. CASE UNCHANGED vars
    <3>1. /\ UNCHANGED <<storeVars, asked, crashes, tryVars, file, getVars>>
          /\ clock \in Nat
      BY <2>2 DEF vars, storeVars, tryVars, getVars, CaptureInv, WorkerInv, StoreOK
    <3>2. StoreOK' /\ CopyOK' /\ AttemptOK' /\ FileType'
      BY <3>1, StoreKept, AttemptKept DEF CaptureInv, WorkerInv, FileType, StoreOK
    <3>3. ClientInv'
      BY <2>2 DEF vars, CaptureInv, ClientInv, DoneOK, TagsOK, CachedIsCurrent,
                  NothingUnwritten, IsDone, Tag
    <3> QED
      BY <3>2, <3>3 DEF CaptureInv, WorkerInv
  <2> QED
    BY <2>1, <2>2
<1> QED
  BY <1>1, <1>2, PTL DEF Spec

\* When the server answers "not modified", the client has the whole output of
\* the submission the done record describes, for any number of submissions
\* with force, deletions, restarts, and requests that read the record before
\* the file (GET /media/{captureId}/...).
THEOREM NotModifiedIsTrue == Spec => []CachedIsCurrent
<1>1. CaptureInv => CachedIsCurrent
  BY DEF CaptureInv, ClientInv
<1> QED
  BY <1>1, CaptureInvHolds, PTL

-----------------------------------------------------------------------------
(* Giving up.  What a backend resolved is the only way to read the item    *)
(* there is; the worker never loses sight of it.                           *)

LEMMA OnlyWay ==
  ASSUME NEW server \in Servers, NEW a \in Answers
  PROVE  /\ ~Resolve(server, a).ok => ~Obtainable(server, a)
         /\ Resolve(server, a).ok /\ ~Readable(Resolve(server, a).via, a) =>
              ~Obtainable(server, a)
<1>1. /\ a.lookup \in BOOLEAN /\ a.stream \in BOOLEAN /\ a.disk \in BOOLEAN
      /\ a.head = "refused" => ~a.stream
  BY AnswersAssumption
<1>2. /\ Stream.ok /\ Stream.via = "stream" /\ LocalFile.ok
      /\ LocalFile.via = "disk" /\ ~Error.ok
  BY DEF Stream, LocalFile, Error
<1>3. CASE server.kind = "plex"
  <2>1. Resolve(server, a) = PlexSource(a)
    BY <1>3 DEF Resolve
  <2> QED
    BY <1>1, <1>2, <1>3, <2>1 DEF PlexSource, Readable, Obtainable
<1>4. CASE server.kind = "kodi"
  <2>1. Resolve(server, a) = KodiItem(server, a)
    BY <1>4 DEF Resolve
  <2> QED
    BY <1>1, <1>2, <1>4, <2>1 DEF KodiItem, KodiSource, Readable, Obtainable
<1>5. CASE server.kind = "jellyfin"
  <2>1. Resolve(server, a) = Stream
    BY <1>5 DEF Resolve, JellyfinSource
  <2> QED
    BY <1>1, <1>2, <1>5, <2>1 DEF Readable, Obtainable
<1>6. CASE server.kind = "local"
  <2>1. Resolve(server, a) = LocalSource(server, a)
    BY <1>6 DEF Resolve
  <2> QED
    BY <1>1, <1>2, <1>6, <2>1 DEF LocalSource, Readable, Obtainable
<1> QED
  BY <1>3, <1>4, <1>5, <1>6, ServersAssumption

\* The worker's local variables while the attempt goes well.
GoesWell ==
  /\ DOMAIN try = {"source", "speed", "result", "readable", "obtainable"}
  /\ DOMAIN try.result = {"frames", "facts", "error", "source", "speed"}
  /\ try.result.error = ""
  /\ ~try.readable => ~try.obtainable

FallbackInv ==
  /\ stage \notin {"idle", "resolve", "report"} => GoesWell
  /\ FallsBack

LEMMA FailsFallback ==
  ASSUME GoesWell, NEW why, FailsWith(why),
         why = "unreadable" => ~try.readable, why # "resolve"
  PROVE  FallbackInv'
<1>1. stage' = "report" /\ try' = [try EXCEPT !.result = [NoResult EXCEPT !.error = why]]
  BY DEF FailsWith, Ends
<1>2. try'.obtainable = try.obtainable /\ try'.result = [NoResult EXCEPT !.error = why]
  BY <1>1 DEF GoesWell
<1>3. [NoResult EXCEPT !.error = why].error = why
  BY DEF NoResult
<1>4. try'.result.error = why
  BY <1>2, <1>3
<1> QED
  BY <1>1, <1>2, <1>4 DEF FallbackInv, FallsBack, GoesWell

LEMMA ResolveFallback ==
  ASSUME NEW server \in Servers, NEW a \in Answers,
         NEW source \in Sources, NEW speed \in Speeds,
         ResolveItem(server, a, source, speed)
  PROVE  FallbackInv'
<1> DEFINE found == Resolve(server, a)
           local == [source |-> source, speed |-> speed, result |-> NoResult,
                     readable |-> Readable(found.via, a),
                     obtainable |-> Obtainable(server, a)]
<1>1. CASE found.ok
  <2>1. stage' = "still" /\ try' = local
    BY <1>1 DEF ResolveItem
  <2>2. ~Readable(found.via, a) => ~Obtainable(server, a)
    BY <1>1, OnlyWay
  <2>3. GoesWell'
    BY <2>1, <2>2 DEF GoesWell, NoResult
  <2> QED
    BY <2>1, <2>3 DEF FallbackInv, FallsBack
<1>2. CASE ~found.ok
  <2>1. stage' = "report" /\ try' = [local EXCEPT !.result.error = "resolve"]
    BY <1>2 DEF ResolveItem
  <2>2. ~Obtainable(server, a)
    BY <1>2, OnlyWay
  <2>3. try'.obtainable <=> Obtainable(server, a)
    BY <2>1
  <2> QED
    BY <2>1, <2>2, <2>3 DEF FallbackInv, FallsBack
<1> QED
  BY <1>1, <1>2

LEMMA FallbackHolds == Spec => []FallbackInv
<1>1. Init => FallbackInv
  BY DEF Init, FallbackInv, FallsBack
<1>2. FallbackInv /\ [Next]_vars => FallbackInv'
  <2> SUFFICES ASSUME FallbackInv, [Next]_vars PROVE FallbackInv'
    OBVIOUS
  <2>1. CASE UNCHANGED tryVars
    BY <2>1 DEF FallbackInv, FallsBack, GoesWell, tryVars
  <2>2. ASSUME NEW k \in Kinds, Open(k) PROVE FallbackInv'
    <3>1. UNCHANGED try /\ GoesWell
      BY <2>2 DEF Open, FallbackInv, Kinds
    <3>2. stage' \in {"stilling", "clipping"}
      BY <2>2 DEF Open
    <3> QED
      BY <3>1, <3>2 DEF FallbackInv, FallsBack, GoesWell
  <2>3. ASSUME NEW k \in Kinds, NEW ok \in BOOLEAN, Close(k, ok) PROVE FallbackInv'
    <3>1. GoesWell
      BY <2>3 DEF Close, FallbackInv
    <3>2. CASE ok
      BY <2>3, <3>1, <3>2 DEF Close, FallbackInv, FallsBack, GoesWell
    <3>3. CASE ~ok
      BY <2>3, <3>1, <3>3, FailsFallback DEF Close
    <3> QED
      BY <3>2, <3>3
  <2>4. ASSUME NotReadable PROVE FallbackInv'
    BY <2>4, FailsFallback DEF NotReadable, FallbackInv
  <2>5. ASSUME TimeOut PROVE FallbackInv'
    BY <2>5, FailsFallback DEF TimeOut, FallbackInv
  <2>6. ASSUME Inspect PROVE FallbackInv'
    <3>1. GoesWell
      BY <2>6 DEF Inspect, FallbackInv
    <3>2. CASE FailsWith("inspect") \/ FailsWith("short")
      BY <3>1, <3>2, FailsFallback
    <3>3. CASE /\ stage' = "probe"
               /\ try' = [try EXCEPT !.result.frames = file["clip"].seconds * FPS]
      <4>1. try' = [try EXCEPT !.result =
                      [try.result EXCEPT !.frames = file["clip"].seconds * FPS]]
        BY <3>1, <3>3 DEF GoesWell
      <4>2. GoesWell'
        BY <3>1, <4>1 DEF GoesWell
      <4> QED
        BY <3>3, <4>2 DEF FallbackInv, FallsBack
    <3> QED
      BY <2>6, <3>2, <3>3 DEF Inspect
  <2>7. ASSUME NEW answered \in BOOLEAN, Probe(answered) PROVE FallbackInv'
    <3>1. GoesWell
      BY <2>7 DEF Probe, FallbackInv
    <3>2. PICK facts : /\ stage' = "report"
                       /\ try' = [try EXCEPT !.result =
                            [try.result EXCEPT !.facts = facts,
                               !.source = try.source, !.speed = try.speed]]
      BY <2>7 DEF Probe, Ends
    <3>3. try'.result.error = ""
      BY <3>1, <3>2 DEF GoesWell
    <3> QED
      BY <3>2, <3>3 DEF FallbackInv, FallsBack
  <2>8. ASSUME Claim \/ Report \/ Restart PROVE FallbackInv'
    <3>1. stage' \in {"resolve", "idle"}
      BY <2>8 DEF Claim, Report, Restart
    <3> QED
      BY <3>1 DEF FallbackInv, FallsBack
  <2>9. ASSUME \/ \E ask \in Asks, force \in BOOLEAN : Submit(ask, force)
               \/ Delete \/ (\E k \in Kinds : RemoveFile(k))
               \/ (\E k \in Kinds : AskMedia(k)) \/ StatFile \/ ServeFile
               \/ UNCHANGED vars
        PROVE  FallbackInv'
    <3>1. UNCHANGED tryVars
      BY <2>9 DEF Submit, Delete, RemoveFile, AskMedia, StatFile, ServeFile,
                  vars, tryVars
    <3> QED
      BY <2>1, <3>1
  <2> QED
    BY <2>2, <2>3, <2>4, <2>5, <2>6, <2>7, <2>8, <2>9, ResolveFallback
       DEF Next, Extract
<1> QED
  BY <1>1, <1>2, PTL DEF Spec

\* An attempt gives up on an item only when no way the settings allow would
\* have served it, whatever the servers answer (backend/*.go, process()).
THEOREM GivesUpOnlyWhenItMust == Spec => []FallsBack
<1>1. FallbackInv => FallsBack
  BY DEF FallbackInv
<1> QED
  BY <1>1, FallbackHolds, PTL

-----------------------------------------------------------------------------
(* The facts: what the loop over the streams makes of them.                *)

AudioInfo == [spatial: {"", "atmos", "dtsx"}, default: BOOLEAN]
VideoInfo == [codec: BOOLEAN, hdr: {"", "HDR10", "HLG"}, dovi: BOOLEAN]

LEMMA MediaInfoIs == MediaInfo = [video: VideoInfo, audio: Seq(AudioInfo)]
BY DEF MediaInfo, VideoInfo, AudioInfo

\* One round: what it changes.
LEMMA OneRound ==
  ASSUME NEW info \in MediaInfo, NEW s \in ProbeStream
  PROVE  /\ Derive(info, s) \in MediaInfo
         /\ Video(s).codec = s.codec
         /\ Derive(info, s).video = IF IsVideo(s) /\ ~info.video.codec THEN Video(s)
                                    ELSE info.video
         /\ Derive(info, s).audio = IF IsAudio(s) THEN Append(info.audio, Audio(s))
                                    ELSE info.audio
<1>1. PICK v \in VideoInfo, a \in Seq(AudioInfo) :
        info = [video |-> v, audio |-> a] /\ info.video = v /\ info.audio = a
  BY MediaInfoIs
<1>2. Video(s) \in VideoInfo /\ Video(s).codec = s.codec
  BY DEF Video, VideoInfo, ProbeStream
<1>3. Audio(s) \in AudioInfo
  BY DEF Audio, AudioInfo, ProbeStream
<1>4. Append(a, Audio(s)) \in Seq(AudioInfo)
  BY <1>3
<1>5. CASE IsVideo(s)
  <2>1. ~IsAudio(s)
    BY <1>5 DEF IsVideo, IsAudio
  <2>2. Derive(info, s) = IF v.codec THEN info ELSE [info EXCEPT !.video = Video(s)]
    BY <1>1, <1>5, <2>1 DEF Derive, HasCodec
  <2> QED
    BY <1>1, <1>2, <1>5, <2>1, <2>2, MediaInfoIs
<1>6. CASE IsAudio(s)
  <2>1. ~IsVideo(s)
    BY <1>6 DEF IsVideo, IsAudio
  <2>2. Derive(info, s) = [info EXCEPT !.audio = Append(a, Audio(s))]
    BY <1>1, <1>6, <2>1 DEF Derive
  <2> QED
    BY <1>1, <1>2, <1>4, <1>6, <2>1, <2>2, MediaInfoIs
<1>7. CASE ~IsVideo(s) /\ ~IsAudio(s)
  <2>1. Derive(info, s) = info
    BY <1>7 DEF Derive
  <2> QED
    BY <1>1, <1>2, <1>7, <2>1
<1> QED
  BY <1>5, <1>6, <1>7

\* The facts after so many rounds.
FactRounds(at, streams) ==
  /\ at[0] = NoFacts /\ FoldLeft(Derive, NoFacts, streams) = at[Len(streams)]
  /\ \A k \in 0 .. Len(streams) - 1 : at[k + 1] = Derive(at[k], streams[k + 1])

LEMMA FactsUnroll ==
  ASSUME NEW streams \in Seq(ProbeStream)
  PROVE  \E at : FactRounds(at, streams)
<1>1. PICK n \in Nat : Len(streams) = n /\ DOMAIN streams = 1 .. n
                       /\ \A i \in 1 .. n : streams[i] \in ProbeStream
  BY LenProperties, ElementOfSeq
<1> DEFINE Rec(it) == it = [I \in SUBSET (1 .. n) |-> IF I = {} THEN NoFacts
                              ELSE Derive(it[I \ {Max(I)}], streams[Max(I)])]
           iter == CHOOSE it : Rec(it)
           at == [k \in 0 .. n |-> iter[1 .. k]]
<1>2. FoldLeft(Derive, NoFacts, streams) = iter[1 .. n]
  BY <1>1 DEF FoldLeft, MapThenFoldSet
<1>3. Rec(iter)
  <2> DEFINE step == [i \in 1 .. n |-> [w \in MediaInfo |-> Derive(w, streams[i])]]
  <2>1. NoFacts \in MediaInfo
    BY DEF NoFacts, MediaInfo
  <2>2. step \in [1 .. n -> [MediaInfo -> MediaInfo]]
    BY <1>1, OneRound
  <2> HIDE DEF step
  <2>3. PICK it \in [SUBSET (1 .. n) -> MediaInfo] : Solves(it, n, NoFacts, step)
    BY <2>1, <2>2, FoldExists
  <2>4. ASSUME NEW I \in SUBSET (1 .. n), I # {}
        PROVE  step[Max(I)][it[I \ {Max(I)}]] = Derive(it[I \ {Max(I)}], streams[Max(I)])
    <3>1. Max(I) \in 1 .. n
      BY <2>4, Largest
    <3>2. it[I \ {Max(I)}] \in MediaInfo
      OBVIOUS
    <3> QED
      BY <3>1, <3>2 DEF step
  <2>5. Rec(it)
    BY <2>3, <2>4 DEF Solves
  <2> HIDE DEF Rec
  <2> QED
    BY <2>5
<1> HIDE DEF iter
<1>4. iter[{}] = NoFacts
  BY <1>3
<1>5. ASSUME NEW k \in 0 .. n - 1
      PROVE  iter[1 .. k + 1] = Derive(iter[1 .. k], streams[k + 1])
  <2>1. /\ 1 .. k + 1 \in SUBSET (1 .. n) /\ 1 .. k + 1 # {}
        /\ Max(1 .. k + 1) = k + 1 /\ (1 .. k + 1) \ {k + 1} = 1 .. k
    BY PrefixStep
  <2>2. iter[1 .. k + 1] = Derive(iter[(1 .. k + 1) \ {Max(1 .. k + 1)}],
                                  streams[Max(1 .. k + 1)])
    BY <1>3, <2>1
  <2> QED
    BY <2>1, <2>2
<1>6. at[0] = NoFacts /\ at[n] = iter[1 .. n]
  BY <1>4
<1>7. \A k \in 0 .. n - 1 : at[k + 1] = Derive(at[k], streams[k + 1])
  BY <1>5
<1> HIDE DEF at
<1> QED
  BY <1>1, <1>2, <1>6, <1>7 DEF FactRounds

\* How many of the first streams are audio.
AudioUpTo(streams, i)  == {j \in 1 .. i : IsAudio(streams[j])}
AudioCount(streams, i) == Cardinality(AudioUpTo(streams, i))
Counts(streams, i)     == IsVideo(streams[i]) /\ HasCodec(streams[i])

LEMMA AudioCounts ==
  ASSUME NEW streams, NEW k \in Nat
  PROVE  /\ AudioCount(streams, k) \in Nat
         /\ AudioCount(streams, 0) = 0
         /\ AudioCount(streams, k + 1) =
              IF IsAudio(streams[k + 1]) THEN AudioCount(streams, k) + 1
                                         ELSE AudioCount(streams, k)
         /\ \A i \in 1 .. k : AudioCount(streams, i) <= AudioCount(streams, k)
         /\ \A i \in 1 .. k : IsAudio(streams[i]) =>
              AudioCount(streams, i) \in 1 .. AudioCount(streams, k)
<1> DEFINE J == {j \in Nat \ {0} : IsAudio(streams[j])}
<1>1. \A i \in Nat : AudioCount(streams, i) = Place(J, i)
  <2> TAKE i \in Nat
  <2>1. AudioUpTo(streams, i) = J \cap (1 .. i)
    BY DEF AudioUpTo
  <2> QED
    BY <2>1 DEF AudioCount, Place
<1>2. \A i \in Nat \ {0} : i \in J <=> IsAudio(streams[i])
  OBVIOUS
<1> HIDE DEF J
<1>3. /\ 0 \in Nat /\ k + 1 \in Nat /\ 1 .. k \subseteq Nat
      /\ k + 1 \in Nat \ {0} /\ 1 .. k \subseteq Nat \ {0}
  OBVIOUS
<1>4. /\ Place(J, k) \in Nat /\ Place(J, 0) = 0
      /\ Place(J, k + 1) = IF k + 1 \in J THEN Place(J, k) + 1 ELSE Place(J, k)
      /\ \A i \in 1 .. k : Place(J, i) <= Place(J, k)
      /\ \A i \in 1 .. k : i \in J => Place(J, i) \in 1 .. Place(J, k)
  BY Places
<1> QED
  BY <1>1, <1>2, <1>3, <1>4

\* What holds of the facts after k rounds.
FactsUpTo(info, streams, k) ==
  /\ info \in MediaInfo
  /\ (\A j \in 1 .. k : ~Counts(streams, j)) => ~info.video.codec
  /\ \A i \in 1 .. k : Counts(streams, i) /\ (\A j \in 1 .. i - 1 : ~Counts(streams, j)) =>
       info.video = Video(streams[i])
  /\ Len(info.audio) = AudioCount(streams, k)
  /\ \A i \in 1 .. k : IsAudio(streams[i]) =>
       info.audio[AudioCount(streams, i)] = Audio(streams[i])

LEMMA FactsRound ==
  ASSUME NEW streams \in Seq(ProbeStream), NEW k \in 0 .. Len(streams) - 1, NEW info,
         FactsUpTo(info, streams, k)
  PROVE  FactsUpTo(Derive(info, streams[k + 1]), streams, k + 1)
<1>1. PICK s \in ProbeStream : s = streams[k + 1]
  BY ElementOfSeq
<1>2. k \in Nat /\ 1 .. k + 1 = (1 .. k) \cup {k + 1} /\ (k + 1) - 1 = k
  OBVIOUS
<1>3. PICK next \in MediaInfo :
        /\ next = Derive(info, s) /\ Video(s).codec = s.codec
        /\ next.video = IF IsVideo(s) /\ ~info.video.codec THEN Video(s) ELSE info.video
        /\ next.audio = IF IsAudio(s) THEN Append(info.audio, Audio(s)) ELSE info.audio
  BY OneRound DEF FactsUpTo
<1>4. (\A j \in 1 .. k + 1 : ~Counts(streams, j)) => ~next.video.codec
  BY <1>1, <1>2, <1>3 DEF FactsUpTo, Counts, HasCodec
<1>5. ASSUME NEW i \in 1 .. k + 1, Counts(streams, i),
             \A j \in 1 .. i - 1 : ~Counts(streams, j)
      PROVE  next.video = Video(streams[i])
  <2>1. CASE i = k + 1
    BY <1>1, <1>2, <1>3, <1>5, <2>1 DEF FactsUpTo, Counts
  <2>2. CASE i \in 1 .. k
    <3>1. info.video = Video(streams[i])
      BY <1>5, <2>2 DEF FactsUpTo
    <3>2. streams[i] \in ProbeStream
      BY <2>2, ElementOfSeq
    <3>3. Video(streams[i]).codec
      BY <1>5, <3>2 DEF Video, Counts, HasCodec
    <3> QED
      BY <1>3, <3>1, <3>3
  <2> QED
    BY <1>2, <2>1, <2>2
<1>6. /\ info.audio \in Seq(AudioInfo) /\ Len(info.audio) = AudioCount(streams, k)
      /\ Audio(s) \in AudioInfo
  BY MediaInfoIs DEF FactsUpTo, Audio, AudioInfo, ProbeStream
<1>7. Len(next.audio) = AudioCount(streams, k + 1)
  <2>1. Len(Append(info.audio, Audio(s))) = Len(info.audio) + 1
    BY <1>6, AppendProperties
  <2>2. AudioCount(streams, k + 1) = IF IsAudio(s) THEN AudioCount(streams, k) + 1
                                     ELSE AudioCount(streams, k)
    BY <1>1, <1>2, AudioCounts
  <2> QED
    BY <1>3, <1>6, <2>1, <2>2
<1>8. ASSUME NEW i \in 1 .. k + 1, IsAudio(streams[i])
      PROVE  next.audio[AudioCount(streams, i)] = Audio(streams[i])
  <2>1. CASE i = k + 1
    <3>1. AudioCount(streams, i) = AudioCount(streams, k) + 1
      BY <1>2, <1>8, <2>1, AudioCounts
    <3>2. next.audio = Append(info.audio, Audio(s))
      BY <1>1, <1>3, <1>8, <2>1
    <3> QED
      BY <1>1, <1>6, <2>1, <3>1, <3>2, AppendProperties
  <2>2. CASE i \in 1 .. k
    <3>1. /\ AudioCount(streams, i) \in 1 .. Len(info.audio)
          /\ info.audio[AudioCount(streams, i)] = Audio(streams[i])
      BY <1>2, <1>6, <1>8, <2>2, AudioCounts DEF FactsUpTo
    <3> QED
      BY <1>3, <1>6, <3>1, AppendProperties
  <2> QED
    BY <1>2, <2>1, <2>2
<1> QED
  BY <1>1, <1>3, <1>4, <1>5, <1>7, <1>8 DEF FactsUpTo

LEMMA FactsAre ==
  ASSUME NEW source \in Sources
  PROVE  FactsOf(source) \in MediaInfo /\ FactsAreOf(FactsOf(source), source.streams)
<1>1. PICK streams \in Seq(ProbeStream) : streams = source.streams
  BY SourcesAssumption
<1>2. PICK n \in Nat : n = Len(streams) /\ DOMAIN streams = 1 .. n
  BY LenProperties
<1>3. PICK at : FactRounds(at, streams)
  BY FactsUnroll
<1> DEFINE Good == {k \in Nat : k <= n => FactsUpTo(at[k], streams, k)}
<1>4. 0 \in Good
  <2>1. NoFacts \in MediaInfo
    BY DEF NoFacts, MediaInfo
  <2>2. ~NoFacts.video.codec /\ NoFacts.audio = <<>>
    BY DEF NoFacts
  <2>3. Len(<<>>) = 0
    OBVIOUS
  <2>4. AudioCount(streams, 0) = 0
    BY AudioCounts
  <2>5. FactsUpTo(NoFacts, streams, 0)
    BY <2>1, <2>2, <2>3, <2>4 DEF FactsUpTo
  <2> QED
    BY <1>3, <2>5 DEF FactRounds
<1>5. ASSUME NEW k \in Good PROVE k + 1 \in Good
  <2> SUFFICES ASSUME k + 1 <= n PROVE FactsUpTo(at[k + 1], streams, k + 1)
    OBVIOUS
  <2>1. k \in 0 .. Len(streams) - 1 /\ FactsUpTo(at[k], streams, k)
    BY <1>2
  <2>2. at[k + 1] = Derive(at[k], streams[k + 1])
    BY <1>3, <2>1 DEF FactRounds
  <2> QED
    BY <2>1, <2>2, FactsRound
<1>6. Good = Nat
  <2>1. Good \in SUBSET Nat
    OBVIOUS
  <2> HIDE DEF Good
  <2> QED
    BY <1>4, <1>5, <2>1, Ascending
<1>7. FactsUpTo(at[n], streams, n)
  BY <1>6
<1>8. FactsOf(source) = at[n]
  BY <1>1, <1>2, <1>3 DEF FactRounds, FactsOf
<1> QED
  BY <1>1, <1>2, <1>7, <1>8
     DEF FactsUpTo, FactsAreOf, Counts, AudioCount, AudioUpTo

-----------------------------------------------------------------------------
(* The types of all variables.                                             *)

StoreTypes == result \in Result /\ saved \in [jobs: Tables, result: Result]

WorkerTypes ==
  /\ stage \in {"idle", "resolve", "still", "stilling", "clip", "clipping",
                "inspect", "probe", "report"}
  /\ stage = "idle" => copy = NoJob
  /\ stage \in {"idle", "resolve"} => try = Nothing
  /\ stage \notin {"idle", "resolve"} => try \in Attempt

ClientTypes ==
  /\ removing \subseteq Kinds /\ drops \in Nat
  /\ fetch = Nothing \/ fetch \in [kind: Kinds, tag: Nat, sends: BOOLEAN]
  /\ cache \in [Kinds -> [tag: Nat, req: Nat, whole: BOOLEAN] \cup {Nothing}]

Types == StoreTypes /\ WorkerTypes /\ ClientTypes

LEMMA TypesAre ==
  ASSUME CaptureInv, Types
  PROVE  TypeOK
<1>1. /\ jobs \in Tables /\ clock \in Nat /\ asked \in Seq(Asks)
      /\ faults \in Nat /\ crashes \in Nat /\ drops \in Nat
      /\ result \in Result /\ saved \in [jobs: Tables, result: Result]
      /\ removing \subseteq Kinds
  BY DEF CaptureInv, WorkerInv, StoreOK, RecordsOK, Types, StoreTypes, ClientTypes
<1>2. copy \in Job \cup {NoJob} /\ (copy = NoJob) = (stage = "idle")
  BY NoJobAssumption DEF CaptureInv, WorkerInv, CopyOK, Types, WorkerTypes
<1>3. /\ stage \in {"idle", "resolve", "still", "stilling", "clip", "clipping",
                    "inspect", "probe", "report"}
      /\ try \in Attempt \cup {Nothing}
      /\ (try = Nothing) = (stage \in {"idle", "resolve"})
  BY NothingAssumption DEF Types, WorkerTypes
<1>4. /\ file \in [Kinds -> Media \cup {NoFile}]
      /\ fetch \in [kind: Kinds, tag: Nat, sends: BOOLEAN] \cup {Nothing}
      /\ cache \in [Kinds -> [tag: Nat, req: Nat, whole: BOOLEAN] \cup {Nothing}]
  BY DEF CaptureInv, WorkerInv, FileType, Types, ClientTypes
<1> QED
  BY <1>1, <1>2, <1>3, <1>4 DEF TypeOK

LEMMA ResultTypes ==
  /\ NoResult \in Result
  /\ \A why \in Reasons : [NoResult EXCEPT !.error = why] \in Result
<1>1. PICK z \in Result : z = NoResult
  BY DEF NoResult, Result, Reasons
<1>2. ASSUME NEW why \in Reasons PROVE [z EXCEPT !.error = why] \in Result
  BY DEF Result
<1> QED
  BY <1>1, <1>2

\* A write of the store file, or its failure.
LEMMA WriteTypes ==
  ASSUME StoreTypes, Write, jobs' \in Tables, result' \in Result
  PROVE  StoreTypes'
BY DEF StoreTypes, Write, WriteOk, WriteFails

LEMMA FailsTypes ==
  ASSUME try \in Attempt, NEW why \in Reasons, FailsWith(why)
  PROVE  WorkerTypes'
<1>1. PICK r \in Result : r = [NoResult EXCEPT !.error = why]
  BY ResultTypes
<1>2. stage' = "report" /\ try' = [try EXCEPT !.result = r]
  BY <1>1 DEF FailsWith, Ends
<1>3. try' \in Attempt
  BY <1>2 DEF Attempt
<1> QED
  BY <1>2, <1>3 DEF WorkerTypes

LEMMA AnswerTypes ==
  ASSUME NEW server \in Servers, NEW a \in Answers, NEW via
  PROVE  Readable(via, a) \in BOOLEAN /\ Obtainable(server, a) \in BOOLEAN
<1>1. a.stream \in BOOLEAN /\ a.disk \in BOOLEAN
  BY AnswersAssumption
<1>2. Readable(via, a) \in BOOLEAN
  BY <1>1 DEF Readable
<1>3. Obtainable(server, a) \in BOOLEAN
  BY DEF Obtainable
<1> QED
  BY <1>2, <1>3

LEMMA ResolveTypes ==
  ASSUME NEW server \in Servers, NEW a \in Answers,
         NEW source \in Sources, NEW speed \in Speeds,
         ResolveItem(server, a, source, speed)
  PROVE  WorkerTypes'
<1> DEFINE found == Resolve(server, a)
           local == [source |-> source, speed |-> speed, result |-> NoResult,
                     readable |-> Readable(found.via, a),
                     obtainable |-> Obtainable(server, a)]
<1>1. local \in Attempt
  <2>1. Readable(found.via, a) \in BOOLEAN /\ Obtainable(server, a) \in BOOLEAN
    BY AnswerTypes
  <2> QED
    BY <2>1, ResultTypes DEF Attempt
<1>2. CASE found.ok
  <2>1. stage' = "still" /\ try' = local
    BY <1>2 DEF ResolveItem
  <2> QED
    BY <1>1, <2>1 DEF WorkerTypes
<1>3. CASE ~found.ok
  <2>1. stage' = "report" /\ try' = [local EXCEPT !.result.error = "resolve"]
    BY <1>3 DEF ResolveItem
  <2>2. try' = [local EXCEPT !.result = [NoResult EXCEPT !.error = "resolve"]]
    BY <2>1
  <2>3. [NoResult EXCEPT !.error = "resolve"] \in Result
    BY ResultTypes DEF Reasons
  <2> HIDE DEF local
  <2>4. try' \in Attempt
    BY <1>1, <2>2, <2>3 DEF Attempt
  <2> QED
    BY <2>1, <2>4 DEF WorkerTypes
<1> QED
  BY <1>2, <1>3

LEMMA ExtractTypes ==
  ASSUME CaptureInv, WorkerTypes, Extract
  PROVE  WorkerTypes'
<1>1. try \in Attempt
  BY DEF Extract, Open, Close, NotReadable, TimeOut, Inspect, Probe, WorkerTypes, Kinds
<1>2. ASSUME NEW k \in Kinds, Open(k) PROVE WorkerTypes'
  BY <1>1, <1>2 DEF Open, WorkerTypes
<1>3. ASSUME NEW k \in Kinds, NEW ok \in BOOLEAN, Close(k, ok) PROVE WorkerTypes'
  <2>1. CASE ok
    BY <1>1, <1>3, <2>1 DEF Close, WorkerTypes
  <2>2. CASE ~ok
    BY <1>1, <1>3, <2>2, FailsTypes DEF Close, Reasons
  <2> QED
    BY <2>1, <2>2
<1>4. ASSUME NotReadable \/ TimeOut PROVE WorkerTypes'
  BY <1>1, <1>4, FailsTypes DEF NotReadable, TimeOut, Reasons
<1>5. ASSUME Inspect PROVE WorkerTypes'
  <2>1. CASE FailsWith("inspect") \/ FailsWith("short")
    BY <1>1, <2>1, FailsTypes DEF Reasons
  <2>2. CASE /\ file["clip"] # NoFile /\ stage' = "probe"
             /\ try' = [try EXCEPT !.result.frames = file["clip"].seconds * FPS]
    <3>1. PICK n \in Nat : n = file["clip"].seconds * FPS
      BY <2>2 DEF CaptureInv, WorkerInv, FileType, Kinds, Media, FPS
    <3>2. PICK r \in Result : r = [try.result EXCEPT !.frames = n]
      BY <1>1 DEF Attempt, Result
    <3>3. try' = [try EXCEPT !.result = r]
      BY <1>1, <2>2, <3>1, <3>2 DEF Attempt
    <3>4. try' \in Attempt
      BY <1>1, <3>3 DEF Attempt
    <3> QED
      BY <2>2, <3>4 DEF WorkerTypes
  <2> QED
    BY <1>5, <2>1, <2>2 DEF Inspect
<1>6. ASSUME NEW answered \in BOOLEAN, Probe(answered) PROVE WorkerTypes'
  <2>1. try.source \in Sources /\ try.speed \in Speeds /\ try.speed \in Nat
    BY <1>1, AsksAssumption DEF Attempt
  <2>2. PICK facts \in MediaInfo \cup {Nothing} :
          facts = IF answered THEN FactsOf(try.source) ELSE Nothing
    BY <2>1, FactsAre
  <2>3. PICK r \in Result : r = [try.result EXCEPT !.facts = facts,
                                   !.source = try.source, !.speed = try.speed]
    BY <1>1, <2>1 DEF Attempt, Result
  <2>4. stage' = "report" /\ try' = [try EXCEPT !.result = r]
    BY <1>6, <2>2, <2>3 DEF Probe, Ends
  <2>5. try' \in Attempt
    BY <1>1, <2>4 DEF Attempt
  <2> QED
    BY <2>4, <2>5 DEF WorkerTypes
<1> QED
  BY <1>2, <1>3, <1>4, <1>5, <1>6 DEF Extract

LEMMA StoreTypesKept ==
  ASSUME CaptureInv', StoreTypes, WorkerTypes, [Next]_vars
  PROVE  StoreTypes'
<1>1. jobs' \in Tables
  BY DEF CaptureInv, WorkerInv, StoreOK, RecordsOK
<1>2. CASE Write /\ result' \in {result, NoResult}
  BY <1>1, <1>2, WriteTypes, ResultTypes DEF StoreTypes
<1>3. CASE UNCHANGED <<saved, result>>
  BY <1>3 DEF StoreTypes
<1>4. CASE Report
  <2>1. try.result \in Result
    BY <1>4 DEF Report, WorkerTypes, Attempt
  <2>2. CASE Present(jobs, c)
    BY <1>1, <1>4, <2>1, <2>2, WriteTypes DEF Report
  <2>3. CASE ~Present(jobs, c)
    BY <1>3, <1>4, <2>3 DEF Report, storeVars
  <2> QED
    BY <2>2, <2>3
<1>5. CASE Restart
  BY <1>5 DEF Restart, StoreTypes
<1>6. CASE Working
  BY <1>3, <1>6, WorkingStep DEF storeVars
<1>7. CASE Next
  BY <1>2, <1>3, <1>4, <1>5, <1>6, <1>7
     DEF Next, Working, Submit, Delete, RemoveFile, Claim, AskMedia, StatFile,
         ServeFile, storeVars, Write
<1> QED
  BY <1>3, <1>7 DEF vars

LEMMA WorkerTypesKept ==
  ASSUME CaptureInv, WorkerTypes, [Next]_vars
  PROVE  WorkerTypes'
<1>1. CASE UNCHANGED tryVars
  BY <1>1 DEF WorkerTypes, tryVars
<1>2. CASE Claim \/ Report \/ Restart
  BY <1>2 DEF Claim, Report, Restart, WorkerTypes
<1>3. CASE Next
  BY <1>1, <1>2, <1>3, ResolveTypes, ExtractTypes
     DEF Next, Submit, Delete, RemoveFile, AskMedia, StatFile, ServeFile
<1> QED
  BY <1>1, <1>3 DEF vars, tryVars

LEMMA ClientTypesKept ==
  ASSUME CaptureInv, ClientTypes, [Next]_vars
  PROVE  ClientTypes'
<1>1. CASE UNCHANGED getVars /\ drops' \in Nat /\ removing' \subseteq Kinds
  BY <1>1 DEF ClientTypes, getVars
<1>2. CASE UNCHANGED restVars
  BY <1>1, <1>2 DEF ClientTypes, restVars
<1>3. CASE Delete
  BY <1>1, <1>3 DEF Delete, ClientTypes
<1>4. ASSUME NEW k \in Kinds, RemoveFile(k) PROVE ClientTypes'
  BY <1>1, <1>4 DEF RemoveFile, ClientTypes
<1>5. ASSUME NEW k \in Kinds, AskMedia(k) PROVE ClientTypes'
  <2>1. PICK t \in Nat : t = Tag(jobs[c])
    BY <1>5, TheCapture, RecordType
       DEF AskMedia, IsDone, Present, CaptureInv, WorkerInv, StoreOK, RecordsOK,
           Job, Tag
  <2>2. /\ fetch' = [kind |-> k, tag |-> t, sends |-> FALSE]
        /\ UNCHANGED <<removing, cache, drops>>
    BY <1>5, <2>1 DEF AskMedia
  <2> QED
    BY <2>2 DEF ClientTypes
<1>6. ASSUME StatFile PROVE ClientTypes'
  BY <1>6 DEF StatFile, ClientTypes
<1>7. ASSUME ServeFile PROVE ClientTypes'
  <2>1. PICK k \in Kinds, t \in Nat : k = fetch.kind /\ t = fetch.tag
    BY <1>7 DEF ServeFile, ClientTypes
  <2>2. /\ fetch' = Nothing /\ UNCHANGED <<removing, drops>>
        /\ cache' = IF file[k] = NoFile THEN cache
                    ELSE [cache EXCEPT ![k] = [tag |-> t, req |-> file[k].req,
                                               whole |-> file[k].whole]]
    BY <1>7, <2>1 DEF ServeFile
  <2>3. file[k] # NoFile => file[k] \in Media
    BY DEF CaptureInv, WorkerInv, FileType
  <2>4. cache' \in [Kinds -> [tag: Nat, req: Nat, whole: BOOLEAN] \cup {Nothing}]
    BY <2>2, <2>3 DEF ClientTypes, Media
  <2> QED
    BY <2>2, <2>4 DEF ClientTypes
<1>8. CASE Restart
  BY <1>8 DEF Restart, ClientTypes
<1>9. CASE Working
  BY <1>2, <1>9, WorkingStep
<1>10. CASE Next
  BY <1>2, <1>3, <1>4, <1>5, <1>6, <1>7, <1>8, <1>9, <1>10
     DEF Next, Working, Submit, Claim, Report
<1> QED
  BY <1>1, <1>10 DEF vars, getVars, ClientTypes

LEMMA TypesHold == Spec => []Types
<1>1. Init => Types
  BY ResultTypes DEF Init, Types, StoreTypes, WorkerTypes, ClientTypes, EmptyTable, Tables
<1>2. CaptureInv /\ CaptureInv' /\ Types /\ [Next]_vars => Types'
  BY StoreTypesKept, WorkerTypesKept, ClientTypesKept DEF Types
<1> QED
  BY <1>1, <1>2, CaptureInvHolds, PTL DEF Spec

\* Every variable keeps its type, and the worker has at each stage what it
\* needs there, whatever the loop over the streams makes of a source.
THEOREM TypeCorrect == Spec => []TypeOK
BY TypesAre, TypesHold, CaptureInvHolds, PTL

-----------------------------------------------------------------------------
(* The record.  The length of a clip depends on the request, the source    *)
(* and the speed alone, all of which the attempt takes along to the record *)
(* it reports, so file and record agree on it, whichever survives.         *)

ClipIs(ask, source, speed) ==
  file["clip"] # NoFile =>
    /\ file["clip"].read = Reads(ask, source, speed)
    /\ file["clip"].seconds = Lasts(ask, source, speed)

\* A result that says what an attempt at this request has made.
SaysTruly(r, ask) ==
  /\ r.source \in Sources /\ r.speed \in Speeds /\ r.error = ""
  /\ r.facts \in {Nothing, FactsOf(r.source)}
  /\ r.frames = Lasts(ask, r.source, r.speed) * FPS /\ r.frames > 1

AttemptTold ==
  /\ stage \in {"still", "stilling", "clip", "clipping", "inspect"} =>
       try.result = NoResult
  /\ stage \in {"clipping", "inspect", "probe"} =>
       ClipIs(Request, try.source, try.speed)
  /\ stage = "probe" =>
       LET frames == Lasts(Request, try.source, try.speed) * FPS
       IN  /\ try.result = [NoResult EXCEPT !.frames = frames] /\ frames > 1
           /\ try.source \in Sources /\ try.speed \in Speeds
  /\ stage = "report" /\ copy.state = "done" =>
       /\ SaysTruly(try.result, Request)
       /\ ClipIs(Request, try.result.source, try.result.speed)

RecordTold ==
  /\ faults = 0 => saved.result = result
  /\ NothingUnwritten /\ IsDone(jobs, c) =>
       /\ SaysTruly(result, asked[jobs[c].req])
       /\ ClipIs(asked[jobs[c].req], result.source, result.speed)

RecordInv == AttemptTold /\ RecordTold

LEMMA WorkingTry ==
  ASSUME Types, stage \notin {"idle", "resolve"}
  PROVE  /\ try \in Attempt /\ try.source \in Sources /\ try.speed \in Speeds
         /\ try.result \in Result
BY DEF Types, WorkerTypes, Attempt

\* An attempt that failed has nothing to tell.
LEMMA FailsTold ==
  ASSUME CopyOK, stage # "idle", NEW why, FailsWith(why)
  PROVE  AttemptTold'
<1>1. stage' = "report" /\ copy'.state = "failed"
  BY DEF CopyOK, FailsWith, Ends, Job
<1> QED
  BY <1>1 DEF AttemptTold

\* The length of the clip as ffmpeg leaves it is the one of the request.
LEMMA OpenTold ==
  ASSUME CaptureInv, Types, AttemptTold, NEW k \in Kinds, Open(k)
  PROVE  AttemptTold'
<1>1. /\ stage = k /\ k \in {"still", "clip"} /\ UNCHANGED <<copy, try, asked>>
      /\ try.result = NoResult
      /\ stage' = IF k = "still" THEN "stilling" ELSE "clipping"
  BY DEF Open, Kinds, AttemptTold
<1>2. Request' = Request
  BY <1>1 DEF Request
<1>3. CASE k = "still"
  BY <1>1, <1>3 DEF AttemptTold
<1>4. CASE k = "clip"
  <2>1. file' = [file EXCEPT ![k] = Output(k, FALSE)]
    BY <1>4 DEF Open
  <2>2. file'["clip"] = Output("clip", FALSE)
    BY <1>4, <2>1 DEF CaptureInv, WorkerInv, FileType
  <2>3. /\ Output("clip", FALSE).read = Reads(Request, try.source, try.speed)
        /\ Output("clip", FALSE).seconds = Lasts(Request, try.source, try.speed)
    BY DEF Output, Reads, Lasts
  <2>4. ClipIs(Request, try.source, try.speed)'
    BY <1>1, <1>2, <2>2, <2>3 DEF ClipIs
  <2> QED
    BY <1>1, <1>4, <2>4 DEF AttemptTold
<1> QED
  BY <1>1, <1>3, <1>4

LEMMA CloseTold ==
  ASSUME CaptureInv, Types, AttemptTold,
         NEW k \in Kinds, NEW ok \in BOOLEAN, Close(k, ok)
  PROVE  AttemptTold'
<1>1. /\ stage = IF k = "still" THEN "stilling" ELSE "clipping"
      /\ k \in {"still", "clip"} /\ try.result = NoResult /\ UNCHANGED asked
  BY DEF Close, Kinds, AttemptTold
<1>2. CASE ~ok
  BY <1>1, <1>2, FailsTold DEF Close, CaptureInv, WorkerInv
<1>3. CASE ok
  <2>1. /\ UNCHANGED <<copy, try>>
        /\ stage' = IF k = "still" THEN "clip" ELSE "inspect"
    BY <1>3 DEF Close
  <2>2. CASE k = "still"
    BY <1>1, <2>1, <2>2 DEF AttemptTold
  <2>3. CASE k = "clip"
    <3>1. ClipIs(Request, try.source, try.speed) /\ Request' = Request
      BY <1>1, <2>1, <2>3 DEF AttemptTold, Request
    <3>2. file["clip"] # NoFile => file["clip"] \in Media
      BY DEF CaptureInv, WorkerInv, FileType, Kinds
    <3>3. /\ file["clip"] = NoFile => file'["clip"] = NoFile
          /\ file["clip"] # NoFile => /\ file'["clip"].read = file["clip"].read
                                      /\ file'["clip"].seconds = file["clip"].seconds
      <4>1. file' = IF file["clip"] # NoFile /\ file["clip"].req = copy.req
                    THEN [file EXCEPT !["clip"] = [file["clip"] EXCEPT !.whole = ok]]
                    ELSE file
        BY <2>3 DEF Close, CaptureInv, WorkerInv, FileType, Kinds
      <4> QED
        BY <3>2, <4>1 DEF CaptureInv, WorkerInv, FileType, Kinds, Media
    <3>4. ClipIs(Request, try.source, try.speed)'
      BY <2>1, <3>1, <3>3 DEF ClipIs
    <3> QED
      BY <1>1, <2>1, <2>3, <3>4 DEF AttemptTold
  <2> QED
    BY <1>1, <2>2, <2>3
<1> QED
  BY <1>2, <1>3

LEMMA InspectTold ==
  ASSUME CaptureInv, Types, AttemptTold, Inspect
  PROVE  AttemptTold'
<1>1. /\ stage = "inspect" /\ try.result = NoResult
      /\ ClipIs(Request, try.source, try.speed)
  BY DEF Inspect, AttemptTold
<1>2. CASE FailsWith("inspect") \/ FailsWith("short")
  BY <1>1, <1>2, FailsTold DEF CaptureInv, WorkerInv
<1>3. CASE /\ file["clip"] # NoFile /\ ~(file["clip"].seconds * FPS <= 1)
           /\ stage' = "probe" /\ UNCHANGED <<copy, file, asked>>
           /\ try' = [try EXCEPT !.result.frames = file["clip"].seconds * FPS]
  <2>1. PICK s \in Nat : s = Lasts(Request, try.source, try.speed)
                         /\ file["clip"].seconds = s
    BY <1>1, <1>3 DEF ClipIs, CaptureInv, WorkerInv, FileType, Kinds, Media
  <2>2. PICK n \in Nat : n = s * FPS /\ n > 1
    BY <1>3, <2>1 DEF FPS
  <2>3. try \in Attempt
    BY <1>1, WorkingTry
  <2>4. try' = [try EXCEPT !.result = [NoResult EXCEPT !.frames = n]]
    BY <1>1, <1>3, <2>1, <2>2, <2>3 DEF Attempt
  <2>5. /\ try'.result = [NoResult EXCEPT !.frames = n]
        /\ try'.source = try.source /\ try'.speed = try.speed
        /\ try.source \in Sources /\ try.speed \in Speeds
    BY <2>3, <2>4 DEF Attempt
  <2>6. Request' = Request /\ ClipIs(Request, try.source, try.speed)'
    BY <1>1, <1>3, <2>5 DEF Request, ClipIs
  <2> QED
    BY <1>3, <2>1, <2>2, <2>5, <2>6 DEF AttemptTold
<1> QED
  BY <1>2, <1>3 DEF Inspect

LEMMA ProbeTold ==
  ASSUME CaptureInv, Types, AttemptTold, NEW answered \in BOOLEAN, Probe(answered)
  PROVE  AttemptTold'
<1>1. PICK n : /\ n = Lasts(Request, try.source, try.speed) * FPS /\ n > 1
               /\ try.result = [NoResult EXCEPT !.frames = n]
  BY DEF Probe, AttemptTold
<1>2. /\ stage = "probe" /\ ClipIs(Request, try.source, try.speed)
      /\ UNCHANGED <<asked, file>>
  BY DEF Probe, AttemptTold
<1>3. PICK source \in Sources, speed \in Speeds : try.source = source /\ try.speed = speed
  BY <1>2, WorkingTry
<1>4. PICK facts \in {Nothing, FactsOf(source)} :
        /\ stage' = "report" /\ copy' = [copy EXCEPT !.state = "done"]
        /\ try' = [try EXCEPT !.result =
                     [try.result EXCEPT !.facts = facts, !.source = source, !.speed = speed]]
  BY <1>3 DEF Probe, Ends
<1>5. try'.result = [try.result EXCEPT !.facts = facts, !.source = source, !.speed = speed]
  BY <1>2, <1>4, WorkingTry DEF Attempt
<1>6. /\ try'.result.frames = n /\ try'.result.facts = facts /\ try'.result.error = ""
      /\ try'.result.source = source /\ try'.result.speed = speed
  BY <1>1, <1>5 DEF NoResult
<1>7. Request' = Request
  BY <1>2, <1>4 DEF CaptureInv, WorkerInv, CopyOK, Job, Request
<1>8. SaysTruly(try.result, Request)'
  BY <1>1, <1>3, <1>6, <1>7 DEF SaysTruly
<1>9. ClipIs(Request, try.result.source, try.result.speed)'
  BY <1>2, <1>3, <1>6, <1>7 DEF ClipIs
<1> QED
  BY <1>4, <1>8, <1>9 DEF AttemptTold

LEMMA AttemptToldKept ==
  ASSUME CaptureInv, Types, AttemptTold, [Next]_vars
  PROVE  AttemptTold'
<1>1. CASE /\ UNCHANGED tryVars /\ DOMAIN asked \subseteq DOMAIN asked'
           /\ \A i \in DOMAIN asked : asked'[i] = asked[i]
           /\ file'["clip"] = file["clip"] \/ file'["clip"] = NoFile
  <2>1. /\ UNCHANGED <<stage, copy, try>>
        /\ stage # "idle" => Request' = Request
    BY <1>1 DEF tryVars, Request, CaptureInv, WorkerInv, CopyOK
  <2>2. ASSUME stage # "idle"
        PROVE  /\ ClipIs(Request, try.source, try.speed) =>
                    ClipIs(Request, try.source, try.speed)'
               /\ ClipIs(Request, try.result.source, try.result.speed) =>
                    ClipIs(Request, try.result.source, try.result.speed)'
    BY <1>1, <2>1, <2>2 DEF ClipIs
  <2>3. ASSUME stage # "idle"
        PROVE  SaysTruly(try.result, Request) => SaysTruly(try.result, Request)'
    BY <2>1, <2>3 DEF SaysTruly
  <2>4. ASSUME stage # "idle" PROVE AttemptTold'
    BY <2>1, <2>2, <2>3, <2>4 DEF AttemptTold
  <2> QED
    BY <2>1, <2>4 DEF AttemptTold
<1>2. CASE UNCHANGED <<tryVars, asked, file>>
  BY <1>1, <1>2
<1>3. ASSUME NEW ask \in Asks, NEW force \in BOOLEAN, Submit(ask, force)
      PROVE  AttemptTold'
  BY <1>1, <1>3, SubmitStore DEF CaptureInv, WorkerInv, Submit
<1>4. ASSUME NEW k \in Kinds, RemoveFile(k) PROVE AttemptTold'
  <2>1. file'["clip"] = file["clip"] \/ file'["clip"] = NoFile
    BY <1>4 DEF RemoveFile, CaptureInv, WorkerInv, FileType, Kinds
  <2> QED
    BY <1>1, <1>4, <2>1 DEF RemoveFile
<1>5. CASE Claim \/ Report \/ Restart
  BY <1>5 DEF Claim, Report, Restart, AttemptTold
<1>6. ASSUME NEW server \in Servers, NEW a \in Answers, NEW source \in Sources,
             NEW speed \in Speeds, ResolveItem(server, a, source, speed)
      PROVE  AttemptTold'
  <2>1. CASE Resolve(server, a).ok
    <3>1. stage' = "still" /\ try'.result = NoResult
      BY <1>6, <2>1 DEF ResolveItem
    <3> QED
      BY <3>1 DEF AttemptTold
  <2>2. CASE ~Resolve(server, a).ok
    <3>1. stage' = "report" /\ copy' = [copy EXCEPT !.state = "failed"] /\ copy \in Job
      BY <1>6, <2>2 DEF ResolveItem, CaptureInv, WorkerInv, CopyOK
    <3>2. copy'.state = "failed"
      BY <3>1 DEF Job
    <3> QED
      BY <3>1, <3>2 DEF AttemptTold
  <2> QED
    BY <2>1, <2>2
<1>7. CASE NotReadable \/ TimeOut
  <2>1. PICK why : FailsWith(why) /\ stage # "idle"
    BY <1>7 DEF NotReadable, TimeOut
  <2> QED
    BY <2>1, FailsTold DEF CaptureInv, WorkerInv
<1>8. CASE Next
  BY <1>2, <1>3, <1>4, <1>5, <1>6, <1>7, <1>8, OpenTold, CloseTold, InspectTold, ProbeTold
     DEF Next, Extract, Delete, AskMedia, StatFile, ServeFile
<1> QED
  BY <1>2, <1>8 DEF vars, tryVars

LEMMA ResultWritten ==
  ASSUME faults \in Nat, Write, faults' = 0
  PROVE  faults = 0 /\ saved'.result = result'
BY DEF Write, WriteOk, WriteFails

LEMMA RecordToldKept ==
  ASSUME CaptureInv, CaptureInv', Types, AttemptTold, RecordTold, [Next]_vars
  PROVE  RecordTold'
<1>1. faults \in Nat /\ crashes \in Nat
  BY DEF CaptureInv, WorkerInv, StoreOK
\* The store is left alone: a file may go, asked may not grow.
<1>2. CASE /\ UNCHANGED <<storeVars, crashes, asked>>
           /\ file'["clip"] = file["clip"] \/ file'["clip"] = NoFile
  BY <1>2 DEF RecordTold, storeVars, NothingUnwritten, IsDone, SaysTruly, ClipIs
<1>3. ASSUME ~IsDone(jobs, c)', Write PROVE RecordTold'
  BY <1>1, <1>3, ResultWritten DEF RecordTold
<1>4. ASSUME NEW ask \in Asks, NEW force \in BOOLEAN, Submit(ask, force)
      PROVE  RecordTold'
  BY <1>3, <1>4, SubmitStore DEF CaptureInv, WorkerInv, Submit
<1>5. CASE Delete
  BY <1>3, <1>5, DeleteStore DEF CaptureInv, WorkerInv, Delete, Write
<1>6. CASE Claim
  BY <1>3, <1>6, ClaimStore DEF CaptureInv, WorkerInv, Claim
<1>7. ASSUME NEW k \in Kinds, RemoveFile(k) PROVE RecordTold'
  <2>1. file'["clip"] = file["clip"] \/ file'["clip"] = NoFile
    BY <1>7 DEF RemoveFile, CaptureInv, WorkerInv, FileType, Kinds
  <2> QED
    BY <1>2, <1>7, <2>1 DEF RemoveFile
<1>8. CASE Working
  <2>1. UNCHANGED <<storeVars, asked, crashes>> /\ stage # "idle"
    BY <1>8, WorkingStep DEF restVars
  <2>2. ~(NothingUnwritten' /\ IsDone(jobs, c)')
    BY <2>1 DEF CaptureInv, ClientInv, DoneOK, NothingUnwritten, IsDone, storeVars
  <2> QED
    BY <2>1, <2>2 DEF RecordTold, storeVars
<1>9. CASE Report
  <2>1. UNCHANGED <<asked, file, crashes>> /\ stage = "report"
    BY <1>9 DEF Report, restVars
  <2>2. CASE ~Present(jobs, c)
    BY <1>2, <1>9, <2>1, <2>2 DEF Report
  <2>3. CASE Present(jobs, c)
    <3>1. Write /\ result' = try.result
      BY <1>9, <2>3 DEF Report
    <3>2. IsDone(jobs, c)' => copy.state = "done" /\ jobs'[c].req = copy.req
      BY <1>9, ReportStore DEF CaptureInv, WorkerInv
    <3>3. copy.state = "done" => /\ SaysTruly(try.result, Request)
                                 /\ ClipIs(Request, try.result.source, try.result.speed)
      BY <2>1 DEF AttemptTold
    <3>4. IsDone(jobs, c)' => /\ SaysTruly(result, asked[jobs[c].req])'
                              /\ ClipIs(asked[jobs[c].req], result.source, result.speed)'
      BY <2>1, <3>1, <3>2, <3>3 DEF Request, SaysTruly, ClipIs
    <3> QED
      BY <1>1, <3>1, <3>4, ResultWritten DEF RecordTold
  <2> QED
    BY <2>2, <2>3
<1>10. CASE Restart
  <2>1. /\ jobs' = saved.jobs /\ result' = saved.result /\ crashes' # 0
        /\ UNCHANGED <<saved, faults, asked, file>>
    BY <1>1, <1>10 DEF Restart
  <2>2. faults = 0 => jobs' = jobs /\ result' = result
    BY <2>1 DEF RecordTold, CaptureInv, WorkerInv, StoreOK
  <2> QED
    BY <2>1, <2>2 DEF RecordTold, NothingUnwritten, IsDone, SaysTruly, ClipIs
<1>11. CASE (\E k \in Kinds : AskMedia(k)) \/ StatFile \/ ServeFile \/ UNCHANGED vars
  BY <1>2, <1>11 DEF AskMedia, StatFile, ServeFile, vars, storeVars
<1> QED
  BY <1>4, <1>5, <1>6, <1>7, <1>8, <1>9, <1>10, <1>11 DEF Next, Working

LEMMA RecordInvHolds == Spec => []RecordInv
<1>1. Init => RecordInv
  <2> SUFFICES ASSUME Init PROVE RecordInv
    OBVIOUS
  <2>1. EmptyTable[c] = NoJob
    BY TheCapture DEF EmptyTable
  <2> QED
    BY <2>1 DEF Init, RecordInv, AttemptTold, RecordTold, IsDone
<1>2. CaptureInv /\ CaptureInv' /\ Types /\ RecordInv /\ [Next]_vars => RecordInv'
  BY AttemptToldKept, RecordToldKept DEF RecordInv
<1> QED
  BY <1>1, <1>2, CaptureInvHolds, TypesHold, PTL DEF Spec

\* What a done record says is true: of the files, which the submission it
\* describes has made, and of the source, although a forced submission, a
\* deletion or a restart may come between any two steps of the attempt.
THEOREM RecordsAreTrue == Spec => []RecordIsTrue
<1>1. CaptureInv /\ RecordInv => RecordIsTrue
  <2> SUFFICES ASSUME CaptureInv, RecordInv, NothingUnwritten, IsDone(jobs, c)
               PROVE  RecordIsTrue
    BY DEF RecordIsTrue
  <2>1. PICK ask \in Ask : ask = asked[jobs[c].req]
    <3>1. jobs[c].req \in DOMAIN asked /\ asked \in Seq(Asks)
      BY DEF CaptureInv, WorkerInv, StoreOK, RecordsOK, IsDone, Present
    <3>2. asked[jobs[c].req] \in Asks
      BY <3>1, ElementOfSeq, LenProperties
    <3> QED
      BY <3>2, AsksAssumption
  <2>2. PICK source \in Sources, speed \in Speeds :
          result.source = source /\ result.speed = speed
    BY DEF RecordInv, RecordTold, SaysTruly
  <2>3. /\ result.error = "" /\ result.facts \in {Nothing, FactsOf(source)}
        /\ result.frames = Lasts(ask, source, speed) * FPS /\ result.frames > 1
        /\ ClipIs(ask, source, speed)
    BY <2>1, <2>2 DEF RecordInv, RecordTold, SaysTruly
  <2>4. \A k \in Kinds : file[k] # NoFile => file[k].req = jobs[c].req /\ file[k].whole
    BY DEF CaptureInv, ClientInv, DoneOK
  <2>5. ASSUME file["clip"] # NoFile
        PROVE  /\ result.frames = file["clip"].seconds * FPS
               /\ LastsAsAsked(file["clip"], ask, source, speed)
    <3>1. /\ file["clip"].read = Reads(ask, source, speed)
          /\ file["clip"].seconds = Lasts(ask, source, speed)
      BY <2>3, <2>5 DEF ClipIs
    <3>2. Lasts(ask, source, speed) # 0
      <4>1. PICK n \in Nat : n = Lasts(ask, source, speed)
        BY ClipLasts
      <4>2. n * FPS > 1
        BY <2>3, <4>1
      <4> QED
        BY <4>1, <4>2 DEF FPS
    <3>3. Remaining(source, ask.at) = source.length - ask.at
      BY <2>1, <3>2, ClipLasts DEF Remaining
    <3> QED
      BY <2>1, <2>3, <3>1, <3>3, ClipLasts DEF LastsAsAsked
  <2>6. result.facts # Nothing => FactsAreOf(result.facts, source.streams)
    BY <2>3, FactsAre
  <2> QED
    BY <2>1, <2>2, <2>3, <2>4, <2>5, <2>6 DEF RecordIsTrue, Kinds
<1> QED
  BY <1>1, CaptureInvHolds, RecordInvHolds, PTL

-----------------------------------------------------------------------------
(* The output of the capture's ffmpeg (LiveLog), for any characters, any   *)
(* number of lines that are kept and chunks of any size.                   *)

Bytes == Chars \cup {NL}
Lines == Seq(Chars)

Joining == [t \in Seq(Bytes) |-> [line \in Lines |-> t \o Terminated(line)]]

LEMMA JoinType == Joining \in [Seq(Bytes) -> [Lines -> Seq(Bytes)]]
<1>1. ASSUME NEW t \in Seq(Bytes), NEW line \in Lines
      PROVE  t \o Terminated(line) \in Seq(Bytes)
  <2>1. line \in Seq(Bytes) /\ NL \in Bytes
    BY SeqMonotonic DEF Lines, Bytes
  <2>2. Append(line, NL) \in Seq(Bytes)
    BY <2>1, AppendProperties
  <2> QED
    BY <2>2, ConcatProperties DEF Terminated
<1> QED
  BY <1>1 DEF Joining

LEMMA JoinRuns ==
  ASSUME NEW lines \in Seq(Lines)
  PROVE  Loops(JoinLines(lines), Seq(Bytes), <<>>, Joining, lines)
<1>1. PICK n \in Nat : Len(lines) = n /\ DOMAIN lines = 1 .. n
                       /\ \A i \in 1 .. n : lines[i] \in Lines
  BY LenProperties, ElementOfSeq
<1> DEFINE Round(t, line) == t \o Terminated(line)
           Rec(it) == it = [I \in SUBSET (1 .. n) |-> IF I = {} THEN <<>>
                              ELSE Round(it[I \ {Max(I)}], lines[Max(I)])]
           iter == CHOOSE it : Rec(it)
<1>2. JoinLines(lines) = iter[1 .. n]
  BY <1>1 DEF JoinLines, FoldLeft, MapThenFoldSet, Max
<1>3. Rec(iter)
  <2>1. PICK it \in [SUBSET (1 .. n) -> Seq(Bytes)] : Recurs(it, n, <<>>, Joining, lines)
    BY <1>1, JoinType, EmptySeq, RecursionExists
  <2>2. ASSUME NEW I \in SUBSET (1 .. n), I # {}
        PROVE  Joining[it[I \ {Max(I)}]][lines[Max(I)]] = Round(it[I \ {Max(I)}], lines[Max(I)])
    <3>1. Max(I) \in 1 .. n
      BY <2>2, Largest
    <3>2. it[I \ {Max(I)}] \in Seq(Bytes) /\ lines[Max(I)] \in Lines
      BY <1>1, <3>1
    <3> QED
      BY <3>2 DEF Joining
  <2>3. Rec(it)
    BY <2>1, <2>2 DEF Recurs
  <2> HIDE DEF Rec
  <2> QED
    BY <2>3
<1>4. iter = [I \in SUBSET (1 .. n) |-> IF I = {} THEN <<>>
                ELSE Round(iter[I \ {Max(I)}], lines[Max(I)])]
  BY <1>3
<1> HIDE DEF iter
<1>5. ASSUME NEW I \in SUBSET (1 .. n), I # {}, iter[I \ {Max(I)}] \in Seq(Bytes)
      PROVE  iter[I] = Joining[iter[I \ {Max(I)}]][lines[Max(I)]]
  <2>1. Max(I) \in 1 .. n
    BY <1>5, Largest
  <2>2. iter[I] = Round(iter[I \ {Max(I)}], lines[Max(I)])
    BY <1>4, <1>5
  <2> QED
    BY <1>1, <1>5, <2>1, <2>2 DEF Joining
<1>6. iter[{}] = <<>>
  BY <1>4
<1>7. Follows(iter, n, Seq(Bytes), <<>>, Joining, lines)
  BY <1>5, <1>6 DEF Follows
<1> HIDE DEF Round
<1> QED
  BY <1>1, <1>2, <1>7, RecursionLoops

LEMMA JoinedLines ==
  ASSUME NEW lines \in Seq(Lines), NEW line \in Lines
  PROVE  /\ JoinLines(lines) \in Seq(Bytes)
         /\ JoinLines(Append(lines, line)) = JoinLines(lines) \o Append(line, NL)
<1>1. Append(lines, line) \in Seq(Lines) /\ <<>> \in Seq(Bytes)
  BY AppendProperties, EmptySeq
<1>2. /\ JoinLines(lines) \in Seq(Bytes)
      /\ IsAfter(JoinLines(Append(lines, line)), Joining, JoinLines(lines), line)
  <2>1. /\ Loops(JoinLines(lines), Seq(Bytes), <<>>, Joining, lines)
        /\ Loops(JoinLines(Append(lines, line)), Seq(Bytes), <<>>, Joining, Append(lines, line))
    BY <1>1, JoinRuns
  <2> QED
    BY <1>1, <2>1, JoinType, LoopsOn
<1> QED
  BY <1>2 DEF IsAfter, Joining, Terminated

LEMMA JoinedNone == JoinLines(<<>>) = <<>>
<1>1. <<>> \in Seq(Lines)
  BY EmptySeq
<1> QED
  BY <1>1, JoinRuns, LoopsNowhere

Parts == {parts \in Seq(Lines) : parts # <<>>}
Extended(parts, x) == IF x = NL THEN Append(parts, <<>>)
                      ELSE [parts EXCEPT ![Len(parts)] = Append(parts[Len(parts)], x)]
Splitting == [parts \in Parts |-> [x \in Bytes |-> Extended(parts, x)]]

LEMMA SplitType ==
  /\ << <<>> >> \in Parts
  /\ Splitting \in [Parts -> [Bytes -> Parts]]
<1>1. ASSUME NEW parts \in Parts, NEW x \in Bytes PROVE Extended(parts, x) \in Parts
  <2>1. parts \in Seq(Lines) /\ Len(parts) \in Nat /\ Len(parts) \in 1 .. Len(parts)
    BY EmptySeq DEF Parts
  <2>2. CASE x = NL
    <3>1. <<>> \in Lines
      BY EmptySeq DEF Lines
    <3> QED
      BY <2>1, <2>2, <3>1, AppendProperties DEF Extended, Parts
  <2>3. CASE x # NL
    <3>1. x \in Chars /\ parts[Len(parts)] \in Seq(Chars)
      BY <2>1, <2>3, ElementOfSeq DEF Bytes, Lines
    <3>2. Append(parts[Len(parts)], x) \in Lines
      BY <3>1, AppendProperties DEF Lines
    <3>3. [parts EXCEPT ![Len(parts)] = Append(parts[Len(parts)], x)] \in Seq(Lines)
      BY <2>1, <3>2, ExceptSeq
    <3>4. Len([parts EXCEPT ![Len(parts)] = Append(parts[Len(parts)], x)]) = Len(parts)
      BY <2>1, <3>2, ExceptSeq
    <3> QED
      BY <2>1, <2>3, <3>3, <3>4, EmptySeq DEF Extended, Parts
  <2> QED
    BY <2>2, <2>3
<1>2. << <<>> >> \in Parts
  BY EmptySeq DEF Parts, Lines
<1> QED
  BY <1>1, <1>2 DEF Splitting

LEMMA SplitRuns ==
  ASSUME NEW t \in Seq(Bytes)
  PROVE  Loops(Split(t), Parts, << <<>> >>, Splitting, t)
<1>1. PICK n \in Nat : Len(t) = n /\ DOMAIN t = 1 .. n /\ \A i \in 1 .. n : t[i] \in Bytes
  BY LenProperties, ElementOfSeq
<1> DEFINE Rec(it) == it = [I \in SUBSET (1 .. n) |-> IF I = {} THEN << <<>> >>
                              ELSE Extended(it[I \ {Max(I)}], t[Max(I)])]
           iter == CHOOSE it : Rec(it)
<1>2. Split(t) = iter[1 .. n]
  BY <1>1 DEF Split, Extended, FoldLeft, MapThenFoldSet, Max
<1>3. Rec(iter)
  <2>1. PICK it \in [SUBSET (1 .. n) -> Parts] : Recurs(it, n, << <<>> >>, Splitting, t)
    BY <1>1, SplitType, RecursionExists
  <2>2. ASSUME NEW I \in SUBSET (1 .. n), I # {}
        PROVE  Splitting[it[I \ {Max(I)}]][t[Max(I)]] = Extended(it[I \ {Max(I)}], t[Max(I)])
    <3>1. Max(I) \in 1 .. n
      BY <2>2, Largest
    <3>2. it[I \ {Max(I)}] \in Parts /\ t[Max(I)] \in Bytes
      BY <1>1, <3>1
    <3> QED
      BY <3>2 DEF Splitting
  <2>3. Rec(it)
    BY <2>1, <2>2 DEF Recurs
  <2> HIDE DEF Rec
  <2> QED
    BY <2>3
<1>4. iter = [I \in SUBSET (1 .. n) |-> IF I = {} THEN << <<>> >>
                ELSE Extended(iter[I \ {Max(I)}], t[Max(I)])]
  BY <1>3
<1> HIDE DEF iter
<1>5. ASSUME NEW I \in SUBSET (1 .. n), I # {}, iter[I \ {Max(I)}] \in Parts
      PROVE  iter[I] = Splitting[iter[I \ {Max(I)}]][t[Max(I)]]
  <2>1. Max(I) \in 1 .. n
    BY <1>5, Largest
  <2>2. iter[I] = Extended(iter[I \ {Max(I)}], t[Max(I)])
    BY <1>4, <1>5
  <2> QED
    BY <1>1, <1>5, <2>1, <2>2 DEF Splitting
<1>6. iter[{}] = << <<>> >>
  BY <1>4
<1>7. Follows(iter, n, Parts, << <<>> >>, Splitting, t)
  BY <1>5, <1>6 DEF Follows
<1> QED
  BY <1>1, <1>2, <1>7, RecursionLoops

LEMMA SplitOn ==
  ASSUME NEW t \in Seq(Bytes), NEW x \in Bytes
  PROVE  /\ Split(t) \in Parts
         /\ Split(Append(t, x)) = Extended(Split(t), x)
<1>1. Append(t, x) \in Seq(Bytes)
  BY AppendProperties
<1>2. /\ Split(t) \in Parts
      /\ IsAfter(Split(Append(t, x)), Splitting, Split(t), x)
  <2>1. /\ Loops(Split(t), Parts, << <<>> >>, Splitting, t)
        /\ Loops(Split(Append(t, x)), Parts, << <<>> >>, Splitting, Append(t, x))
    BY <1>1, SplitRuns
  <2> QED
    BY <2>1, SplitType, LoopsOn
<1> QED
  BY <1>2 DEF IsAfter, Splitting

LEMMA SplitNone == Split(<<>>) = << <<>> >>
<1>1. <<>> \in Seq(Bytes)
  BY EmptySeq
<1> QED
  BY <1>1, SplitRuns, LoopsNowhere

-----------------------------------------------------------------------------
(* Lists cut in two, and their last elements.                              *)

Cut(s, a, b) == s = a \o b
Least(m, n) == IF m < n THEN m ELSE n

\* Two ways to cut a list at the same place are one.
LEMMA SameCut ==
  ASSUME NEW V, NEW a \in Seq(V), NEW b \in Seq(V), NEW e \in Seq(V), NEW d \in Seq(V),
         NEW s \in Seq(V), Cut(s, a, b), Cut(s, e, d), Len(b) = Len(d)
  PROVE  a = e /\ b = d
<1>1. /\ Len(a) \in Nat /\ Len(b) \in Nat /\ Len(e) \in Nat /\ Len(d) \in Nat
  BY LenProperties
<1>2. /\ Len(s) = Len(a) + Len(b)
      /\ \A i \in 1 .. Len(a) + Len(b) :
           s[i] = IF i <= Len(a) THEN a[i] ELSE b[i - Len(a)]
  <2>1. /\ Len(a \o b) = Len(a) + Len(b)
        /\ \A i \in 1 .. Len(a) + Len(b) :
             (a \o b)[i] = IF i <= Len(a) THEN a[i] ELSE b[i - Len(a)]
    BY ConcatProperties
  <2>2. s = a \o b
    BY DEF Cut
  <2> QED
    BY <2>1, <2>2, Zenon
<1>3. /\ Len(s) = Len(e) + Len(d)
      /\ \A i \in 1 .. Len(e) + Len(d) :
           s[i] = IF i <= Len(e) THEN e[i] ELSE d[i - Len(e)]
  <2>1. /\ Len(e \o d) = Len(e) + Len(d)
        /\ \A i \in 1 .. Len(e) + Len(d) :
             (e \o d)[i] = IF i <= Len(e) THEN e[i] ELSE d[i - Len(e)]
    BY ConcatProperties
  <2>2. s = e \o d
    BY DEF Cut
  <2> QED
    BY <2>1, <2>2, Zenon
<1>4. PICK m \in Nat, n \in Nat : Len(a) = m /\ Len(e) = m /\ Len(b) = n /\ Len(d) = n
  BY <1>1, <1>2, <1>3
<1>5. ASSUME NEW i \in 1 .. m PROVE a[i] = e[i]
  <2>1. i \in 1 .. m + n /\ i <= m
    OBVIOUS
  <2> QED
    BY <1>2, <1>3, <1>4, <2>1
<1>6. ASSUME NEW i \in 1 .. n PROVE b[i] = d[i]
  <2>1. PICK j \in 1 .. m + n : j = m + i /\ ~(j <= m) /\ j - m = i
    OBVIOUS
  <2>2. s[j] = b[i]
    BY <1>2, <1>4, <2>1
  <2>3. s[j] = d[i]
    BY <1>3, <1>4, <2>1
  <2> QED
    BY <2>2, <2>3
<1> QED
  BY <1>4, <1>5, <1>6, SeqEqual

LEMMA CutAppend ==
  ASSUME NEW V, NEW a \in Seq(V), NEW b \in Seq(V), NEW x \in V, NEW s, Cut(s, a, b)
  PROVE  Cut(Append(s, x), a, Append(b, x))
<1>1. <<x>> \in Seq(V) /\ a \o b \in Seq(V)
  BY ConcatProperties
<1>2. Append(a \o b, x) = (a \o b) \o <<x>>
  BY <1>1, AppendIsConcat
<1>3. Append(b, x) = b \o <<x>>
  BY AppendIsConcat
<1>4. (a \o b) \o <<x>> = a \o (b \o <<x>>)
  BY <1>1, ConcatAssociative
<1> QED
  BY <1>2, <1>3, <1>4, Zenon DEF Cut

LEMMA CutAgain ==
  ASSUME NEW V, NEW s, NEW a \in Seq(V), NEW b, NEW e \in Seq(V), NEW d \in Seq(V),
         Cut(s, a, b), Cut(b, e, d)
  PROVE  a \o e \in Seq(V) /\ Cut(s, a \o e, d)
BY ConcatAssociative, ConcatProperties DEF Cut

LEMMA CutBefore ==
  ASSUME NEW V, NEW s, NEW a, NEW b \in Seq(V), NEW e \in Seq(V), NEW d \in Seq(V),
         Cut(s, a, b), Cut(a, e, d)
  PROVE  Cut(s, e, d \o b)
BY ConcatAssociative DEF Cut

\* A list is what comes before its last elements, and these.
LEMMA LastOfList ==
  ASSUME NEW V, NEW s \in Seq(V), NEW n \in Nat
  PROVE  /\ LastOf(s, n) \in Seq(V)
         /\ Len(LastOf(s, n)) = Least(Len(s), n)
         /\ \E before \in Seq(V) : Cut(s, before, LastOf(s, n))
<1>1. PICK m \in Nat : Len(s) = m /\ \A i \in 1 .. m : s[i] \in V
  BY LenProperties, ElementOfSeq
<1>2. CASE m > n
  <2> DEFINE last   == SubSeq(s, m - n + 1, m)
             before == SubSeq(s, 1, m - n)
  <2>1. last \in Seq(V) /\ Len(last) = n
    <3>1. \A i \in m - n + 1 .. m : s[i] \in V
      BY <1>1, <1>2
    <3>2. /\ SubSeq(s, m - n + 1, m) \in Seq(V)
          /\ Len(SubSeq(s, m - n + 1, m)) =
               IF m - n + 1 <= m THEN m - (m - n + 1) + 1 ELSE 0
      BY <3>1, SubSeqProperties
    <3>3. (IF m - n + 1 <= m THEN m - (m - n + 1) + 1 ELSE 0) = n
      BY <1>2
    <3> QED
      BY <3>2, <3>3
  <2>2. LastOf(s, n) = last
    BY <1>1, <1>2, <2>1 DEF LastOf
  <2>3. before \in Seq(V)
    <3>1. \A i \in 1 .. m - n : s[i] \in V
      BY <1>1, <1>2
    <3>2. 1 \in Int /\ m - n \in Int
      BY <1>2
    <3> QED
      BY <3>1, <3>2, SubSeqProperties
  <2>4. Cut(s, before, last)
    <3>1. /\ 1 \in 1 .. Len(s) + 1 /\ m - n \in 1 - 1 .. Len(s)
          /\ m \in m - n .. Len(s)
      BY <1>1, <1>2
    <3>2. SubSeq(s, 1, m - n) \o SubSeq(s, m - n + 1, m) = SubSeq(s, 1, m)
      BY <3>1, ConcatAdjacentSubSeq
    <3>3. SubSeq(s, 1, m) = s
      BY <1>1, SubSeqFull
    <3> QED
      BY <3>2, <3>3 DEF Cut
  <2>5. n = Least(m, n)
    BY <1>2 DEF Least
  <2> HIDE DEF last, before
  <2> QED
    BY <1>1, <2>1, <2>2, <2>3, <2>4, <2>5
<1>3. CASE ~(m > n)
  <2>1. LastOf(s, n) = s /\ m = Least(m, n)
    BY <1>1, <1>3 DEF LastOf, Least
  <2>2. <<>> \in Seq(V) /\ Cut(s, <<>>, s)
    BY EmptySeq, ConcatEmptySeq DEF Cut
  <2> QED
    BY <1>1, <2>1, <2>2
<1> QED
  BY <1>2, <1>3

LEMMA LastOfCut ==
  ASSUME NEW V, NEW s \in Seq(V), NEW before \in Seq(V), NEW last \in Seq(V), NEW n \in Nat,
         Cut(s, before, last), Len(last) = Least(Len(s), n)
  PROVE  LastOf(s, n) = last
<1>1. PICK front \in Seq(V) : Cut(s, front, LastOf(s, n))
  BY LastOfList
<1>2. /\ LastOf(s, n) \in Seq(V)
      /\ Len(LastOf(s, n)) = Len(last)
  BY LastOfList
<1> QED
  BY <1>1, <1>2, SameCut

LEMMA LastOfAppend ==
  ASSUME NEW V, NEW s \in Seq(V), NEW x \in V, NEW n \in Nat
  PROVE  /\ LastOf(Append(s, x), n + 1) = Append(LastOf(s, n), x)
         /\ n # 0 => LastOf(Append(LastOf(s, n), x), n) = LastOf(Append(s, x), n)
<1>1. PICK last \in Seq(V) : last = LastOf(s, n) /\ Len(last) = Least(Len(s), n)
  BY LastOfList
<1>2. PICK before \in Seq(V) : Cut(s, before, last)
  BY <1>1, LastOfList
<1>3. Append(s, x) \in Seq(V) /\ Append(last, x) \in Seq(V)
  BY AppendProperties
<1>4. Cut(Append(s, x), before, Append(last, x))
  BY <1>2, CutAppend
<1>5. /\ Len(Append(s, x)) = Len(s) + 1 /\ Len(Append(last, x)) = Len(last) + 1
      /\ Len(s) \in Nat /\ Len(last) \in Nat
  BY AppendProperties, LenProperties
<1>6. LastOf(Append(s, x), n + 1) = Append(last, x)
  <2>1. n + 1 \in Nat /\ Len(Append(last, x)) = Least(Len(Append(s, x)), n + 1)
    BY <1>1, <1>5 DEF Least
  <2> QED
    BY <1>3, <1>4, <2>1, LastOfCut
<1>7. ASSUME n # 0 PROVE LastOf(Append(last, x), n) = LastOf(Append(s, x), n)
  <2>1. PICK end \in Seq(V) : /\ end = LastOf(Append(last, x), n)
                              /\ Len(end) = Least(Len(Append(last, x)), n)
    BY <1>3, LastOfList
  <2>2. PICK dropped \in Seq(V) : Cut(Append(last, x), dropped, end)
    BY <1>3, <2>1, LastOfList
  <2>3. before \o dropped \in Seq(V) /\ Cut(Append(s, x), before \o dropped, end)
    BY <1>4, <2>2, CutAgain
  <2>4. Len(end) = Least(Len(Append(s, x)), n)
    BY <1>1, <1>5, <1>7, <2>1 DEF Least
  <2> QED
    BY <1>3, <2>1, <2>3, <2>4, LastOfCut
<1> QED
  BY <1>1, <1>6, <1>7

Ringing == [lines \in Seq(Lines) |-> [line \in Lines |-> AppendLine(lines, line)]]

LEMMA RingType ==
  ASSUME MaxLines \in Nat \ {0}
  PROVE  Ringing \in [Seq(Lines) -> [Lines -> Seq(Lines)]]
<1>1. ASSUME NEW lines \in Seq(Lines), NEW line \in Lines
      PROVE  AppendLine(lines, line) \in Seq(Lines)
  <2>1. Append(lines, line) \in Seq(Lines)
    BY AppendProperties
  <2> QED
    BY <2>1, LastOfList DEF AppendLine
<1> QED
  BY <1>1 DEF Ringing

LEMMA RingRuns ==
  ASSUME MaxLines \in Nat \ {0}, NEW old \in Seq(Lines), NEW more \in Seq(Lines)
  PROVE  Loops(AppendLines(old, more), Seq(Lines), old, Ringing, more)
<1>1. PICK n \in Nat : Len(more) = n /\ DOMAIN more = 1 .. n
                       /\ \A i \in 1 .. n : more[i] \in Lines
  BY LenProperties, ElementOfSeq
<1> DEFINE Rec(it) == it = [I \in SUBSET (1 .. n) |-> IF I = {} THEN old
                              ELSE AppendLine(it[I \ {Max(I)}], more[Max(I)])]
           iter == CHOOSE it : Rec(it)
<1>2. AppendLines(old, more) = iter[1 .. n]
  BY <1>1 DEF AppendLines, FoldLeft, MapThenFoldSet, Max
<1>3. Rec(iter)
  <2>1. PICK it \in [SUBSET (1 .. n) -> Seq(Lines)] : Recurs(it, n, old, Ringing, more)
    BY <1>1, RingType, RecursionExists
  <2>2. ASSUME NEW I \in SUBSET (1 .. n), I # {}
        PROVE  Ringing[it[I \ {Max(I)}]][more[Max(I)]]
                 = AppendLine(it[I \ {Max(I)}], more[Max(I)])
    <3>1. Max(I) \in 1 .. n
      BY <2>2, Largest
    <3>2. it[I \ {Max(I)}] \in Seq(Lines) /\ more[Max(I)] \in Lines
      BY <1>1, <3>1
    <3> QED
      BY <3>2 DEF Ringing
  <2>3. Rec(it)
    BY <2>1, <2>2 DEF Recurs
  <2> HIDE DEF Rec
  <2> QED
    BY <2>3
<1>4. iter = [I \in SUBSET (1 .. n) |-> IF I = {} THEN old
                ELSE AppendLine(iter[I \ {Max(I)}], more[Max(I)])]
  BY <1>3
<1> HIDE DEF iter
<1>5. ASSUME NEW I \in SUBSET (1 .. n), I # {}, iter[I \ {Max(I)}] \in Seq(Lines)
      PROVE  iter[I] = Ringing[iter[I \ {Max(I)}]][more[Max(I)]]
  <2>1. Max(I) \in 1 .. n
    BY <1>5, Largest
  <2>2. iter[I] = AppendLine(iter[I \ {Max(I)}], more[Max(I)])
    BY <1>4, <1>5
  <2> QED
    BY <1>1, <1>5, <2>1, <2>2 DEF Ringing
<1>6. iter[{}] = old
  BY <1>4
<1>7. Follows(iter, n, Seq(Lines), old, Ringing, more)
  BY <1>5, <1>6 DEF Follows
<1> QED
  BY <1>1, <1>2, <1>7, RecursionLoops

\* A ring that is given more lines holds the last of all.
LEMMA RingKeepsLast ==
  ASSUME MaxLines \in Nat \ {0}, NEW old \in Seq(Lines), NEW more \in Seq(Lines)
  PROVE  AppendLines(LastOf(old, MaxLines), more) = LastOf(old \o more, MaxLines)
<1> DEFINE ring == LastOf(old, MaxLines)
           Good == {new \in Seq(Lines) :
                      AppendLines(ring, new) = LastOf(old \o new, MaxLines)}
<1>1. ring \in Seq(Lines) /\ MaxLines \in Nat /\ MaxLines # 0
  BY LastOfList
<1> HIDE DEF ring
<1>2. <<>> \in Good
  <2>1. <<>> \in Seq(Lines) /\ old \o <<>> = old
    BY EmptySeq, ConcatEmptySeq
  <2>2. AppendLines(ring, <<>>) = ring
    BY <1>1, <2>1, RingRuns, LoopsNowhere
  <2> QED
    BY <2>1, <2>2 DEF ring
<1>3. ASSUME NEW new \in Good, NEW line \in Lines PROVE Append(new, line) \in Good
  <2>1. new \in Seq(Lines) /\ Append(new, line) \in Seq(Lines) /\ old \o new \in Seq(Lines)
    BY AppendProperties, ConcatProperties
  <2>2. /\ Loops(AppendLines(ring, new), Seq(Lines), ring, Ringing, new)
        /\ Loops(AppendLines(ring, Append(new, line)), Seq(Lines), ring, Ringing,
                 Append(new, line))
    BY <1>1, <2>1, RingRuns
  <2>3. /\ AppendLines(ring, new) \in Seq(Lines)
        /\ IsAfter(AppendLines(ring, Append(new, line)), Ringing,
                   AppendLines(ring, new), line)
    BY <1>1, <2>1, <2>2, RingType, LoopsOn
  <2>4. AppendLines(ring, Append(new, line)) =
          LastOf(Append(AppendLines(ring, new), line), MaxLines)
    BY <2>3 DEF IsAfter, Ringing, AppendLine
  <2>5. LastOf(Append(LastOf(old \o new, MaxLines), line), MaxLines) =
          LastOf(Append(old \o new, line), MaxLines)
    BY <1>1, <2>1, LastOfAppend
  <2>6. Cut(Append(old \o new, line), old, Append(new, line))
    <3>1. Cut(old \o new, old, new)
      BY DEF Cut
    <3> QED
      BY <2>1, <3>1, CutAppend
  <2>7. AppendLines(ring, new) = LastOf(old \o new, MaxLines)
    OBVIOUS
  <2>8. AppendLines(ring, Append(new, line)) = LastOf(old \o Append(new, line), MaxLines)
    BY <2>4, <2>5, <2>6, <2>7, Zenon DEF Cut
  <2> QED
    BY <2>1, <2>8
<1>4. Good = Seq(Lines)
  <2>1. Good \in SUBSET Seq(Lines)
    OBVIOUS
  <2> HIDE DEF Good
  <2> QED
    BY <1>2, <1>3, <2>1, Growing
<1> QED
  BY <1>4 DEF ring

\* The last part grows, the ones before it stay.
LEMMA ExtendedLast ==
  ASSUME NEW front \in Seq(Lines), NEW line \in Lines, NEW x \in Chars, x # NL
  PROVE  Cut(Extended(Append(front, line), x), front, <<Append(line, x)>>)
<1>1. PICK n \in Nat : Len(front) = n /\ \A i \in 1 .. n : front[i] \in Lines
  BY LenProperties, ElementOfSeq
<1>2. PICK longer \in Lines : longer = Append(line, x)
  BY AppendProperties DEF Lines
<1> DEFINE old == Append(front, line)
           new == Append(front, longer)
<1>3. /\ old \in Seq(Lines) /\ Len(old) = n + 1 /\ old[n + 1] = line
      /\ \A i \in 1 .. n : old[i] = front[i]
  <2>1. /\ old \in Seq(Lines) /\ Len(old) = Len(front) + 1
        /\ old[Len(front) + 1] = line
        /\ \A i \in 1 .. Len(front) : old[i] = front[i]
    BY AppendProperties
  <2> QED
    BY <1>1, <2>1
<1>4. /\ new \in Seq(Lines) /\ Len(new) = n + 1 /\ new[n + 1] = longer
      /\ \A i \in 1 .. n : new[i] = front[i]
  <2>1. /\ new \in Seq(Lines) /\ Len(new) = Len(front) + 1
        /\ new[Len(front) + 1] = longer
        /\ \A i \in 1 .. Len(front) : new[i] = front[i]
    BY AppendProperties
  <2> QED
    BY <1>1, <2>1
<1> HIDE DEF old, new
<1>5. n + 1 \in 1 .. Len(old)
  BY <1>3
<1> DEFINE grown == [old EXCEPT ![n + 1] = longer]
<1>6. /\ grown \in Seq(Lines) /\ Len(grown) = n + 1
      /\ \A i \in 1 .. n + 1 : grown[i] = IF i = n + 1 THEN longer ELSE old[i]
  <2>1. /\ grown \in Seq(Lines) /\ Len(grown) = Len(old)
        /\ \A i \in 1 .. Len(old) : grown[i] = IF i = n + 1 THEN longer ELSE old[i]
    BY <1>3, <1>5, ExceptSeq
  <2> QED
    BY <1>3, <2>1
<1>7. Extended(old, x) = grown
  BY <1>2, <1>3 DEF Extended
<1> HIDE DEF grown
<1>8. ASSUME NEW i \in 1 .. n + 1 PROVE grown[i] = new[i]
  <2>1. i = n + 1 \/ i \in 1 .. n
    OBVIOUS
  <2> QED
    BY <1>3, <1>4, <1>6, <2>1
<1>9. grown = new
  BY <1>4, <1>6, <1>8, SeqEqual
<1>10. new = front \o <<longer>>
  BY AppendIsConcat DEF new
<1> QED
  BY <1>2, <1>7, <1>9, <1>10, Zenon DEF Cut, old

LEMMA PartsEnd ==
  ASSUME NEW parts \in Parts
  PROVE  \E front \in Seq(Lines), line \in Lines : parts = Append(front, line)
BY SequenceEmptyOrAppend DEF Parts

LEMMA ExtendedCut ==
  ASSUME NEW a \in Seq(Lines), NEW b \in Parts, NEW parts, Cut(parts, a, b),
         NEW x \in Bytes
  PROVE  Cut(Extended(parts, x), a, Extended(b, x))
<1>1. b \in Seq(Lines) /\ <<>> \in Lines
  BY EmptySeq DEF Parts, Lines
<1>2. CASE x = NL
  <2>1. Cut(Append(parts, <<>>), a, Append(b, <<>>))
    BY <1>1, CutAppend
  <2> QED
    BY <1>2, <2>1 DEF Extended
<1>3. CASE x # NL
  <2>1. x \in Chars
    BY <1>3 DEF Bytes
  <2>2. PICK front \in Seq(Lines), line \in Lines : b = Append(front, line)
    BY PartsEnd
  <2>3. Cut(Extended(b, x), front, <<Append(line, x)>>)
    BY <1>3, <2>1, <2>2, ExtendedLast
  <2>4. a \o front \in Seq(Lines) /\ <<Append(line, x)>> \in Seq(Lines)
    BY <2>1, AppendProperties, ConcatProperties DEF Lines
  <2>5. Cut(Extended(Append(a \o front, line), x), a \o front, <<Append(line, x)>>)
    BY <1>3, <2>1, <2>4, ExtendedLast
  <2>6. Cut(Append(a \o front, line), a, Append(front, line))
    <3>1. Cut(a \o front, a, front)
      BY DEF Cut
    <3> QED
      BY <3>1, CutAppend
  <2>7. parts = Append(a \o front, line)
    BY <2>2, <2>6, Zenon DEF Cut
  <2>8. (a \o front) \o <<Append(line, x)>> = a \o (front \o <<Append(line, x)>>)
    BY <2>4, ConcatAssociative
  <2> QED
    BY <2>3, <2>5, <2>7, <2>8, Zenon DEF Cut
<1> QED
  BY <1>2, <1>3

LEMMA LineOfBytes == ASSUME NEW line \in Lines PROVE line \in Seq(Bytes)
BY SeqMonotonic DEF Lines, Bytes

\* A line is in one part.
LEMMA SplitLine ==
  ASSUME NL \notin Chars, NEW line \in Lines
  PROVE  Split(line) = <<line>>
<1> DEFINE Good == {l \in Seq(Chars) : Split(l) = <<l>>}
<1>1. <<>> \in Good
  BY SplitNone, EmptySeq
<1>2. ASSUME NEW l \in Good, NEW x \in Chars PROVE Append(l, x) \in Good
  <2>1. l \in Lines /\ l \in Seq(Bytes) /\ x \in Bytes /\ x # NL /\ Append(l, x) \in Seq(Chars)
    BY LineOfBytes, AppendProperties DEF Lines, Bytes
  <2>2. Split(Append(l, x)) = Extended(Split(l), x)
    BY <2>1, SplitOn
  <2>3. <<>> \in Seq(Lines) /\ Append(<<>>, l) = <<l>> /\ <<Append(l, x)>> \in Seq(Lines)
    BY <2>1, EmptySeq DEF Lines
  <2>4. Cut(Extended(Append(<<>>, l), x), <<>>, <<Append(l, x)>>)
    BY <2>1, <2>3, ExtendedLast
  <2>5. <<>> \o <<Append(l, x)>> = <<Append(l, x)>>
    BY <2>3, ConcatEmptySeq
  <2>6. Split(l) = <<l>>
    OBVIOUS
  <2>7. Split(Append(l, x)) = <<Append(l, x)>>
    BY <2>2, <2>3, <2>4, <2>5, <2>6, Zenon DEF Cut
  <2> QED
    BY <2>1, <2>7
<1>3. Good = Seq(Chars)
  <2>1. Good \in SUBSET Seq(Chars)
    OBVIOUS
  <2> HIDE DEF Good
  <2> QED
    BY <1>1, <1>2, <2>1, Growing
<1> QED
  BY <1>3 DEF Lines

\* A text goes on in the last part of what there was.
LEMMA SplitGoesOn ==
  ASSUME NL \notin Chars, NEW t \in Seq(Bytes), NEW u \in Seq(Bytes),
         NEW front \in Seq(Lines), NEW line \in Lines, Split(t) = Append(front, line)
  PROVE  Cut(Split(t \o u), front, Split(line \o u))
<1> DEFINE Good == {v \in Seq(Bytes) : Cut(Split(t \o v), front, Split(line \o v))}
<1>0. line \in Seq(Bytes)
  BY LineOfBytes
<1>1. <<>> \in Good
  <2>1. t \o <<>> = t /\ line \o <<>> = line /\ <<>> \in Seq(Bytes)
    BY <1>0, ConcatEmptySeq, EmptySeq
  <2>2. Append(front, line) = front \o <<line>>
    BY AppendIsConcat
  <2>3. Split(line) = <<line>>
    BY SplitLine
  <2>4. Cut(Split(t \o <<>>), front, Split(line \o <<>>))
    BY <2>1, <2>2, <2>3, Zenon DEF Cut
  <2> QED
    BY <2>1, <2>4
<1>2. ASSUME NEW v \in Good, NEW x \in Bytes PROVE Append(v, x) \in Good
  <2>1. /\ v \in Seq(Bytes) /\ Append(v, x) \in Seq(Bytes)
        /\ t \o v \in Seq(Bytes) /\ line \o v \in Seq(Bytes)
    BY <1>0, AppendProperties, ConcatProperties
  <2>2. /\ Split(line \o v) \in Parts
        /\ Split(Append(t \o v, x)) = Extended(Split(t \o v), x)
        /\ Split(Append(line \o v, x)) = Extended(Split(line \o v), x)
    BY <2>1, SplitOn
  <2>3. Cut(Split(t \o v), front, Split(line \o v))
    OBVIOUS
  <2>4. Cut(Extended(Split(t \o v), x), front, Extended(Split(line \o v), x))
    BY <2>2, <2>3, ExtendedCut
  <2>5. Cut(t \o v, t, v) /\ Cut(line \o v, line, v)
    BY DEF Cut
  <2>6. Cut(Append(t \o v, x), t, Append(v, x)) /\ Cut(Append(line \o v, x), line, Append(v, x))
    BY <1>0, <2>1, <2>5, CutAppend
  <2>7. Cut(Split(t \o Append(v, x)), front, Split(line \o Append(v, x)))
    BY <2>2, <2>4, <2>6, Zenon DEF Cut
  <2> QED
    BY <2>1, <2>7
<1>3. Good = Seq(Bytes)
  <2>1. Good \in SUBSET Seq(Bytes)
    OBVIOUS
  <2> HIDE DEF Good
  <2> QED
    BY <1>1, <1>2, <2>1, Growing
<1> QED
  BY <1>3

\* ls joined, with one line more.
LEMMA JoinMore ==
  ASSUME NEW lines \in Seq(Lines), NEW line \in Lines
  PROVE  /\ JoinLines(lines) \in Seq(Bytes) /\ Append(line, NL) \in Seq(Bytes)
         /\ Cut(JoinLines(Append(lines, line)), JoinLines(lines), Append(line, NL))
<1>1. line \in Seq(Bytes) /\ NL \in Bytes
  BY LineOfBytes DEF Bytes
<1> QED
  BY <1>1, JoinedLines, AppendProperties DEF Cut

LEMMA JoinedType == ASSUME NEW lines \in Seq(Lines) PROVE JoinLines(lines) \in Seq(Bytes)
<1>1. <<>> \in Lines
  BY EmptySeq DEF Lines
<1> QED
  BY <1>1, JoinMore

\* Joining the parts of a text gives the text again, and the newline that
\* ends the last line.
LEMMA JoinSplit ==
  ASSUME NL \notin Chars, NEW t \in Seq(Bytes)
  PROVE  JoinLines(Split(t)) = Append(t, NL)
<1> DEFINE Good == {u \in Seq(Bytes) : JoinLines(Split(u)) = Append(u, NL)}
<1>1. <<>> \in Good
  <2>1. /\ <<>> \in Seq(Lines) /\ <<>> \in Lines /\ <<>> \in Seq(Bytes)
        /\ << <<>> >> = Append(<<>>, <<>>) /\ Append(<<>>, NL) \in Seq(Bytes)
    BY EmptySeq, LineOfBytes, AppendProperties DEF Lines, Bytes
  <2>2. Cut(JoinLines(Append(<<>>, <<>>)), JoinLines(<<>>), Append(<<>>, NL))
    BY <2>1, JoinMore
  <2>3. <<>> \o Append(<<>>, NL) = Append(<<>>, NL)
    BY <2>1, ConcatEmptySeq
  <2>4. JoinLines(Split(<<>>)) = Append(<<>>, NL)
    BY <2>1, <2>2, <2>3, JoinedNone, SplitNone, Zenon DEF Cut
  <2> QED
    BY <2>1, <2>4
<1>2. ASSUME NEW u \in Good, NEW x \in Bytes PROVE Append(u, x) \in Good
  <2>1. /\ u \in Seq(Bytes) /\ Append(u, x) \in Seq(Bytes) /\ NL \in Bytes
        /\ Append(u, NL) \in Seq(Bytes)
    BY AppendProperties DEF Bytes
  <2>2. JoinLines(Split(u)) = Append(u, NL)
    OBVIOUS
  <2>3. Split(u) \in Parts /\ Split(Append(u, x)) = Extended(Split(u), x)
    BY <2>1, SplitOn
  <2>4. CASE x = NL
    <3>1. Split(u) \in Seq(Lines) /\ <<>> \in Lines
      BY <2>3, EmptySeq DEF Parts, Lines
    <3>2. Cut(JoinLines(Append(Split(u), <<>>)), JoinLines(Split(u)), Append(<<>>, NL))
      BY <3>1, JoinMore
    <3>3. Append(<<>>, NL) = <<NL>> /\ Append(Append(u, NL), NL) = Append(u, NL) \o <<NL>>
      BY <2>1, AppendIsConcat
    <3>4. Split(Append(u, x)) = Append(Split(u), <<>>)
      BY <2>3, <2>4 DEF Extended
    <3> QED
      BY <2>2, <2>4, <3>2, <3>3, <3>4, <2>1, Zenon DEF Cut
  <2>5. CASE x # NL
    <3>1. PICK front \in Seq(Lines), line \in Lines : Split(u) = Append(front, line)
      BY <2>3, PartsEnd
    <3>2. x \in Chars /\ Append(line, x) \in Lines
      BY <2>5, AppendProperties DEF Bytes, Lines
    <3> DEFINE head == JoinLines(front)
    <3>3. Cut(JoinLines(Append(front, line)), head, Append(line, NL)) /\ head \in Seq(Bytes)
      BY JoinMore
    <3>4. Cut(JoinLines(Append(front, Append(line, x))), head, Append(Append(line, x), NL))
      BY <3>2, JoinMore
    <3> HIDE DEF head
    <3>5. line \in Seq(Bytes) /\ head \o line \in Seq(Bytes)
      BY <3>3, LineOfBytes, ConcatProperties
    <3>6. Cut(Append(head \o line, NL), head, Append(line, NL))
      <4>1. Cut(head \o line, head, line)
        BY DEF Cut
      <4> QED
        BY <2>1, <3>3, <3>5, <4>1, CutAppend
    <3>7. Append(u, NL) = Append(head \o line, NL)
      BY <2>2, <3>1, <3>3, <3>6, Zenon DEF Cut
    <3>8. u = head \o line
      <4>1. Append(u, NL) = u \o <<NL>> /\ Append(head \o line, NL) = (head \o line) \o <<NL>>
        BY <2>1, <3>5, AppendIsConcat
      <4>2. Cut(Append(u, NL), u, <<NL>>) /\ Cut(Append(u, NL), head \o line, <<NL>>)
        BY <3>7, <4>1, Zenon DEF Cut
      <4>3. <<NL>> \in Seq(Bytes)
        BY <2>1
      <4> QED
        BY <2>1, <3>5, <4>2, <4>3, SameCut
    <3>9. Cut(Append(u, x), head, Append(line, x))
      <4>1. Cut(u, head, line)
        BY <3>8, Zenon DEF Cut
      <4> QED
        BY <3>3, <3>5, <4>1, CutAppend
    <3>10. Append(line, x) \in Seq(Bytes)
      BY <3>2, LineOfBytes
    <3>11. Cut(Append(Append(u, x), NL), head, Append(Append(line, x), NL))
      BY <2>1, <3>3, <3>9, <3>10, CutAppend
    <3>12. Split(Append(u, x)) = Append(front, Append(line, x))
      <4>1. Cut(Extended(Append(front, line), x), front, <<Append(line, x)>>)
        BY <2>5, <3>2, ExtendedLast
      <4>2. Append(front, Append(line, x)) = front \o <<Append(line, x)>>
        BY <3>2, AppendIsConcat
      <4> QED
        BY <2>3, <3>1, <4>1, <4>2, Zenon DEF Cut
    <3>13. JoinLines(Split(Append(u, x))) = Append(Append(u, x), NL)
      BY <3>4, <3>11, <3>12, Zenon DEF Cut
    <3> QED
      BY <2>1, <3>13
  <2> QED
    BY <2>4, <2>5
<1>3. Good = Seq(Bytes)
  <2>1. Good \in SUBSET Seq(Bytes)
    OBVIOUS
  <2> HIDE DEF Good
  <2> QED
    BY <1>1, <1>2, <2>1, Growing
<1> QED
  BY <1>3

\* What is cut is joined piece by piece.
LEMMA JoinCut ==
  ASSUME NEW a \in Seq(Lines), NEW b \in Seq(Lines), NEW lines, Cut(lines, a, b)
  PROVE  Cut(JoinLines(lines), JoinLines(a), JoinLines(b))
<1> DEFINE Good == {d \in Seq(Lines) : Cut(JoinLines(a \o d), JoinLines(a), JoinLines(d))}
<1>1. <<>> \in Good
  <2>1. a \o <<>> = a /\ <<>> \in Seq(Lines)
    BY ConcatEmptySeq, EmptySeq
  <2>2. JoinLines(a) \o <<>> = JoinLines(a)
    BY JoinedType, ConcatEmptySeq
  <2>3. Cut(JoinLines(a \o <<>>), JoinLines(a), JoinLines(<<>>))
    BY <2>1, <2>2, JoinedNone, Zenon DEF Cut
  <2> QED
    BY <2>1, <2>3
<1>2. ASSUME NEW d \in Good, NEW line \in Lines PROVE Append(d, line) \in Good
  <2>1. d \in Seq(Lines) /\ Append(d, line) \in Seq(Lines) /\ a \o d \in Seq(Lines)
    BY AppendProperties, ConcatProperties
  <2>2. Cut(Append(a \o d, line), a, Append(d, line))
    <3>1. Cut(a \o d, a, d)
      BY DEF Cut
    <3> QED
      BY <2>1, <3>1, CutAppend
  <2>3. /\ Cut(JoinLines(Append(a \o d, line)), JoinLines(a \o d), Append(line, NL))
        /\ Cut(JoinLines(Append(d, line)), JoinLines(d), Append(line, NL))
        /\ JoinLines(a) \in Seq(Bytes) /\ JoinLines(d) \in Seq(Bytes)
        /\ Append(line, NL) \in Seq(Bytes)
    BY <2>1, JoinMore
  <2>4. Cut(JoinLines(a \o d), JoinLines(a), JoinLines(d))
    OBVIOUS
  <2>5. Cut(JoinLines(Append(a \o d, line)), JoinLines(a),
            JoinLines(d) \o Append(line, NL))
    BY <2>3, <2>4, CutBefore
  <2>6. Cut(JoinLines(a \o Append(d, line)), JoinLines(a), JoinLines(Append(d, line)))
    BY <2>2, <2>3, <2>5, Zenon DEF Cut
  <2> QED
    BY <2>1, <2>6
<1>3. Good = Seq(Lines)
  <2>1. Good \in SUBSET Seq(Lines)
    OBVIOUS
  <2> HIDE DEF Good
  <2> QED
    BY <1>1, <1>2, <2>1, Growing
<1>4. Cut(JoinLines(a \o b), JoinLines(a), JoinLines(b))
  BY <1>3
<1> QED
  BY <1>4, Zenon DEF Cut

\* Joined lines end with a newline.
LEMMA JoinEnds ==
  ASSUME NEW lines \in Seq(Lines), lines # <<>>
  PROVE  \E before \in Seq(Bytes) : JoinLines(lines) = Append(before, NL)
<1>1. PICK front \in Seq(Lines), line \in Lines : lines = Append(front, line)
  BY SequenceEmptyOrAppend
<1>2. /\ JoinLines(front) \in Seq(Bytes) /\ line \in Seq(Bytes) /\ NL \in Bytes
      /\ Cut(JoinLines(Append(front, line)), JoinLines(front), Append(line, NL))
  BY JoinMore, LineOfBytes DEF Bytes
<1>3. Cut(Append(JoinLines(front) \o line, NL), JoinLines(front), Append(line, NL))
  <2>1. Cut(JoinLines(front) \o line, JoinLines(front), line)
    BY DEF Cut
  <2> QED
    BY <1>2, <2>1, CutAppend
<1>4. JoinLines(front) \o line \in Seq(Bytes)
  BY <1>2, ConcatProperties
<1>5. JoinLines(lines) = Append(JoinLines(front) \o line, NL)
  BY <1>1, <1>2, <1>3, Zenon DEF Cut
<1> QED
  BY <1>4, <1>5

-----------------------------------------------------------------------------
(* Counting lines.                                                         *)

Breaks(t) == {i \in DOMAIN t : t[i] = NL}

LEMMA NewlinesCount ==
  ASSUME NEW t \in Seq(Bytes)
  PROVE  /\ Newlines(t) = Cardinality(Breaks(t)) /\ IsFiniteSet(Breaks(t))
         /\ Cardinality(Breaks(t)) \in Nat
<1>1. Newlines(t) = Cardinality(Breaks(t))
  BY DEF Newlines, Breaks
<1>2. PICK n \in Nat : Len(t) = n /\ DOMAIN t = 1 .. n
  BY LenProperties
<1>3. IsFiniteSet(1 .. n) /\ Breaks(t) \in SUBSET (1 .. n)
  BY <1>2, FS_Interval DEF Breaks
<1> QED
  BY <1>1, <1>3, FS_Subset, FS_CardinalityType

LEMMA NewlinesNone == Newlines(<<>>) = 0
<1>1. <<>> \in Seq(Bytes) /\ Breaks(<<>>) = {}
  BY EmptySeq DEF Breaks
<1> QED
  BY <1>1, NewlinesCount, FS_EmptySet

LEMMA NewlinesAppend ==
  ASSUME NEW t \in Seq(Bytes), NEW x \in Bytes
  PROVE  /\ Newlines(t) \in Nat
         /\ Newlines(Append(t, x)) = Newlines(t) + (IF x = NL THEN 1 ELSE 0)
<1>1. PICK n \in Nat : Len(t) = n /\ DOMAIN t = 1 .. n
  BY LenProperties
<1>2. PICK u \in Seq(Bytes) : u = Append(t, x)
  BY AppendProperties
<1>3. /\ DOMAIN u = 1 .. n + 1 /\ u[n + 1] = x /\ \A i \in 1 .. n : u[i] = t[i]
  <2>1. /\ Len(u) = Len(t) + 1 /\ u[Len(t) + 1] = x
        /\ \A i \in 1 .. Len(t) : u[i] = t[i]
    BY <1>2, AppendProperties
  <2> QED
    BY <1>1, <2>1, LenProperties
<1>4. /\ Newlines(t) = Cardinality(Breaks(t)) /\ IsFiniteSet(Breaks(t))
      /\ Cardinality(Breaks(t)) \in Nat /\ Newlines(u) = Cardinality(Breaks(u))
  BY NewlinesCount
<1>5. 1 .. n + 1 = (1 .. n) \cup {n + 1} /\ n + 1 \notin 1 .. n
  OBVIOUS
<1>6. CASE x = NL
  <2>1. Breaks(u) = Breaks(t) \cup {n + 1} /\ n + 1 \notin Breaks(t)
    BY <1>1, <1>3, <1>5, <1>6 DEF Breaks
  <2>2. Cardinality(Breaks(t) \cup {n + 1}) =
          IF n + 1 \in Breaks(t) THEN Cardinality(Breaks(t)) ELSE Cardinality(Breaks(t)) + 1
    BY <1>4, FS_AddElement
  <2> QED
    BY <1>2, <1>4, <1>6, <2>1, <2>2
<1>7. CASE x # NL
  <2>1. Breaks(u) = Breaks(t)
    BY <1>1, <1>3, <1>5, <1>7 DEF Breaks
  <2> QED
    BY <1>2, <1>4, <1>7, <2>1
<1> QED
  BY <1>6, <1>7

\* A text in two pieces has the newlines of both.
LEMMA NewlinesCut ==
  ASSUME NEW a \in Seq(Bytes), NEW b \in Seq(Bytes), NEW s, Cut(s, a, b)
  PROVE  Newlines(s) = Newlines(a) + Newlines(b) /\ Newlines(b) \in Nat
<1> DEFINE Good == {d \in Seq(Bytes) : /\ Newlines(d) \in Nat
                                       /\ Newlines(a \o d) = Newlines(a) + Newlines(d)}
<1>0. NL \in Bytes
  BY DEF Bytes
<1>1. <<>> \in Good
  <2>1. a \o <<>> = a /\ <<>> \in Seq(Bytes)
    BY ConcatEmptySeq, EmptySeq
  <2>2. Newlines(a \o <<>>) = Newlines(a)
    BY <2>1, Zenon
  <2>3. Newlines(a) \in Nat
    BY <1>0, NewlinesAppend
  <2> QED
    BY <2>1, <2>2, <2>3, NewlinesNone
<1>2. ASSUME NEW d \in Good, NEW x \in Bytes PROVE Append(d, x) \in Good
  <2>1. d \in Seq(Bytes) /\ Append(d, x) \in Seq(Bytes) /\ a \o d \in Seq(Bytes)
    BY AppendProperties, ConcatProperties
  <2>2. Cut(Append(a \o d, x), a, Append(d, x))
    <3>1. Cut(a \o d, a, d)
      BY DEF Cut
    <3> QED
      BY <2>1, <3>1, CutAppend
  <2>3. Newlines(a \o Append(d, x)) = Newlines(Append(a \o d, x))
    BY <2>2, Zenon DEF Cut
  <2>4. /\ Newlines(Append(d, x)) = Newlines(d) + (IF x = NL THEN 1 ELSE 0)
        /\ Newlines(Append(a \o d, x)) = Newlines(a \o d) + (IF x = NL THEN 1 ELSE 0)
        /\ Newlines(a) \in Nat
    BY <2>1, NewlinesAppend
  <2>5. Newlines(d) \in Nat /\ Newlines(a \o d) = Newlines(a) + Newlines(d)
    OBVIOUS
  <2>6. /\ Newlines(Append(d, x)) \in Nat
        /\ Newlines(a \o Append(d, x)) = Newlines(a) + Newlines(Append(d, x))
    BY <2>3, <2>4, <2>5
  <2> QED
    BY <2>1, <2>6
<1>3. Good = Seq(Bytes)
  <2>1. Good \in SUBSET Seq(Bytes)
    OBVIOUS
  <2> HIDE DEF Good
  <2> QED
    BY <1>1, <1>2, <2>1, Growing
<1>4. Newlines(s) = Newlines(a \o b)
  BY Zenon DEF Cut
<1> QED
  BY <1>3, <1>4

LEMMA NewlinesLine ==
  ASSUME NL \notin Chars, NEW line \in Lines
  PROVE  Newlines(line) = 0
<1>1. line \in Seq(Bytes)
  BY LineOfBytes
<1>2. DOMAIN line = 1 .. Len(line) /\ \A i \in 1 .. Len(line) : line[i] \in Chars
  BY LenProperties, ElementOfSeq DEF Lines
<1>3. Breaks(line) = {}
  BY <1>2 DEF Breaks
<1> QED
  BY <1>1, <1>3, NewlinesCount, FS_EmptySet

LEMMA NewlinesJoined ==
  ASSUME NL \notin Chars, NEW lines \in Seq(Lines)
  PROVE  Newlines(JoinLines(lines)) = Len(lines)
<1> DEFINE Good == {ls \in Seq(Lines) : Newlines(JoinLines(ls)) = Len(ls)}
<1>1. <<>> \in Good
  BY NewlinesNone, JoinedNone, EmptySeq
<1>2. ASSUME NEW ls \in Good, NEW line \in Lines PROVE Append(ls, line) \in Good
  <2>1. ls \in Seq(Lines) /\ Append(ls, line) \in Seq(Lines) /\ Len(Append(ls, line)) = Len(ls) + 1
    BY AppendProperties
  <2>2. /\ JoinLines(ls) \in Seq(Bytes) /\ Append(line, NL) \in Seq(Bytes)
        /\ Cut(JoinLines(Append(ls, line)), JoinLines(ls), Append(line, NL))
    BY <2>1, JoinMore
  <2>3. Newlines(JoinLines(Append(ls, line))) =
          Newlines(JoinLines(ls)) + Newlines(Append(line, NL))
    BY <2>2, NewlinesCut
  <2>4. Newlines(Append(line, NL)) = Newlines(line) + 1 /\ Newlines(line) = 0
    <3>1. line \in Seq(Bytes) /\ NL \in Bytes
      BY LineOfBytes DEF Bytes
    <3> QED
      BY <3>1, NewlinesAppend, NewlinesLine
  <2>5. Newlines(JoinLines(ls)) = Len(ls)
    OBVIOUS
  <2> QED
    BY <2>1, <2>3, <2>4, <2>5
<1>3. Good = Seq(Lines)
  <2>1. Good \in SUBSET Seq(Lines)
    OBVIOUS
  <2> HIDE DEF Good
  <2> QED
    BY <1>1, <1>2, <2>1, Growing
<1> QED
  BY <1>3

\* What follows nothing or a newline starts with a line.
LEMMA CutAtLine ==
  ASSUME NEW t \in Seq(Bytes), NEW a \in Seq(Bytes), NEW b \in Seq(Bytes), Cut(t, a, b),
         a = <<>> \/ a[Len(a)] = NL
  PROVE  FromLineStart(b, t)
<1>1. PICK m \in Nat, n \in Nat : Len(a) = m /\ Len(b) = n
  BY LenProperties
<1>2. /\ Len(t) = m + n
      /\ \A i \in 1 .. m + n : t[i] = IF i <= m THEN a[i] ELSE b[i - m]
  <2>1. /\ Len(a \o b) = Len(a) + Len(b)
        /\ \A i \in 1 .. Len(a) + Len(b) :
             (a \o b)[i] = IF i <= Len(a) THEN a[i] ELSE b[i - Len(a)]
    BY ConcatProperties
  <2>2. t = a \o b
    BY DEF Cut
  <2>3. /\ Len(t) = Len(a) + Len(b)
        /\ \A i \in 1 .. Len(a) + Len(b) :
             t[i] = IF i <= Len(a) THEN a[i] ELSE b[i - Len(a)]
    BY <2>1, <2>2, Zenon
  <2> QED
    BY <1>1, <2>3
<1>3. IsSuffix(b, t)
  <2> DEFINE rb == [i \in 1 .. n |-> b[(n - i) + 1]]
             rt == [i \in 1 .. m + n |-> t[((m + n) - i) + 1]]
  <2>1. Reverse(b) = rb /\ Reverse(t) = rt
    BY <1>1, <1>2 DEF Reverse
  <2>2. \A i \in 1 .. n : b[i] \in Bytes
    BY <1>1, ElementOfSeq
  <2>3. \A i \in 1 .. m + n : t[i] \in Bytes
    BY <1>2, ElementOfSeq
  <2>4. rb \in Seq(Bytes) /\ Len(rb) = n
    <3>1. \A i \in 1 .. n : (n - i) + 1 \in 1 .. n
      OBVIOUS
    <3> QED
      BY <2>2, <3>1, IsASeq
  <2>5. rt \in Seq(Bytes) /\ Len(rt) = m + n
    <3>1. \A i \in 1 .. m + n : ((m + n) - i) + 1 \in 1 .. m + n
      OBVIOUS
    <3> QED
      BY <2>3, <3>1, IsASeq
  <2>6. ASSUME NEW i \in 1 .. n PROVE rb[i] = rt[i]
    <3>1. PICK j \in 1 .. m + n : j = ((m + n) - i) + 1 /\ ~(j <= m) /\ j - m = (n - i) + 1
      OBVIOUS
    <3>2. i \in 1 .. m + n
      OBVIOUS
    <3> QED
      BY <1>2, <3>1, <3>2
  <2> HIDE DEF rb, rt
  <2>7. SubSeq(rb, 1, n) = SubSeq(rt, 1, n)
    <3>1. \A i \in 1 .. n : rb[i] \in Bytes /\ rt[i] \in Bytes
      <4>1. \A i \in 1 .. n : i \in 1 .. m + n
        OBVIOUS
      <4> QED
        BY <2>4, <2>5, <4>1, ElementOfSeq
    <3>2. /\ SubSeq(rb, 1, n) \in Seq(Bytes) /\ SubSeq(rt, 1, n) \in Seq(Bytes)
          /\ Len(SubSeq(rb, 1, n)) = (IF 1 <= n THEN n - 1 + 1 ELSE 0)
          /\ Len(SubSeq(rt, 1, n)) = (IF 1 <= n THEN n - 1 + 1 ELSE 0)
          /\ \A i \in 1 .. n - 1 + 1 : SubSeq(rb, 1, n)[i] = rb[1 + i - 1]
          /\ \A i \in 1 .. n - 1 + 1 : SubSeq(rt, 1, n)[i] = rt[1 + i - 1]
      BY <3>1, SubSeqProperties
    <3> DEFINE sb == SubSeq(rb, 1, n)
               st == SubSeq(rt, 1, n)
    <3>3. /\ Len(sb) = n /\ Len(st) = n /\ sb \in Seq(Bytes) /\ st \in Seq(Bytes)
          /\ \A i \in 1 .. n : sb[i] = rb[i] /\ st[i] = rt[i]
      BY <3>2
    <3> HIDE DEF sb, st
    <3>4. sb = st
      BY <2>6, <3>3, SeqEqual
    <3> QED
      BY <3>4 DEF sb, st
  <2> QED
    BY <2>1, <2>4, <2>5, <2>7 DEF IsSuffix, IsPrefix
<1>4. Len(b) = Len(t) \/ t[Len(t) - Len(b)] = NL
  <2>1. CASE m = 0
    BY <1>1, <1>2, <2>1
  <2>2. CASE m # 0
    <3>1. m \in 1 .. m + n /\ m <= m /\ (m + n) - n = m /\ a # <<>>
      BY <1>1, <2>2, EmptySeq
    <3>2. a[m] = NL
      BY <1>1, <3>1
    <3> QED
      BY <1>1, <1>2, <3>1, <3>2
  <2> QED
    BY <2>1, <2>2
<1> QED
  BY <1>3, <1>4 DEF FromLineStart

-----------------------------------------------------------------------------
(* The end of a text.                                                      *)

LEMMA SameBody ==
  ASSUME NEW u \in Seq(Bytes), NEW w \in Seq(Bytes), Append(u, NL) = Append(w, NL)
  PROVE  u = w
<1>1. NL \in Bytes /\ <<NL>> \in Seq(Bytes)
  BY DEF Bytes
<1>2. Append(u, NL) = u \o <<NL>> /\ Append(w, NL) = w \o <<NL>>
  BY <1>1, AppendIsConcat
<1>3. Cut(Append(u, NL), u, <<NL>>) /\ Cut(Append(u, NL), w, <<NL>>)
  BY <1>2, Zenon DEF Cut
<1> QED
  BY <1>1, <1>3, SameCut

\* A cut in front of a last newline is one without it.
LEMMA CutBody ==
  ASSUME NEW t \in Seq(Bytes), NEW a \in Seq(Bytes), NEW w \in Seq(Bytes),
         Cut(Append(t, NL), a, Append(w, NL))
  PROVE  Cut(t, a, w)
<1>1. NL \in Bytes /\ a \o w \in Seq(Bytes)
  BY ConcatProperties DEF Bytes
<1>2. Cut(Append(a \o w, NL), a, Append(w, NL))
  <2>1. Cut(a \o w, a, w)
    BY DEF Cut
  <2> QED
    BY <1>1, <2>1, CutAppend
<1>3. Append(t, NL) = Append(a \o w, NL)
  BY <1>2, Zenon DEF Cut
<1>4. t = a \o w
  BY <1>1, <1>3, SameBody
<1> QED
  BY <1>4, Zenon DEF Cut

\* A text is its whole lines, joined, and the part after them.
LEMMA SplitText ==
  ASSUME NL \notin Chars, NEW t \in Seq(Bytes), NEW front \in Seq(Lines), NEW line \in Lines,
         Split(t) = Append(front, line)
  PROVE  Cut(t, JoinLines(front), line)
<1>1. JoinLines(Split(t)) = Append(t, NL)
  BY JoinSplit
<1>2. /\ JoinLines(front) \in Seq(Bytes) /\ line \in Seq(Bytes)
      /\ Cut(JoinLines(Append(front, line)), JoinLines(front), Append(line, NL))
  BY JoinMore, LineOfBytes
<1>3. Cut(Append(t, NL), JoinLines(front), Append(line, NL))
  BY <1>1, <1>2, Zenon
<1> QED
  BY <1>2, <1>3, CutBody

LEMMA JoinedEnd ==
  ASSUME NEW lines \in Seq(Lines), NEW t, t = JoinLines(lines)
  PROVE  t = <<>> \/ t[Len(t)] = NL
<1>1. CASE lines = <<>>
  BY <1>1, JoinedNone
<1>2. CASE lines # <<>>
  <2>1. PICK before \in Seq(Bytes) : t = Append(before, NL)
    BY <1>2, JoinEnds
  <2>2. NL \in Bytes
    BY DEF Bytes
  <2> QED
    BY <2>1, <2>2, AppendProperties
<1> QED
  BY <1>1, <1>2

\* The last part is empty when the text ends with a whole line.
LEMMA SplitEnd ==
  ASSUME NL \notin Chars, NEW t \in Seq(Bytes), NEW front \in Seq(Lines), NEW line \in Lines,
         Split(t) = Append(front, line)
  PROVE  /\ line = <<>> => t = JoinLines(front) /\ (t = <<>> \/ t[Len(t)] = NL)
         /\ line # <<>> => t # <<>> /\ t[Len(t)] # NL
<1>1. PICK head \in Seq(Bytes) : head = JoinLines(front)
  BY JoinedType
<1>2. Cut(t, head, line)
  BY <1>1, SplitText
<1>3. line \in Seq(Bytes) /\ line \in Seq(Chars)
  BY LineOfBytes DEF Lines
<1>4. CASE line = <<>>
  <2>1. head \o <<>> = head
    BY ConcatEmptySeq
  <2>2. t = head
    BY <1>2, <1>4, <2>1, Zenon DEF Cut
  <2> QED
    BY <1>1, <1>4, <2>2, JoinedEnd
<1>5. CASE line # <<>>
  <2>1. PICK body \in Seq(Chars), x \in Chars : line = Append(body, x)
    BY <1>3, <1>5, SequenceEmptyOrAppend
  <2>2. body \in Seq(Bytes) /\ x \in Bytes /\ head \o body \in Seq(Bytes) /\ x # NL
    <3>1. body \in Seq(Bytes)
      BY LineOfBytes DEF Lines
    <3> QED
      BY <3>1, ConcatProperties DEF Bytes
  <2>3. Cut(Append(head \o body, x), head, Append(body, x))
    <3>1. Cut(head \o body, head, body)
      BY DEF Cut
    <3> QED
      BY <2>2, <3>1, CutAppend
  <2>4. t = Append(head \o body, x)
    BY <1>2, <2>1, <2>3, Zenon DEF Cut
  <2> QED
    BY <1>5, <2>2, <2>4, AppendProperties
<1> QED
  BY <1>4, <1>5

\* The last lines, joined, are the end of all lines, joined.
LEMMA TailOfLines ==
  ASSUME NL \notin Chars, NEW lines \in Seq(Lines), NEW n \in Nat
  PROVE  /\ FromLineStart(JoinLines(LastOf(lines, n)), JoinLines(lines))
         /\ Newlines(JoinLines(LastOf(lines, n))) = Least(Newlines(JoinLines(lines)), n)
<1>1. PICK last \in Seq(Lines) : last = LastOf(lines, n) /\ Len(last) = Least(Len(lines), n)
  BY LastOfList
<1>2. PICK before \in Seq(Lines) : Cut(lines, before, last)
  BY <1>1, LastOfList
<1>3. Cut(JoinLines(lines), JoinLines(before), JoinLines(last))
  BY <1>2, JoinCut
<1>4. PICK a \in Seq(Bytes), b \in Seq(Bytes), t \in Seq(Bytes) :
        a = JoinLines(before) /\ b = JoinLines(last) /\ t = JoinLines(lines)
  BY JoinedType
<1>5. FromLineStart(b, t)
  <2>1. a = <<>> \/ a[Len(a)] = NL
    BY <1>4, JoinedEnd
  <2>2. Cut(t, a, b)
    BY <1>3, <1>4
  <2> QED
    BY <2>1, <2>2, CutAtLine
<1>6. Newlines(b) = Len(last) /\ Newlines(t) = Len(lines)
  BY <1>4, NewlinesJoined
<1> QED
  BY <1>1, <1>4, <1>5, <1>6

-----------------------------------------------------------------------------
(* The ring buffer holds the last whole lines of all that was written, and *)
(* the part of a line after them.                                          *)

Buffered(front, line) ==
  /\ front \in Seq(Lines) /\ line \in Lines
  /\ Split(text) = Append(front, line)
  /\ log.lines = LastOf(front, MaxLines) /\ log.cur = line

RingOK == text \in Seq(Bytes) /\ \E front, line : Buffered(front, line)

LEMMA ChunkType ==
  ASSUME MaxChunk \in Nat, NEW chunk \in Chunks
  PROVE  chunk \in Seq(Bytes)
<1>1. PICK n \in 1 .. MaxChunk : chunk \in [1 .. n -> Bytes]
  BY DEF Chunks, Bytes
<1> QED
  BY <1>1, SeqDef

LEMMA StartOf ==
  ASSUME NEW V, NEW s, NEW n \in Nat, \A i \in 1 .. n : s[i] \in V
  PROVE  /\ SubSeq(s, 1, n) \in Seq(V) /\ Len(SubSeq(s, 1, n)) = n
         /\ \A i \in 1 .. n : SubSeq(s, 1, n)[i] = s[i]
<1> DEFINE front == SubSeq(s, 1, n)
<1>1. /\ front \in Seq(V)
      /\ Len(front) = IF 1 <= n THEN n - 1 + 1 ELSE 0
      /\ \A i \in 1 .. n - 1 + 1 : front[i] = s[1 + i - 1]
  BY SubSeqProperties
<1> HIDE DEF front
<1>2. /\ front \in Seq(V) /\ Len(front) = n
      /\ \A i \in 1 .. n : front[i] = s[i]
  BY <1>1
<1> QED
  BY <1>2 DEF front

LEMMA FrontOf ==
  ASSUME NEW V, NEW s \in Seq(V), NEW longer, Len(longer) = Len(s) + 1,
         \A i \in 1 .. Len(s) : longer[i] = s[i]
  PROVE  Front(longer) = s
<1>1. PICK n \in Nat : Len(s) = n /\ \A i \in 1 .. n : s[i] \in V
  BY LenProperties, ElementOfSeq
<1> DEFINE front == SubSeq(longer, 1, n)
<1>2. \A i \in 1 .. n : longer[i] \in V /\ longer[i] = s[i]
  BY <1>1
<1>3. /\ front \in Seq(V) /\ Len(front) = n
      /\ \A i \in 1 .. n : front[i] = longer[i]
  BY <1>2, StartOf
<1>4. Front(longer) = front
  <2>1. Len(longer) - 1 = n
    BY <1>1
  <2> QED
    BY <2>1 DEF Front
<1> HIDE DEF front
<1> QED
  BY <1>1, <1>2, <1>3, <1>4, SeqEqual

LEMMA RingStarts ==
  ASSUME NL \notin Chars, MaxLines \in Nat \ {0}, LogInit
  PROVE  RingOK
<1>1. text = <<>> /\ text \in Seq(Bytes) /\ log.lines = <<>> /\ log.cur = <<>>
  BY EmptySeq DEF LogInit, EmptyLog
<1>2. <<>> \in Seq(Lines) /\ <<>> \in Lines /\ Append(<<>>, <<>>) = << <<>> >>
  BY EmptySeq DEF Lines
<1>3. LastOf(<<>>, MaxLines) = <<>>
  BY EmptySeq DEF LastOf
<1>4. Split(text) = Append(<<>>, <<>>)
  BY <1>1, <1>2, SplitNone, Zenon
<1>5. Buffered(<<>>, <<>>)
  BY <1>1, <1>2, <1>3, <1>4 DEF Buffered
<1> QED
  BY <1>1, <1>5 DEF RingOK

\* What was the partial line goes on with the chunk.
LEMMA RingStays ==
  ASSUME NL \notin Chars, MaxLines \in Nat \ {0}, NEW chunk \in Seq(Bytes),
         RingOK, LogOutput(chunk)
  PROVE  RingOK'
<1>1. PICK front \in Seq(Lines), line \in Lines : Buffered(front, line)
  BY DEF RingOK, Buffered
<1>2. text \in Seq(Bytes) /\ text \o chunk \in Seq(Bytes) /\ text' = text \o chunk
  BY ConcatProperties DEF RingOK, LogOutput
<1>3. line \in Seq(Bytes) /\ line \o chunk \in Seq(Bytes) /\ NL \in Bytes
  BY LineOfBytes, ConcatProperties DEF Bytes
<1>4. Split(line \o chunk) \in Parts
  BY <1>3, SplitOn
<1>5. PICK more \in Seq(Lines), rest \in Lines : Split(line \o chunk) = Append(more, rest)
  BY <1>4, PartsEnd
<1>6. /\ Front(Split(line \o chunk)) = more
      /\ Split(line \o chunk)[Len(Split(line \o chunk))] = rest
  <2>1. PICK parts \in Seq(Lines) : parts = Append(more, rest)
    BY AppendProperties
  <2>2. Len(more) \in Nat /\ Len(parts) = Len(more) + 1 /\ parts[Len(parts)] = rest
    BY <2>1, AppendProperties, LenProperties
  <2>3. Front(parts) = more
    <3>1. \A i \in 1 .. Len(more) : parts[i] = more[i]
      BY <2>1, AppendProperties
    <3> HIDE <2>1
    <3> QED
      BY <2>2, <3>1, FrontOf
  <2> QED
    BY <1>5, <2>1, <2>2, <2>3, Zenon
<1>7. /\ log'.lines = AppendLines(log.lines, more)
      /\ log'.cur = rest
  BY <1>1, <1>6 DEF LogOutput, LogWrite, Buffered
<1>8. Split(text)' = Append(front \o more, rest)
  <2>1. Cut(Split(text \o chunk), front, Append(more, rest))
    BY <1>1, <1>2, <1>5, SplitGoesOn DEF Buffered
  <2>2. Cut(Append(front \o more, rest), front, Append(more, rest))
    <3>1. Cut(front \o more, front, more)
      BY DEF Cut
    <3> QED
      BY <3>1, CutAppend
  <2> QED
    BY <1>2, <2>1, <2>2, Zenon DEF Cut
<1>9. front \o more \in Seq(Lines) /\ log'.lines = LastOf(front \o more, MaxLines)
  BY <1>1, <1>7, RingKeepsLast, ConcatProperties DEF Buffered
<1>10. Buffered(front \o more, rest)'
  BY <1>7, <1>8, <1>9 DEF Buffered
<1> QED
  BY <1>2, <1>10 DEF RingOK

LEMMA RingShowsTail ==
  ASSUME NL \notin Chars, MaxLines \in Nat \ {0}, RingOK
  PROVE  ShowsTail
<1>1. PICK front \in Seq(Lines), line \in Lines : Buffered(front, line)
  BY DEF RingOK, Buffered
<1>2. text \in Seq(Bytes) /\ Split(text) = Append(front, line) /\ NL \in Bytes
  BY <1>1 DEF RingOK, Buffered, Bytes
<1> DEFINE whole == text = <<>> \/ text[Len(text)] = NL
           all   == IF whole THEN text ELSE Terminated(text)
           most  == MaxLines + (IF all = text THEN 0 ELSE 1)
           shown == String(log)
<1>3. CASE line = <<>>
  <2>1. whole /\ text = JoinLines(front)
    BY <1>2, <1>3, SplitEnd
  <2>2. all = JoinLines(front) /\ most = MaxLines
    BY <2>1
  <2>3. shown = JoinLines(LastOf(front, MaxLines))
    BY <1>1, <1>3 DEF String, Buffered
  <2> HIDE DEF all, shown, most
  <2>4. /\ FromLineStart(shown, all)
        /\ Newlines(shown) = Least(Newlines(all), most)
    BY <2>2, <2>3, TailOfLines
  <2> QED
    BY <2>4 DEF ShowsTail, Least, all, shown, most
<1>4. CASE line # <<>>
  <2>1. ~whole
    BY <1>2, <1>4, SplitEnd
  <2>2. all = Append(text, NL)
    BY <2>1 DEF Terminated
  <2>3. all # text
    <3>1. Len(Append(text, NL)) = Len(text) + 1 /\ Len(text) \in Nat
      BY <1>2, AppendProperties, LenProperties
    <3> QED
      BY <2>2, <3>1
  <2>4. PICK lines \in Seq(Lines) : lines = Append(front, line)
    BY AppendProperties
  <2>5. all = JoinLines(lines)
    BY <1>2, <2>2, <2>4, JoinSplit, Zenon
  <2>6. shown = JoinLines(LastOf(lines, MaxLines + 1))
    <3>1. shown = JoinLines(Append(LastOf(front, MaxLines), line))
      BY <1>1, <1>4 DEF String, Buffered
    <3>2. LastOf(Append(front, line), MaxLines + 1) = Append(LastOf(front, MaxLines), line)
      BY LastOfAppend
    <3> QED
      BY <2>4, <3>1, <3>2, Zenon
  <2>7. most = MaxLines + 1 /\ most \in Nat
    BY <2>3
  <2> HIDE DEF all, shown, most
  <2>8. /\ FromLineStart(shown, all)
        /\ Newlines(shown) = Least(Newlines(all), most)
    BY <2>5, <2>6, <2>7, TailOfLines
  <2> QED
    BY <2>8 DEF ShowsTail, Least, all, shown, most
<1> QED
  BY <1>3, <1>4

\* For any characters, any number of lines that are kept, chunks of any
\* size and any number of them: the live log shows the end of all output.
THEOREM LogShowsTail == LogSpec => []ShowsTail
<1> NL \notin Chars /\ MaxLines \in Nat \ {0} /\ MaxChunk \in Nat
  BY CharsAssumption, LinesAssumption, BoundsAssumption
<1>1. LogInit => RingOK
  BY RingStarts
<1>2. ASSUME RingOK, [LogNext]_logVars PROVE RingOK'
  <2>1. ASSUME NEW chunk \in Chunks, LogOutput(chunk) PROVE RingOK'
    BY <1>2, <2>1, ChunkType, RingStays
  <2>2. ASSUME UNCHANGED <<log, text>> PROVE RingOK'
    BY <1>2, <2>2 DEF RingOK, Buffered
  <2> QED
    BY <1>2, <2>1, <2>2 DEF LogNext, logVars, ContextEnds, StillDone, ClipDone, RunEnds, RunFailed
<1>3. RingOK => ShowsTail
  BY RingShowsTail
<1> QED
  BY <1>1, <1>2, <1>3, PTL DEF LogSpec

-----------------------------------------------------------------------------
(* The error of a job is made from the buffer of the run that failed,      *)
(* which holds all that was written since the run began.                   *)

BufferOK == /\ text \in Seq(Bytes) /\ errBuf \in Seq(Bytes)
            /\ \E before \in Seq(Bytes) : Len(before) = earlier /\ Cut(text, before, errBuf)

ErrorOK == /\ running # "none" => error = NoError
           /\ ended = "cut" => over
           /\ error.why = "failed" => error.tail = LastLines(errBuf, ErrorLines)

LEMMA TrimmedType ==
  ASSUME NEW t \in Seq(Bytes)
  PROVE  Trimmed(t) \in Seq(Bytes)
<1>1. PICK n \in Nat : Len(t) = n /\ DOMAIN t = 1 .. n /\ \A i \in 1 .. n : t[i] \in Bytes
  BY LenProperties, ElementOfSeq
<1> DEFINE said == {i \in 1 .. n : t[i] # NL}
           keep == {0} \cup {i \in DOMAIN t : t[i] # NL}
           last == CHOOSE i \in keep : \A j \in keep : j <= i
<1>2. keep = {0} \cup said
  BY <1>1
<1>3. \E i \in keep : \A j \in keep : j <= i
  <2>1. CASE said = {}
    BY <1>2, <2>1
  <2>2. CASE said # {}
    <3>1. said \in SUBSET (1 .. n)
      OBVIOUS
    <3> HIDE DEF said
    <3>2. PICK m \in said : \A i \in said : i <= m
      BY <2>2, <3>1, Largest
    <3>3. m \in 1 .. n /\ 0 <= m
      BY <3>1
    <3> QED
      BY <1>2, <3>2, <3>3
  <2> QED
    BY <2>1, <2>2
<1>4. last \in 0 .. n
  <2>1. last \in keep
    BY <1>3
  <2>2. last = 0 \/ last \in said
    BY <1>2, <2>1
  <2>3. 0 \in 0 .. n /\ \A i \in said : i \in 0 .. n
    BY <1>1
  <2> HIDE DEF last, keep, said
  <2> QED
    BY <2>2, <2>3
<1>5. Trimmed(t) = SubSeq(t, 1, last)
  BY DEF Trimmed
<1> HIDE DEF last
<1>6. last \in Nat /\ \A i \in 1 .. last : t[i] \in Bytes
  BY <1>1, <1>4
<1> QED
  BY <1>5, <1>6, StartOf

\* What follows a piece that is cut off.
LEMMA RestOf ==
  ASSUME NEW V, NEW a \in Seq(V), NEW b \in Seq(V), NEW s \in Seq(V), Cut(s, a, b)
  PROVE  SubSeq(s, Len(a) + 1, Len(s)) = b
<1>1. PICK m \in Nat, n \in Nat : Len(a) = m /\ Len(b) = n /\ Len(s) = m + n
  <2>1. Len(a) \in Nat /\ Len(b) \in Nat /\ Len(a \o b) = Len(a) + Len(b)
    BY LenProperties, ConcatProperties
  <2>2. Len(s) = Len(a) + Len(b)
    BY <2>1, Zenon DEF Cut
  <2> QED
    BY <2>1, <2>2
<1> DEFINE front == SubSeq(s, 1, m)
           rest  == SubSeq(s, m + 1, m + n)
<1>2. \A i \in 1 .. m + n : s[i] \in V
  BY <1>1, ElementOfSeq
<1>3. front \in Seq(V)
  <2>1. \A i \in 1 .. m : s[i] \in V
    BY <1>2
  <2> QED
    BY <2>1, StartOf
<1>4. rest \in Seq(V) /\ Len(rest) = n
  <2>1. \A i \in m + 1 .. m + n : s[i] \in V
    BY <1>2
  <2>2. /\ rest \in Seq(V)
        /\ Len(rest) = IF m + 1 <= m + n THEN (m + n) - (m + 1) + 1 ELSE 0
    BY <2>1, SubSeqProperties
  <2> HIDE DEF rest
  <2> QED
    BY <2>2
<1>5. Cut(s, front, rest)
  <2>1. 1 \in 1 .. Len(s) + 1 /\ m \in 1 - 1 .. Len(s) /\ m + n \in m .. Len(s)
    BY <1>1
  <2>2. SubSeq(s, 1, m) \o SubSeq(s, m + 1, m + n) = SubSeq(s, 1, m + n)
    BY <2>1, ConcatAdjacentSubSeq
  <2>3. SubSeq(s, 1, m + n) = s
    BY <1>1, SubSeqFull
  <2> QED
    BY <2>2, <2>3 DEF Cut
<1>6. rest = b
  <2> HIDE DEF front, rest
  <2> QED
    BY <1>1, <1>3, <1>4, <1>5, SameCut
<1> QED
  BY <1>1, <1>6

LEMMA BufferStarts == LogInit => BufferOK
<1> SUFFICES ASSUME LogInit PROVE BufferOK
  OBVIOUS
<1>1. <<>> \in Seq(Bytes) /\ Len(<<>>) = 0 /\ Cut(<<>>, <<>>, <<>>)
  BY EmptySeq, ConcatEmptySeq DEF Cut
<1> QED
  BY <1>1 DEF LogInit, BufferOK

LEMMA BufferStays ==
  ASSUME MaxChunk \in Nat, BufferOK, [LogNext]_logVars
  PROVE  BufferOK'
<1>1. ASSUME NEW chunk \in Chunks, LogOutput(chunk) PROVE BufferOK'
  <2>1. PICK before \in Seq(Bytes) : Len(before) = earlier /\ Cut(text, before, errBuf)
    BY DEF BufferOK
  <2>2. /\ text \in Seq(Bytes) /\ errBuf \in Seq(Bytes) /\ chunk \in Seq(Bytes)
        /\ text \o chunk \in Seq(Bytes) /\ errBuf \o chunk \in Seq(Bytes)
    BY ChunkType, ConcatProperties DEF BufferOK
  <2>3. Cut(text \o chunk, before, errBuf \o chunk)
    <3>1. Cut(text \o chunk, text, chunk)
      BY DEF Cut
    <3> QED
      BY <2>1, <2>2, <3>1, CutBefore
  <2>4. text' = text \o chunk /\ errBuf' = errBuf \o chunk /\ earlier' = earlier
    BY <1>1 DEF LogOutput
  <2>5. Cut(text', before, errBuf')
    BY <2>3, <2>4, Zenon
  <2> QED
    BY <2>1, <2>2, <2>4, <2>5 DEF BufferOK
<1>2. CASE StillDone
  <2>1. text \in Seq(Bytes) /\ <<>> \in Seq(Bytes) /\ Cut(text, text, <<>>)
    BY EmptySeq, ConcatEmptySeq DEF Cut, BufferOK
  <2> QED
    BY <1>2, <2>1 DEF StillDone, BufferOK
<1>3. CASE UNCHANGED <<errBuf, text, earlier>>
  BY <1>3 DEF BufferOK
<1> QED
  BY <1>1, <1>2, <1>3 DEF LogNext, logVars, ContextEnds, ClipDone, RunEnds, RunFailed

LEMMA ErrorStarts == LogInit => ErrorOK /\ CutOffShowsNoTail
BY DEF LogInit, ErrorOK, CutOffShowsNoTail, NoError

\* Only the end of a run makes an error, and after it nothing happens.
LEMMA ErrorStays ==
  ASSUME ErrorOK, CutOffShowsNoTail, [LogNext]_logVars
  PROVE  ErrorOK' /\ CutOffShowsNoTail'
<1>1. ASSUME NEW chunk \in Chunks, LogOutput(chunk) PROVE ErrorOK' /\ CutOffShowsNoTail'
  BY <1>1 DEF LogOutput, UnderWay, ErrorOK, CutOffShowsNoTail, NoError
<1>2. CASE ContextEnds
  BY <1>2 DEF ContextEnds, ErrorOK, CutOffShowsNoTail
<1>3. CASE StillDone
  BY <1>3 DEF StillDone, UnderWay, ErrorOK, CutOffShowsNoTail, NoError
<1>4. CASE ClipDone
  BY <1>4 DEF ClipDone, UnderWay, ErrorOK, CutOffShowsNoTail, NoError
<1>5. ASSUME NEW how \in {"failed", "cut"}, RunEnds(how) PROVE ErrorOK' /\ CutOffShowsNoTail'
  BY <1>5 DEF RunEnds, UnderWay, ErrorOK, CutOffShowsNoTail
<1>6. CASE RunFailed
  <2>1. CASE over
    BY <1>6, <2>1 DEF RunFailed, FfmpegError, TimedOut, ErrorOK, CutOffShowsNoTail
  <2>2. CASE ~over
    BY <1>6, <2>2 DEF RunFailed, FfmpegError, ErrorOK, CutOffShowsNoTail
  <2> QED
    BY <2>1, <2>2
<1>7. CASE UNCHANGED logVars
  BY <1>7 DEF logVars, ErrorOK, CutOffShowsNoTail
<1> QED
  BY <1>1, <1>2, <1>3, <1>4, <1>5, <1>6, <1>7 DEF LogNext

LEMMA SplitParts == ASSUME NEW t \in Seq(Bytes) PROVE Split(t) \in Parts
<1>1. NL \in Bytes
  BY DEF Bytes
<1> QED
  BY <1>1, SplitOn

LEMMA TailOfText ==
  ASSUME NL \notin Chars, ErrorLines \in Nat \ {0}, NEW said \in Seq(Bytes), NEW end,
         end = Front(JoinLines(LastOf(Split(said), ErrorLines)))
  PROVE  /\ FromLineStart(end, said)
         /\ Newlines(said) \in Nat
         /\ Newlines(end) + 1 = Least(Newlines(said) + 1, ErrorLines)
<1>1. PICK parts \in Parts : parts = Split(said)
  BY SplitParts
<1>2. parts \in Seq(Lines) /\ Len(parts) \in Nat \ {0} /\ NL \in Bytes
  BY EmptySeq, LenProperties DEF Parts, Bytes
<1>3. PICK last \in Seq(Lines) : /\ last = LastOf(parts, ErrorLines)
                                 /\ Len(last) = Least(Len(parts), ErrorLines)
  BY <1>2, LastOfList
<1>4. PICK before \in Seq(Lines) : Cut(parts, before, last)
  BY <1>2, <1>3, LastOfList
<1>5. last # <<>>
  BY <1>2, <1>3, EmptySeq DEF Least
<1>6. PICK w \in Seq(Bytes) : JoinLines(last) = Append(w, NL)
  BY <1>5, JoinEnds
<1>7. end = w
  <2>1. PICK joined \in Seq(Bytes) : joined = JoinLines(last)
    BY JoinedType
  <2>2. Len(joined) = Len(w) + 1 /\ \A i \in 1 .. Len(w) : joined[i] = w[i]
    BY <1>2, <1>6, <2>1, AppendProperties
  <2>3. Front(joined) = w
    BY <2>2, FrontOf
  <2> QED
    BY <1>1, <1>3, <2>1, <2>3, Zenon
<1>8. PICK a \in Seq(Bytes) : a = JoinLines(before) /\ (a = <<>> \/ a[Len(a)] = NL)
  BY JoinedType, JoinedEnd
<1>9. JoinLines(parts) = Append(said, NL)
  BY <1>1, JoinSplit, Zenon
<1>10. Cut(said, a, w)
  <2>1. Cut(JoinLines(parts), JoinLines(before), JoinLines(last))
    BY <1>4, JoinCut
  <2>2. Cut(Append(said, NL), a, Append(w, NL))
    BY <1>6, <1>8, <1>9, <2>1, Zenon
  <2> QED
    BY <2>2, CutBody
<1>11. FromLineStart(w, said)
  BY <1>8, <1>10, CutAtLine
<1>12. /\ Newlines(said) \in Nat /\ Newlines(Append(said, NL)) = Newlines(said) + 1
       /\ Newlines(w) \in Nat /\ Newlines(Append(w, NL)) = Newlines(w) + 1
  BY <1>2, NewlinesAppend
<1>13. Newlines(Append(said, NL)) = Len(parts) /\ Newlines(Append(w, NL)) = Len(last)
  <2>1. Newlines(JoinLines(parts)) = Len(parts) /\ Newlines(JoinLines(last)) = Len(last)
    BY <1>2, NewlinesJoined
  <2> QED
    BY <1>6, <1>9, <2>1, Zenon
<1> QED
  BY <1>3, <1>7, <1>11, <1>12, <1>13

\* For any characters, chunks of any size and any number of error lines:
\* an error that shows output shows the last lines of what the run that
\* failed has written since it began.
THEOREM ErrorsAreTails == LogSpec => []ErrorIsTail
<1> NL \notin Chars /\ ErrorLines \in Nat \ {0} /\ MaxChunk \in Nat
  BY CharsAssumption, LinesAssumption, BoundsAssumption
<1>1. ASSUME BufferOK, ErrorOK PROVE ErrorIsTail
  <2> SUFFICES ASSUME error.why = "failed" PROVE ErrorIsTail
    BY DEF ErrorIsTail
  <2>1. PICK said \in Seq(Bytes) : said = Trimmed(errBuf)
    BY <1>1, TrimmedType DEF BufferOK
  <2>2. error.tail = Front(JoinLines(LastOf(Split(said), ErrorLines)))
    BY <1>1, <2>1 DEF ErrorOK, LastLines
  <2>3. /\ FromLineStart(error.tail, said)
        /\ Newlines(said) \in Nat
        /\ Newlines(error.tail) + 1 = Least(Newlines(said) + 1, ErrorLines)
    BY <2>2, TailOfText
  <2>4. Newlines(error.tail) + 1 = IF Newlines(said) < ErrorLines THEN Newlines(said) + 1
                                   ELSE ErrorLines
    BY <2>3 DEF Least
  <2>5. SubSeq(text, earlier + 1, Len(text)) = errBuf
    <3>1. PICK before \in Seq(Bytes) : Len(before) = earlier /\ Cut(text, before, errBuf)
      BY <1>1 DEF BufferOK
    <3>2. SubSeq(text, Len(before) + 1, Len(text)) = errBuf
      BY <1>1, <3>1, RestOf DEF BufferOK
    <3> QED
      BY <3>1, <3>2, Zenon
  <2>6. said = Trimmed(SubSeq(text, earlier + 1, Len(text)))
    BY <2>1, <2>5, Zenon
  <2> QED
    BY <2>3, <2>4, <2>6 DEF ErrorIsTail
<1>2. LogInit => BufferOK /\ ErrorOK /\ CutOffShowsNoTail
  BY BufferStarts, ErrorStarts
<1>3. BufferOK /\ ErrorOK /\ CutOffShowsNoTail /\ [LogNext]_logVars
        => (BufferOK /\ ErrorOK /\ CutOffShowsNoTail)'
  BY BufferStays, ErrorStays
<1> QED
  BY <1>1, <1>2, <1>3, PTL DEF LogSpec

\* Whenever the job's context ends, between the end of a run and the look at
\* it too: a run that was cut off is reported as out of time, with none of
\* its output; one that gave up with time left, by its output.
THEOREM CutOffIsSaid == LogSpec => []CutOffShowsNoTail
<1>1. LogInit => ErrorOK /\ CutOffShowsNoTail
  BY ErrorStarts
<1>2. ErrorOK /\ CutOffShowsNoTail /\ [LogNext]_logVars => (ErrorOK /\ CutOffShowsNoTail)'
  BY ErrorStays
<1> QED
  BY <1>1, <1>2, PTL DEF LogSpec
=============================================================================
