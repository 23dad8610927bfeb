------------------------------ MODULE Capture ------------------------------
(***************************************************************************)
(* One capture from the media server to the client's copy: what a backend  *)
(* makes of the item, what ffmpeg is asked for and makes of the source,    *)
(* what the record then says of it, and GET /media/... with its ETag.      *)
(*                                                                         *)
(* There is one worker (WORKERS=1), so attempts do not overlap: ClipQueue  *)
(* is about those.  Submissions with force, deletions, failed writes and   *)
(* the end of the process come at any point.                               *)
(***************************************************************************)
EXTENDS JobTable, SequencesExt

CONSTANTS c,           \* the one capture
          Asks,        \* what submissions ask for
          Speeds,      \* the speed multipliers a user saves
          Servers,     \* configured media servers
          Answers,     \* what they and the disk answer
          Sources,     \* what is behind an item
          NoFile,      \* nothing at a path
          Nothing,     \* no attempt, answer, cached body or facts
          MaxSubmits,  \* bound: accepted submissions
          MaxDrops,    \* bound: deletions
          MaxFaults,   \* bound: failed writes of the store file
          MaxCrashes   \* bound: ends of the process

FPS   == 1             \* frames per second of a clip; the time unit's own
Kinds == {"still", "clip"}
Ask   == [at: Nat, span: Nat \ {0}]

\* What ffprobe says of a stream; codec: that it has a name.
ProbeStream == [type: STRING, codec: BOOLEAN, transfer: STRING, dovi: BOOLEAN,
                profile: STRING, default: BOOLEAN]

ASSUME CapturesAssumption == Captures = {c}
ASSUME AsksAssumption     == Asks \subseteq Ask /\ Speeds \subseteq Nat \ {0}
ASSUME ServersAssumption  == \A s \in Servers :
                               s.kind \in {"plex", "kodi", "jellyfin", "local"}
ASSUME SourcesAssumption  == \A s \in Sources :
                               s.length \in Nat /\ s.streams \in Seq(ProbeStream)
ASSUME AnswersAssumption  == \* Kodi refuses ffmpeg what it refuses a HEAD.
         /\ Answers \subseteq [lookup: BOOLEAN, head: {"served", "refused", "unknown"},
                               stream: BOOLEAN, disk: BOOLEAN]
         /\ \A a \in Answers : a.head = "refused" => ~a.stream

VARIABLES
  jobs, result,  \* the record; what an attempt puts into it
  saved,         \* both in the store file
  clock,         \* the last stamp given
  asked,         \* the submissions, in order
  stage, copy,   \* the worker, and its copy of the job
  try,           \* its local variables: source, speed, result; and history:
                 \*   whether the item could be had, and read as resolved
  file,          \* the media files
  removing,      \* the files DeleteMedia has still to remove
  fetch,         \* the media request being answered
  cache,         \* what the client has, with its ETag
  drops, faults, crashes

storeVars == <<jobs, result, saved, clock, faults>>
tryVars   == <<stage, copy, try>>
getVars   == <<fetch, cache>>
restVars  == <<removing, getVars, drops, crashes>>
vars == <<jobs, result, saved, clock, asked, stage, copy, try, file, removing,
          fetch, cache, drops, faults, crashes>>

-----------------------------------------------------------------------------
(* The backends: what Resolve makes of a server's answer.                  *)

Error     == [ok |-> FALSE, via |-> "none"]
Stream    == [ok |-> TRUE, via |-> "stream"]
LocalFile == [ok |-> TRUE, via |-> "disk"]

\* Fault: any HEAD that is not answered well sends Kodi to the disk.
KodiAnyRefusal(server, a) ==
  IF a.head = "served" THEN Stream
  ELSE IF server.mapped THEN LocalFile ELSE Error

\* A 401 to the HEAD means the file is outside Kodi's sources: then, and
\* only then, the mapped path.  A HEAD that fails otherwise changes nothing.
KodiSource(server, a) ==
  IF a.head # "refused" THEN Stream
  ELSE IF server.mapped THEN LocalFile ELSE Error

\* lookup: the item's metadata came, could be decoded and names a file.
PlexSource(a) == IF a.lookup THEN Stream ELSE Error

KodiItem(server, a) == IF a.lookup THEN KodiSource(server, a) ELSE Error

\* The URL needs no lookup; the title's is best effort.
JellyfinSource == Stream

LocalSource(server, a) == IF server.mapped /\ a.disk THEN LocalFile ELSE Error

Resolve(server, a) ==
  CASE server.kind = "plex"     -> PlexSource(a)
    [] server.kind = "kodi"     -> KodiItem(server, a)
    [] server.kind = "jellyfin" -> JellyfinSource
    [] server.kind = "local"    -> LocalSource(server, a)

\* External: ffmpeg can read what it was given.
Readable(via, a) == IF via = "stream" THEN a.stream ELSE a.disk

\* For the history: is there a way to read the item that the settings allow?
Obtainable(server, a) ==
  \/ server.kind = "jellyfin" /\ a.stream
  \/ server.kind \in {"plex", "kodi"} /\ a.lookup /\ a.stream
  \/ server.kind = "kodi" /\ a.lookup /\ a.head = "refused" /\ server.mapped /\ a.disk
  \/ server.kind = "local" /\ server.mapped /\ a.disk

-----------------------------------------------------------------------------
(* ffmpeg and ffprobe.                                                     *)

Smaller(m, n) == IF m <= n THEN m ELSE n

\* Fault: -t as an output option only, counted after setpts.
ClipArgsAfterFilter(ask, speed) ==
  [seek |-> ask.at, read |-> 1000, speed |-> speed, write |-> ask.span * speed]

\* -ss and -t before -i, setpts=PTS/speed, and -t of the output.
ClipArgs(ask, speed) ==
  [seek |-> ask.at, read |-> ask.span * speed, speed |-> speed, write |-> ask.span]

\* External: what ffmpeg reads and writes for these arguments.
Remaining(source, seek) == IF source.length > seek THEN source.length - seek ELSE 0
SecondsRead(source, args) ==
  Smaller(Smaller(Remaining(source, args.seek), args.read), args.write * args.speed)
SecondsWritten(source, args) == SecondsRead(source, args) \div args.speed

IsVideo(s)  == s.type = "video"
IsAudio(s)  == s.type = "audio"
HasCodec(s) == s.codec

\* deriveVideoInfo and deriveAudioInfo.
Video(s) == [codec |-> s.codec,
             hdr   |-> CASE s.transfer = "smpte2084"    -> "HDR10"
                         [] s.transfer = "arib-std-b67" -> "HLG"
                         [] OTHER                       -> "",
             dovi  |-> s.dovi]
Audio(s) == [spatial |-> CASE s.profile = "Atmos" -> "atmos"
                           [] s.profile = "DTS:X" -> "dtsx"
                           [] OTHER               -> "",
             default |-> s.default]

\* The facts before the first stream: the zero value of model.MediaInfo.
NoFacts == [video |-> [codec |-> FALSE, hdr |-> "", dovi |-> FALSE],
            audio |-> <<>>]

\* One round of the loop: a video stream counts until one whose codec is
\* known has been seen, an audio stream always.
Derive(info, s) ==
  CASE IsVideo(s) -> IF HasCodec(info.video) THEN info
                     ELSE [info EXCEPT !.video = Video(s)]
    [] IsAudio(s) -> [info EXCEPT !.audio = Append(@, Audio(s))]
    [] OTHER      -> info

FactsOf(source) == FoldLeft(Derive, NoFacts, source.streams)

-----------------------------------------------------------------------------
(* The record.                                                             *)

\* What the job's fields say, and history: of which source, at what speed.
NoResult == [frames |-> 0, facts |-> Nothing, error |-> "",
             source |-> Nothing, speed |-> 0]

Reasons   == {"", "resolve", "unreadable", "timeout", "inspect", "short"}
MediaInfo == [video: [codec: BOOLEAN, hdr: {"", "HDR10", "HLG"}, dovi: BOOLEAN],
              audio: Seq([spatial: {"", "atmos", "dtsx"}, default: BOOLEAN])]
Result    == [frames: Nat, facts: MediaInfo \cup {Nothing}, error: Reasons,
              source: Sources \cup {Nothing}, speed: Nat]
Attempt   == [source: Sources, speed: Speeds, result: Result,
              readable: BOOLEAN, obtainable: BOOLEAN]
Media     == [req: Nat, whole: BOOLEAN, read: Nat, seconds: Nat]

ASSUME NothingAssumption == Nothing \notin Attempt

Init ==
  /\ jobs = EmptyTable /\ result = NoResult
  /\ saved = [jobs |-> EmptyTable, result |-> NoResult] /\ clock = 0
  /\ asked = <<>>
  /\ stage = "idle" /\ copy = NoJob /\ try = Nothing
  /\ file = [k \in Kinds |-> NoFile] /\ removing = {}
  /\ fetch = Nothing /\ cache = [k \in Kinds |-> Nothing]
  /\ drops = 0 /\ faults = 0 /\ crashes = 0

WriteOk    == saved' = [jobs |-> jobs', result |-> result'] /\ UNCHANGED faults
WriteFails == faults < MaxFaults /\ faults' = faults + 1 /\ UNCHANGED saved
Write      == WriteOk \/ WriteFails

Submit(ask, force) ==
  /\ Len(asked) < MaxSubmits
  /\ Accepts(jobs, c, force)
  /\ asked' = Append(asked, ask)
  /\ clock' = clock + 1
  /\ jobs' = SubmitJob(jobs, c, Len(asked'), clock')
  /\ result' = NoResult
  /\ Write
  /\ UNCHANGED <<tryVars, file, restVars>>

Delete ==
  /\ drops < MaxDrops /\ removing = {} /\ Present(jobs, c)
  /\ drops' = drops + 1
  /\ jobs' = DeleteJob(jobs, c) /\ result' = NoResult
  /\ \/ WriteOk /\ removing' = Kinds
     \/ WriteFails /\ UNCHANGED removing
  /\ UNCHANGED <<clock, asked, tryVars, file, getVars, crashes>>

RemoveFile(k) ==
  /\ k \in removing /\ (k = "clip" => "still" \notin removing)
  /\ removing' = removing \ {k}
  /\ file' = [file EXCEPT ![k] = NoFile]
  /\ UNCHANGED <<storeVars, asked, tryVars, getVars, drops, crashes>>

-----------------------------------------------------------------------------
(* The worker.                                                             *)

Claim ==
  /\ stage = "idle" /\ IsNextQueued(jobs, c)
  /\ clock' = clock + 1
  /\ jobs' = MarkRunning(jobs, c, clock')
  /\ UNCHANGED result /\ Write
  /\ copy' = jobs'[c] /\ stage' = "resolve"
  /\ UNCHANGED <<asked, try, file, restVars>>

Ends(s, r) ==
  /\ stage' = "report"
  /\ copy' = [copy EXCEPT !.state = s]
  /\ try' = [try EXCEPT !.result = r]

FailsWith(why) == Ends("failed", [NoResult EXCEPT !.error = why])

\* The context's deadline kills what is running; only the probe's own
\* failure is not the job's.
TimeOut ==
  /\ stage \in {"still", "clip", "inspect"}
  /\ FailsWith("timeout")
  /\ UNCHANGED <<storeVars, asked, file, restVars>>

\* The source as a backend resolved it, with the speed that is set by now.
ResolveItem(server, a, source, speed) ==
  LET found == Resolve(server, a)
      local == [source |-> source, speed |-> speed, result |-> NoResult,
                readable |-> Readable(found.via, a),
                obtainable |-> Obtainable(server, a)]
  IN
  /\ stage = "resolve"
  /\ IF found.ok
     THEN stage' = "still" /\ try' = local /\ UNCHANGED copy
     ELSE /\ stage' = "report"
          /\ copy' = [copy EXCEPT !.state = "failed"]
          /\ try' = [local EXCEPT !.result.error = "resolve"]
  /\ UNCHANGED <<storeVars, asked, file, restVars>>

Request == asked[copy.req]

\* ffmpeg cannot read the source: it exits before it opens the output.
NotReadable ==
  /\ stage \in {"still", "clip"} /\ ~try.readable
  /\ FailsWith("unreadable")
  /\ UNCHANGED <<storeVars, asked, file, restVars>>

Output(k, whole) ==
  LET args == ClipArgs(Request, try.speed) IN
  [req |-> copy.req, whole |-> whole,
   read |-> IF k = "clip" THEN SecondsRead(try.source, args) ELSE 0,
   seconds |-> IF k = "clip" THEN SecondsWritten(try.source, args) ELSE 0]

\* ffmpeg -y opens its output; past the end of the source there is no frame
\* to make a still of, and it ends well without a file.
Open(k) ==
  /\ stage = k /\ try.readable
  /\ stage' = IF k = "still" THEN "stilling" ELSE "clipping"
  /\ file' = IF k = "still" /\ Remaining(try.source, Request.at) = 0 THEN file
             ELSE [file EXCEPT ![k] = Output(k, FALSE)]
  /\ UNCHANGED <<storeVars, asked, copy, try, restVars>>

\* A file removed meanwhile stays removed.
Close(k, ok) ==
  /\ stage = IF k = "still" THEN "stilling" ELSE "clipping"
  /\ file' = IF file[k] # NoFile /\ file[k].req = copy.req
             THEN [file EXCEPT ![k].whole = ok] ELSE file
  /\ IF ok THEN /\ stage' = IF k = "still" THEN "clip" ELSE "inspect"
                /\ UNCHANGED <<copy, try>>
           ELSE FailsWith("timeout")
  /\ UNCHANGED <<storeVars, asked, restVars>>

\* probeClip cannot count the frames of a clip without any, or of none.
Inspect ==
  LET frames == file["clip"].seconds * FPS IN
  /\ stage = "inspect"
  /\ IF file["clip"] = NoFile \/ file["clip"].seconds = 0
     THEN FailsWith("inspect") /\ UNCHANGED file
     ELSE IF frames <= 1
     THEN FailsWith("short") /\ file' = [k \in Kinds |-> NoFile]
     ELSE /\ stage' = "probe" /\ UNCHANGED <<copy, file>>
          /\ try' = [try EXCEPT !.result.frames = frames]
  /\ UNCHANGED <<storeVars, asked, restVars>>

\* Probe; without an answer, or in time, the job is done without the facts.
Probe(answered) ==
  /\ stage = "probe"
  /\ Ends("done", [try.result EXCEPT
                     !.facts = IF answered THEN FactsOf(try.source) ELSE Nothing,
                     !.source = try.source, !.speed = try.speed])
  /\ UNCHANGED <<storeVars, asked, file, restVars>>

Report ==
  /\ stage = "report"
  /\ stage' = "idle" /\ copy' = NoJob /\ try' = Nothing
  /\ IF Present(jobs, c)
     THEN /\ clock' = clock + 1
          /\ jobs' = UpdateJob(jobs, copy, clock')
          /\ result' = try.result
          /\ Write
     ELSE UNCHANGED storeVars
  /\ UNCHANGED <<asked, file, restVars>>

-----------------------------------------------------------------------------
(* GET /media/{captureId}/still and /clip.                                 *)

\* Fault: the time the job was first submitted.
TagOfCreation(job) == job.created

\* The ETag.
Tag(job) == job.updated

\* GetJob: 404 unless the job is done.
AskMedia(k) ==
  /\ fetch = Nothing /\ IsDone(jobs, c)
  /\ fetch' = [kind |-> k, tag |-> Tag(jobs[c]), sends |-> FALSE]
  /\ UNCHANGED <<storeVars, asked, tryVars, file, removing, cache, drops, crashes>>

\* os.Stat, then the comparison: 404, 304, or the file is opened next.
StatFile ==
  LET k == fetch.kind IN
  /\ fetch # Nothing /\ ~fetch.sends
  /\ fetch' = IF \/ file[k] = NoFile
                 \/ cache[k] # Nothing /\ cache[k].tag = fetch.tag
              THEN Nothing ELSE [fetch EXCEPT !.sends = TRUE]
  /\ UNCHANGED <<storeVars, asked, tryVars, file, removing, cache, drops, crashes>>

\* http.ServeFile sends whatever is at the path by now.
ServeFile ==
  LET k == fetch.kind IN
  /\ fetch # Nothing /\ fetch.sends
  /\ fetch' = Nothing
  /\ cache' = IF file[k] = NoFile THEN cache
              ELSE [cache EXCEPT ![k] = [tag |-> fetch.tag, req |-> file[k].req,
                                         whole |-> file[k].whole]]
  /\ UNCHANGED <<storeVars, asked, tryVars, file, removing, drops, crashes>>

-----------------------------------------------------------------------------
Restart ==
  /\ crashes < MaxCrashes
  /\ crashes' = crashes + 1
  /\ jobs' = saved.jobs /\ result' = saved.result
  /\ stage' = "idle" /\ copy' = NoJob /\ try' = Nothing
  /\ removing' = {} /\ fetch' = Nothing
  /\ UNCHANGED <<saved, clock, faults, asked, file, cache, drops>>

Extract == \/ \E k \in Kinds : Open(k) \/ \E ok \in BOOLEAN : Close(k, ok)
           \/ NotReadable \/ TimeOut \/ Inspect
           \/ \E answered \in BOOLEAN : Probe(answered)

Next == \/ \E ask \in Asks, force \in BOOLEAN : Submit(ask, force)
        \/ Delete \/ (\E k \in Kinds : RemoveFile(k))
        \/ Claim \/ Extract \/ Report
        \/ \E server \in Servers, a \in Answers, source \in Sources, speed \in Speeds :
             ResolveItem(server, a, source, speed)
        \/ (\E k \in Kinds : AskMedia(k)) \/ StatFile \/ ServeFile
        \/ Restart

Spec == Init /\ [][Next]_vars

-----------------------------------------------------------------------------
(* Properties.                                                             *)

\* Types of all variables, and what the worker has at each stage.
TypeOK ==
  /\ jobs \in Tables /\ result \in Result
  /\ saved \in [jobs: Tables, result: Result] /\ clock \in Nat
  /\ asked \in Seq(Asks)
  /\ stage \in {"idle", "resolve", "still", "stilling", "clip", "clipping",
                "inspect", "probe", "report"}
  /\ copy \in Job \cup {NoJob} /\ (copy = NoJob) = (stage = "idle")
  /\ try \in Attempt \cup {Nothing}
  /\ (try = Nothing) = (stage \in {"idle", "resolve"})
  /\ file \in [Kinds -> Media \cup {NoFile}] /\ removing \subseteq Kinds
  /\ fetch \in [kind: Kinds, tag: Nat, sends: BOOLEAN] \cup {Nothing}
  /\ cache \in [Kinds -> [tag: Nat, req: Nat, whole: BOOLEAN] \cup {Nothing}]
  /\ drops \in Nat /\ faults \in Nat /\ crashes \in Nat

\* No restart brought back a file that a failed write left behind.
NothingUnwritten == faults = 0 \/ crashes = 0

\* A 304 tells the truth: when the client's ETag is the one of the done job,
\* what it has is the whole output of the submission the record describes -
\* although the record was read before the file was opened, and either may
\* have been replaced, deleted or half written in between.
CachedIsCurrent ==
  NothingUnwritten /\ IsDone(jobs, c) =>
    \A k \in Kinds :
      cache[k] # Nothing /\ cache[k].tag = Tag(jobs[c]) =>
        cache[k].req = jobs[c].req /\ cache[k].whole

\* The clip lasts the span or, sped up, what the source had left after the
\* timestamp, and no more than span times speed was read for it.
LastsAsAsked(clip, ask, source, speed) ==
  /\ clip.seconds = ask.span \/ clip.seconds = (source.length - ask.at) \div speed
  /\ clip.seconds <= ask.span /\ clip.read <= ask.span * speed

\* The facts are of the first video stream whose codec is known, and of each
\* audio stream in its place.
FactsAreOf(facts, streams) ==
  LET AudioUpTo(i) == {j \in 1 .. i : IsAudio(streams[j])}
      Counts(i)    == IsVideo(streams[i]) /\ HasCodec(streams[i])
  IN  /\ \A i \in DOMAIN streams : Counts(i) /\ (\A j \in 1 .. i - 1 : ~Counts(j)) =>
           facts.video = Video(streams[i])
      /\ Len(facts.audio) = Cardinality(AudioUpTo(Len(streams)))
      /\ \A i \in DOMAIN streams : IsAudio(streams[i]) =>
           facts.audio[Cardinality(AudioUpTo(i))] = Audio(streams[i])

\* What a done record says is true of the files and the source: the clip
\* moves, it is the one of this submission and as long as was asked for, and
\* the facts, when there are any, are those of the source.
RecordIsTrue ==
  NothingUnwritten /\ IsDone(jobs, c) =>
    /\ result.frames > 1 /\ result.error = ""
    /\ file["still"] # NoFile => file["still"].req = jobs[c].req
    /\ file["clip"] # NoFile =>
         /\ file["clip"].req = jobs[c].req /\ file["clip"].whole
         /\ result.frames = file["clip"].seconds * FPS
         /\ LastsAsAsked(file["clip"], asked[jobs[c].req], result.source, result.speed)
    /\ result.facts # Nothing => FactsAreOf(result.facts, result.source.streams)

\* An attempt gives up on an item only when there was no way to read it that
\* the settings allow: not from the server, and, when Kodi refuses to serve
\* it or the server is a mount, not from the mapped path either.
FallsBack ==
  stage = "report" /\ try.result.error \in {"resolve", "unreadable"} =>
    ~try.obtainable
=============================================================================
