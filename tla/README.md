# ClipHanger: TLA+ models and proofs

ClipHanger is one Go process. Clients post *capture ids* (an item of a media
server and a timestamp); a pool of workers turns each into a still and a short
clip with ffmpeg; clients poll and download them. All state is one JSON file
and one media directory. A web UI at `/ui/` configures it.

## Inventory

| Part | Source | State | Operations | Modelled in |
|---|---|---|---|---|
| Store: job table | `internal/store/store.go` | `data.Jobs`, rewritten as a whole to the file by `writeLocked` | SubmitJob, NextQueued, UpdateJob, DeleteJob, ReapTerminalOlderThan | `JobTable`, as atomic steps of `ClipQueue` |
| Worker pool and `process` | `internal/queue/queue.go` | `running` counter, each worker's copy of its job | gate, claim, still, clip, inspect, report | `ClipQueue` |
| Retention sweep | `queue.go:114-147` | none of its own | reapOnce | `ClipQueue` |
| Media directory | `queue.go`, `extract.go`, `api.go:279-323` | two files per captureId | ffmpeg writes, `os.Remove`, DeleteMedia; GET /media with its ETag | `ClipQueue`; the endpoints and the client's cache in `Capture` |
| Live logs | `queue/livelog.go` | registry by captureId; ring buffer per attempt | start, finish, Write, String | registry in `ClipQueue`, buffer in `LiveLog` |
| JSON API | `internal/api/api.go` | none of its own; a cursor and a view in the client | POST /jobs, GET /jobs?since=, DELETE /jobs/{id}, reads | batches, polling and the client in `ApiClient`; DELETE in `ClipQueue`; defaults in `Settings` |
| Access | `store.go`, `web/session.go`, `web/web.go`, `main.go` | API key, user name, hash, switch, session secret; cookies in browsers | start-up seed, rotate, login, logout, change of login, requireLogin | `Access` |
| Server registry | `store.go`, `web.go`, `queue.go:237-287`, `backend/local.go` | `data.Servers`; copies of records in requests and workers | add, test, remove, adopt path, resolve, learn path | `ServerRegistry` |
| Settings | `store.go:209-373`, `web.go:294-397`, `main.go:63-98` | four numbers, two "configured" marks | seed, save, read | `Settings` |
| Error text of a job | `extract.go:97-151` | stderr buffer of a run; the job's context, over or not | lastLines, ffmpegError | `LiveLog` |
| Backends | `internal/backend` | none | Resolve of Plex, Kodi (HEAD, then the mapped path), Jellyfin and the local mount | `Capture`; whether a server answers is a choice in `ServerRegistry` |
| Sign in with Plex | `internal/plexauth`, `web.go`, `setup.html`, `store.go:190-207` | the identity in the store; timer, button and form in the page | create pin, poll, look up servers | `PlexSignIn` |
| Arguments of ffmpeg, media facts | `extract.go` | none | still, clip, frame count, ffprobe's streams to facts | `Capture` |
| Folder browsing, templates, identifiers | `web.go`, `ids.go` | none | reading, rendering, crypto/rand | not modelled |

How the parts meet: handlers, workers and the sweep share the store through one
mutex, but every one of them does several locked operations in a row, and keeps
copies in between. They share the media directory without any lock, under paths
that depend on the captureId only. They share the `running` counter through
atomic operations. Nothing waits for workers when the process ends.

What is hard, and what each part must get right, is listed line by line under
`hazards` in `PROJECT.json`; the properties are chosen from that list:

* job table and workers: a submission is worked on by at most one worker; a
  record never says *running* without a worker (while the process lives);
  results and files belong to the request the record describes; a slot is never
  leaked and the limit never exceeded; queued and running jobs end; expired
  jobs and their files go away;
* access: no sequence of saves and failures locks the administrator out or
  brings an old API key back; sessions survive restarts;
* registry: ids stay unique whatever is put back; nothing is listed untested;
  an added server stays; a learnt path belongs to the server it is shown for;
* settings: a saved value survives restarts and environment variables, and
  whatever was stored the effective limit is in range;
* live log and error text: the reader sees the end of the output however it was cut;
  an error shows the end of what the failed run wrote, but nothing of a run that was
  only cut off by the timeout;
* API client: a poll misses no change, and a batch can be repeated until it is
  answered without anything being made twice;
* capture: a server's "not modified" is true, a done record tells the truth about
  the files, and an item that can be read is not given up;
* sign-in: polls use the identity their pin was made with, and the button comes
  back.

## Modules

* **JobTable**: the job table as a function from captures to records (or
  `NoJob`), one operator per method of the store. `req` is a history field: the
  number of the accepted submission a record describes.
* **ClipQueue** extends it with everything that runs. A step is one section
  under the store's mutex, one atomic operation on the counter, one start or end
  of ffmpeg, or one `os.Remove`. `pc[w]` is the worker's place in
  `worker`/`process`; `copy[w]` is the `job` variable it carries; `seen[w]` and
  `told[w]` are what `running.Add(1)` and `MaxConcurrentJobs()` returned to it.
  A file is known by whose output is in it, who has it open, and whether the last
  ffmpeg to close it succeeded. ffmpeg and ffprobe are choices: an output may not
  be opened, may end well or badly (the job's timeout is one bad end), and the
  clip may have too few frames or not be countable. `Restart` stops everything
  wherever it is (`main.go:144-168` does not wait for the queue, so a signal is no
  different from a kill) and loads the file again. `disturbed` is a history
  variable: captures whose record was submitted again or dropped while someone
  was engaged with them, or whose DELETE the end of the process cut short. `MediaOfDone`, `NoOrphans`, `Orderly` and the refinement are claimed for the others only, because
  for these the code does not keep them (see *known divergences*).
* **JobLifecycle** is the abstract specification: what a client is promised of one
  capture, with no workers, files, table or store. A capture is absent, queued,
  running, done or failed; a request of its own puts it in the queue; while it is
  done the whole output of that very request can be fetched; and once it is "off"
  nothing is promised any more.
* **ClipQueueProps** states the properties of the queue, and the refinement: the
  `phase` of a capture is the state in its record, its `request` the submission
  number there, and `served` that number while the record is done and both files
  are exactly the output of it. A capture that was disturbed, and every capture once
  a write has failed, is "off". `ImplementsLifecycle` is `JobLifecycle`'s `Spec`
  under this mapping. **MCClipQueue** has the symmetry for TLC.
* **ApiClient**: `handleSubmitJobs` item by item, each a locked section of its own,
  with the 400 at the first incomplete item that leaves those before it accepted;
  `ListJobs`; and the client `docs/API.md` describes, which repeats its batch until
  it is answered, leaves out what was refused, and polls with the newest `updatedAt`
  it knows. Answers get lost while the handler goes on, others delete, writes fail,
  the process ends. The worker's part is a claim and a report. `claims` and `chances`
  are history: how often a capture was claimed, and how often there was a reason to.
* **Capture**: one capture with one worker, so attempts do not overlap, but every
  step of it has its data: `Resolve` of the four backends (a Kodi HEAD that is
  refused, and only that, sends the job to the mapped path), the arguments of the
  two ffmpeg runs, what ffmpeg makes of them near the end of a source, the frame
  count that rejects a still clip, the streams ffprobe lists and what becomes of
  them, and the media endpoint in its three steps: record, stat, send. Time is counted in
  frames, of which a second has one.
* **PlexSignIn**: the script of the Setup page, its three handlers, `plexauth`, and
  the client identifier of the store. The page polls on an interval that does not
  wait for answers, and every callback clears whatever interval is in
  `plexPollTimer`; so attempts, polls and look-ups overlap. plex.tv hands out a token
  only to the identity that created the pin.
* **Access**: start-up step by step (Open, seed, APIKey, serving) and one action
  per handler. requireLogin is one step and the handler a later one; VerifyLogin
  copies the credentials under the lock and compares them after it, and so do
  the two actions. The hash of a password is the password; `TooLong` are those bcrypt
  refuses. API_KEY may differ at each start.
* **ServerRegistry**: the list as a sequence, as in the code, and requests and
  workers that hold a copy of a record between reading and putting it back.
  A path is a sequence of pieces; what is left when the prefix is taken away
  must be a file of the mount. The three remote
  kinds are one here, `"remote"`, that answers or not; `Capture` has them apart.
* **Settings**: seeds, saves with the ranges the forms accept, and the three
  readers: a job (span, speed), the gate (limit), the sweep (retention, where hours
  are multiplied into a duration that wraps around).
* **LiveLog**: the ring buffer, `lastLines` and `ffmpegError`, fed with chunks that
  end anywhere in a line; checked against the text as a whole, not against another
  way of splitting it. A run ends well, fails by itself or is cut off by the job's
  context (`ended`), and the look at the context (`RunFailed`) is a later step than the
  end of the run (`RunEnds`), in between which the time may run out too (`over`): the
  code then says "timed out" of a run that gave up by itself, and so may the model. The
  errors of ffprobe, which show its output even when the context is over
  (`extract.go:338`, `347`), are not in it.
* **Lists**: the loop that skips what does not pass a test, as a fold, which
  `ApiClient` and `PlexSignIn` use. (`SelectSeq` would say the same, but its
  definition is hidden from the prover.)
* **ClipQueueProofs**, **AccessProofs**, **SettingsProofs**,
  **ServerRegistryProofs**, **ApiClientProofs**, **CaptureProofs** and
  **PlexSignInProofs** hold the theorems about the modules they are named after
  (`CaptureProofs` also those about `LiveLog`, which it extends as well: the
  output is of the capture's ffmpeg); **SharedLemmas** what several of them rest on: what
  each operator does to a job table, how a fold over a list unrolls, what `Keep`
  keeps.
* The **MC...** modules give the constants their values. Operators commented "Fault:" are not part of any specification:
  each is a plausible bug of the definition below it, and the run named under
  `mutants` finds the property broken with it.

## Not modelled

* `requireAPIKey` is one stateless comparison with the key in force, which `Access`
  is about. The pages that only read, browse folders or render have no state.
* Building, encoding and redacting of URLs, the XML and JSON of the media servers
  and of plex.tv, and `TestConnection` of the backends: the models take what was found
  in an answer, or that there was none.
* The Setup page's forms for mapped paths of remote servers (`mapped` is a constant
  of `Capture`'s servers), credentials of servers, and `togglePlexManual`, which shows or hides
  fields.
* Identifiers are crypto/rand's; the models take any unused value.
* Time stamps are assumed to grow with every write under the lock. A clock that
  stands still or goes back is outside the models.

## Runs

Deadlock is checked except in `live_log`, `api_client`, `plex_signin` and
`capture`, whose instances may come to an end: the last run of a job, or the last
submission or click a bound allows.

| Run | Instance | Shows |
|---|---|---|
| `queue_race` | 2 workers, 1 capture, 3 submissions, 1 DELETE at a time, 1 restart | claims exclusive; running records have a worker; files and logs belong to their attempt; the queue implements `JobLifecycle` |
| `queue_gate` | 3 workers, limit changed twice, 1 failed write, 1 restart | counter exact, limit kept |
| `queue_retention` | 2 captures, 1 worker, 1 DELETE, 2 hours, 1 save, 1 failed write | the sweep takes terminal records only, and their files with them |
| `queue_live` | 2 workers for one slot, 1 capture, 2 submissions, 2 hours, fairness | nothing stays queued or running, expired records and files go |
| `access` | 2 browsers, 1 user, 2 passwords (one refused), 4 keys, 1 failed write, 2 ends | no lock-out, expected key, sessions kept |
| `servers` | 2 requests, 1 worker, 2 ids, 1 failed write, 1 restart | unique ids, tested servers only, added ones stay, learnt paths are right |
| `settings` | environment unset, -1 or 9 at each start, 3 saves, 1 failed write, 2 ends | saved values stick; limit in 1..4 |
| `live_log` | 2 lines kept, 8 characters, chunks of 1 to 3, the time runs out at any point | exact tail for every chunking; a run's error shows its own tail, a cut-off one's none |
| `api_client` | a batch of 2 captures with an incomplete item between them, 2 handlers, 1 worker, 1 lost answer, 1 upset (force, deletion, failed write or end), fairness | polls miss nothing, repeats make nothing again, the batch is delivered |
| `plex_signin` | 2 clicks, 2 ticks each, 3 accounts, 1 failed write, 1 restart, fairness | one identity per pin, local connections first, the sign-in ends |
| `capture` | 2 submissions, 2 speeds, 4 kinds of server, 3 sources, 1 DELETE, 1 failed write, 1 restart | a 304 is true, the record is true, nothing readable is given up |
| `find_restart` | 1 restart, fairness | a job that was running stays running for ever |

*Why the bounds are enough.* A race over a capture needs an attempt, a
replacement of it, and a third party: three submissions, or two and a DELETE. A
capture never reads another's record or files, so a second one matters only for
the sweep, which takes a set, and there are two. The gate compares one worker's
increment with the others': three give two that collide and one that holds a
slot. One failed write makes file and memory differ, and one restart loads the
difference. The settings run uses both sides of each boundary of the forms and the
clamp. In `api_client` one lost answer makes the client repeat a batch whose
handler is still at work, so two take the same items in turn. Two sign-in attempts
are enough for a late answer of one to meet the timer of the other (three attempts
with one tick each were also checked). The sources of `capture` are longer than,
slightly longer than and shorter than what is asked for; two speeds make the input's
or the output's limit the one that decides. A constant `Max...` is a bound; none of them is in the code. In `Settings`
an hour is 3 and a duration has 64 values, so wrapping begins at 11 hours
(2562048 in the code); `ClipQueue` takes retentions below that.

*Fairness of the queue* (`TimedSpec`). Every worker goes on: the ends of ffmpeg are included,
because the job's context has a timeout that kills it. The sweep goes on: its ticker
does. Requests, settings, failures and the clock need not. The gate alone would
starve in an untimed model: a worker that finds nothing still holds its slot when the
next one increments, and so on. The code's window is a few instructions and its
sleep a second, so a sleeper wakes only when nobody is in the window
(`TimelyWake`); workers that wake together still collide.

*Fairness of the others.* `ApiClient`: handlers and workers go on, and the client
keeps posting and polling, as `docs/API.md` tells it to; answers are lost finitely
often. Nobody has to force, delete or restart. `PlexSignIn`: the handlers answer,
because the HTTP client of `plexauth` gives up after ten seconds, and the browser
runs its callbacks and intervals. The user owes nothing: `SignInEnds` is kept by the
150 ticks.

## Proofs

All from the `ASSUME`s of the modules only.

`SharedLemmas`. What a loop computes for lists of any length needs induction.
The library's induction theorems take a predicate as parameter, which the provers
cannot instantiate; but a set of naturals without a smallest counterexample has
none (`Ascending`, from the library's well-foundedness of the naturals), and that is
a statement about sets. A fold is a choice of a recursive function, so first it is
shown that such a function exists (`Solves`, `FoldExists`), and then that the fold over
a list is the last of its rounds (`Rounds`, `KeepUnrolls`). `KeepKeeps` says of the
loop that skips: it keeps exactly what passes, the `i`-th of the list in place
`Place(J, i)`, the number of passing ones up to `i`. For loops that build something else,
`RecursionExists` and `LoopsOn` give one round more per element, and `Growing` is
induction over lists, again about a set: one that holds the empty list and every
longer one holds all.

`ClipQueueProofs`, for any number of captures, workers, handlers, submissions,
failed writes and restarts:

* `TypeCorrect`. `TypeOK` alone is not inductive: a worker's steps use its copy
  as a record, and an ffmpeg that ends needs the file it opened. `Types` adds that a
  worker has a job exactly while it is between claim and the end of `process`
  (`CopyOK`), and that what it is writing exists (`OpenOK`).
* `CounterIsExact`, `GateSafe` (`WithinLimit`). That a worker was let in says
  nothing about how many follow. The inductive fact is `LastSawAll`: among any
  set of workers that hold slots, one saw at least that many when it added its own;
  applied to the admitted ones, and with `seen <= told` for each of these, the
  limit follows.
* `ClaimsExclusive`: `ClaimedOnce`. The inductive part is that a submission
  number belongs to one capture, in memory *and in the file* (a restart loads it),
  is not larger than the last one given out, and that a report always carries a
  terminal state, so it cannot put anything back in the queue.
* `RunningHasWorker`, `LogsAreOfAttempts`: by the actions, on top of the two.
* `QueueImplementsLifecycle`: `ClipQueue` implements `JobLifecycle`. Every step must
  be, for each capture at once, a step of the lifecycle or none. A claim of `done`
  needs both files to be whole and this attempt's, hence `LifeInv`: for every
  promised capture, whoever works on it works on the submission of its record
  (`Fresh`); what the worker has made so far is its own and untouched (`Progress`); a
  done record has its files (`DoneServes`); files without a record are about to be
  removed (`Left`), and files about to be removed have no record (`Doomed`). The last
  two are what a second submission during a DELETE would break, and why such a
  capture counts as disturbed. A restart needs `DiskCurrent`, that the file holds what
  memory holds. `DoneHasItsMedia`, `NothingIsLeft` and `StatesInOrder` (`Orderly`)
  follow from the same invariant.

`AccessProofs`, for any number of browsers, users, keys, failed writes and
restarts: `TypeCorrect`, `NobodyLockedOut` (`NoLockout`) and `KeyAlwaysExpected`
(`KeyExpected`). The inductive invariant adds that requests are in progress only
while the process serves (`InProgress`), and, for the key, what the next start
will do (`KeyInv`): until something is served memory and file agree on it, and
once a key was logged the one *in the file* is always an expected one. That is why a seed from
the environment, which needs a file without a key, cannot replace anything.
`SessionsOutliveRestarts` (`SessionsKept`): as long as no write failed, memory, file
and every cookie have one secret (`OneSecret`).

`SettingsProofs`: `TypeCorrect`, `LimitAlwaysInRange`, `SavedSpeedApplies`
(`SpeedApplies`, which mostly follows from the next and is therefore proved only), and
`SavedValueSticks` (`SavedSticks`), whose invariant `SavedInv` says of memory and of
the file alike that a saved value is there and, where the environment could replace it, marked
as configured: a restart may load either side of a failed write.

`ServerRegistryProofs`, for any number of requests, workers, servers and files:
`TypeCorrect`, `IdsStayUnique`, `ListedWereTested`, `AddedIsKept`, `PathsAreOwn`. First what
`PutServer`, `DeleteServer` and `SetServerReachability` do to a list. Then the
invariant: a copy in a request or a worker may be listed again at any time, so all that
is to hold of listed records must hold of `Records`, the copies included; a worker that
learns a path writes it into a record it fetches anew, which is a mount because a server's
kind never changes (`OneKind`, `AtMounts`).

`ApiClientProofs`: `PollsMissNothing` (`KnownUpToCursor`), for any filter. The
invariant `Abreast` compares an answer that is on its way with the table as it is by
now: what the answer does not hold has a later stamp than all it does. `RepeatsMakeNothingAgain` (`NoRedo`):
claims so far, the one that is due if the capture is queued or absent (`Due`), and one for every handler
that still has to take it with force (`Forcing`) are never more than the chances given
(`Covered`). `TypeCorrect` also covers the answers on their way, which have a newest
record if they have any.

`CaptureProofs`: `TypeCorrect`. `NotModifiedIsTrue` (`CachedIsCurrent`). The tag was read before
the file. The invariant `CaptureInv` says that every tag, of the request in progress and of the cache,
is of a stamp already given, so that a later done record has another one; and what is in the files
at each stage of the worker. `GivesUpOnlyWhenItMust` (`FallsBack`): what a backend
resolved is the one way that would have served the item, if there was any.
`RecordsAreTrue` (`RecordIsTrue`) joins two arguments. From the attempt to the record: at each
stage what was measured is of the file this attempt wrote, and the file is as long as the
arguments made it (`LastsAsAsked`), whichever of the input's and the output's limit decides.
And `FactsAre`, by induction over the streams of any source: the loop of `Probe` takes the first
video stream whose codec is known, and each audio stream in its place.

`LiveLog`, in `CaptureProofs`: `LogShowsTail` (`ShowsTail`): the invariant `RingOK` says that the
buffer holds the last `MaxLines` whole lines of *all* that was written and what
follows them, as `Split` has it of the whole text. A chunk keeps it because a text goes on
in its last part (`SplitGoesOn`) and a ring that drops its oldest line each
time ends up with the last ones (`RingKeepsLast`). That the reader then sees the
end of the text, from the start of a line, is that joining undoes splitting
(`JoinSplit`), that pieces are joined piece by piece (`JoinCut`), and that joined
lines have a newline each (`NewlinesJoined`). `ErrorsAreTails` (`ErrorIsTail`) uses the same
lemmas on the buffer of the run that failed (`TailOfText`), which is what was written to
the log since that run began (`BufferOK`, `RestOf`). `CutOffIsSaid` (`CutOffShowsNoTail`) needs
that a run is only ever cut off when the context is over, and that a context stays
over (`ErrorOK`).

`PlexSignInProofs`: `TypeCorrect`; `IdentityIsStable` (`SameIdentity`), because pins
whose outcome is open belong to the identity that is in use *and in the file*
(`IdentityInv`); `OnlyOneTimer`; and `ButtonComesBack`, the safety half of `SignInEnds`: while the
button is disabled something is under way that enables it. `RowsPreferLocal` (`PrefersLocal`), for any
account: the rows are those `FetchServers` makes of the last account looked up (`Rows`),
`KeepKeeps` says which resource is in which row, and `ChosenConnection` which of its addresses.

Every invariant of the runs is a theorem. Only model-checked is liveness
(`QueuedIsServed`, `RunningEnds`, `ExpiredIsReaped`, `BatchDelivered`,
`SignInEnds`), which is out of the prover's reach.

## Known divergences

One is a run. `RestartKeepsQueue`: `NextQueued` never takes a record that was
running when the process ended, although "a restart shouldn't lose the queue"
(`store.go:7`).

The others are stated as properties beside the modules, each with a `.cfg` that
shows it broken:

| Property | cfg (module) | What happens |
|---|---|---|
| `NeverLockedOut` | `FindLockout` (MCAccess) | `SetLocalLogin` sets the user name before bcrypt can refuse the password (`store.go:458`) |
| `AdoptedPrefixWorks` | `FindPrefix` (MCServerRegistry) | "Use this as the prefix" takes the whole path, which then resolves nothing (`web.go:600`) |
| `SpanApplies` | `FindSpan` (MCSettings) | the built-in duration is filled in, so the saved one is never asked for (`api.go:209-211`) |
| `NeverSkipsRunning` | `FindSkip` (MCClipQueue) | the report of a replaced attempt makes the newer, queued record terminal (`store.go:684`); `model.go:109` says running is never skipped |
| `DeletedMeansGone` | `FindOrphan` (MCClipQueue) | a job deleted while it runs leaves its files for good; `docs/API.md:144` |
| `DoneHasMedia` | `FindMissing` (MCClipQueue) | a late DeleteMedia takes the files of a successor (`api.go:274`) |
| `RunningHasLog` | `FindLog` (MCClipQueue) | the end of a replaced attempt removes the running one's log (`livelog.go:39`) |
| `EnablingAsksEveryone` | `FindSession` (MCAccess) | an old cookie is still good when the login is turned on again; message at `web.go:711` |
| `EditsSurvive` | `FindClobber` (MCServerRegistry) | a worker's write-back undoes an edit made since (`queue.go:266-268`); comment there |
| `RemovedStaysRemoved` | `FindRevived` (MCServerRegistry) | putting a copy back lists a removed server again (`store.go:543`) |
| `NotBeforeRetention` | `FindWrap` (MCSettings) | a retention above 2562047 hours wraps and sweeps everything (`queue.go:138`) |

Also: `docs/API.md:245` promises retries with a delay, and nothing in the code
retries a job. When a job's time runs out while a
server is asked or the frames are counted, the error does not say so, as it does for
the ffmpeg runs (`extract.go:143`); and an attempt cut short because the process ends
may be reported as timed out. A late error of an earlier Plex sign-in
stops the interval of the newer one: the button is enabled again, so the sign-in does
end, but the user has to click once more.

## Plan

Done, in this order: job table and queue, access, registry, settings, live log; then
the lifecycle and its refinement, the API's client, Plex sign-in, one capture from
server to client; proofs of every invariant of these.

Left, should the code grow: the forms for mapped paths of remote servers as edits in `ServerRegistry`
(they go through the same `PutServer` as adopting a path); and a clock that may repeat
a stamp, which the store's strict `since` comparison depends on.
