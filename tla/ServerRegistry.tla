--------------------------- MODULE ServerRegistry ---------------------------
(***************************************************************************)
(* The configured media servers: the list in internal/store, the Setup     *)
(* page's requests that add, test, remove and correct a server, and the    *)
(* workers that look one up, resolve an item through it and write back     *)
(* what they learnt.                                                       *)
(*                                                                         *)
(* Only single store operations are atomic.  A request or a worker keeps a *)
(* copy of a server between reading it and writing it back.                *)
(***************************************************************************)
EXTENDS Integers, Sequences, SequencesExt

CONSTANTS Requests,    \* requests of the Setup page in progress at once
          Workers,     \* workers processing a job
          Ids,         \* server ids; the bound on how many are generated
          NoId,        \* ""
          Share,       \* how the media server's paths of all items begin
          Files,       \* the files of the local mount, relative to it
          MaxFaults,   \* bound: failed writes of the store file
          MaxCrashes   \* bound: ends of the process

\* A path is a sequence of pieces; what matters of one is which others it is
\* a prefix of.  A media server reports a file as Share followed by the path.
NoPath == <<>>
Items  == {Share \o f : f \in Files}

ASSUME IdAssumption     == NoId \notin Ids
ASSUME PathAssumption   == Share # NoPath /\ \A f \in Files : f # NoPath
ASSUME BoundsAssumption == MaxFaults \in Nat /\ MaxCrashes \in Nat

\* "remote" stands for Plex, Kodi and Jellyfin.
Server == [id: Ids, kind: {"local", "remote"},
           from: Items \cup {Share, NoPath},   \* LocalPathFrom
           tried: Items \cup {NoPath},         \* LastAttemptedPath
           reachable: BOOLEAN]                 \* LastReachable

Idle == [op |-> "idle"]

VARIABLES
  servers,  \* s.data.Servers, a slice
  disk,     \* the same in the store file
  web,      \* what each request is doing and has copied
  work,     \* what each worker is doing and has copied
  faults, crashes,
  verified,   \* history: ids saved after a connection test that succeeded
  confirmed,  \* history: ids reported as added and not removed since
  removed,    \* history: ids reported as removed
  attempts    \* history: the items that failed to resolve, by server

histVars == <<verified, confirmed, removed, attempts>>
vars == <<servers, disk, web, work, faults, crashes, histVars>>

-----------------------------------------------------------------------------
(* Store.                                                                  *)

IdsOf(list)   == {list[i].id : i \in DOMAIN list}
Get(list, id) == CHOOSE s \in ToSet(list) : s.id = id

\* Fault: an existing entry is not looked for.
AlwaysAppend(list, s) == Append(list, s)

\* PutServer replaces the first entry with this id, or appends.
PutServer(list, s) ==
  IF s.id \in IdsOf(list)
  THEN [list EXCEPT ![SelectInSeq(list, LAMBDA x : x.id = s.id)] = s]
  ELSE Append(list, s)

\* Fault: the tail of the slice is lost.
CutHere(list, id) == SubSeq(list, 1, SelectInSeq(list, LAMBDA x : x.id = id) - 1)

DeleteServer(list, id) == RemoveAt(list, SelectInSeq(list, LAMBDA x : x.id = id))

SetServerReachability(list, id, ok) ==
  IF id \in IdsOf(list)
  THEN [list EXCEPT ![SelectInSeq(list, LAMBDA x : x.id = id)].reachable = ok]
  ELSE list

WriteOk    == disk' = servers' /\ UNCHANGED faults
WriteFails == faults < MaxFaults /\ faults' = faults + 1 /\ UNCHANGED disk
Write      == WriteOk \/ WriteFails

\* Fault: no id is generated for a new server.
IdAsGiven(id) == NoId

\* PutServer generates an id for a server that has none.
FreshId(id) == id

-----------------------------------------------------------------------------
(* Backends.                                                               *)

\* LocalPath, as far as the mount: what is left of the raw path when the
\* configured prefix is taken away, appended to the mount's own path.
HasLocalPath(s, raw) == s.from # NoPath /\ IsPrefix(s.from, raw)
LocalPath(s, raw)    == SubSeq(raw, Len(s.from) + 1, Len(raw))

\* LocalBackend.Resolve needs a file there: the mount itself is a directory.
Resolvable(s, raw) == HasLocalPath(s, raw) /\ LocalPath(s, raw) \in Files

Init ==
  /\ servers = <<>> /\ disk = <<>>
  /\ web = [r \in Requests |-> Idle] /\ work = [w \in Workers |-> Idle]
  /\ faults = 0 /\ crashes = 0
  /\ verified = {} /\ confirmed = {} /\ removed = {} /\ attempts = {}

-----------------------------------------------------------------------------
(* The Setup page.                                                         *)

StartRequest(r, state) == web[r] = Idle /\ web' = [web EXCEPT ![r] = state]
EndRequest(r)          == web' = [web EXCEPT ![r] = Idle]

\* Fault: the server is saved whatever the test says.
TestedAnyhow(ok) == TRUE

Tested(ok) == ok

\* handleAddServer tests the connection before it saves; a local mount may
\* be added without a prefix.
TestNewServer(r, kind, from, ok) ==
  /\ kind = "remote" => from = NoPath
  /\ Tested(ok)
  /\ StartRequest(r, [op |-> "add", kind |-> kind, from |-> from, ok |-> ok])
  /\ UNCHANGED <<servers, disk, work, faults, crashes, histVars>>

SaveNewServer(r, id) ==
  /\ web[r].op = "add"
  /\ id \notin IdsOf(servers) \cup removed \cup verified \cup confirmed
  /\ servers' = PutServer(servers, [id |-> FreshId(id), kind |-> web[r].kind,
                                    from |-> web[r].from, tried |-> NoPath,
                                    reachable |-> TRUE])
  /\ verified' = IF web[r].ok THEN verified \cup {id} ELSE verified
  /\ \/ WriteOk /\ confirmed' = confirmed \cup {id}
     \/ WriteFails /\ UNCHANGED confirmed
  /\ EndRequest(r)
  /\ UNCHANGED <<work, crashes, removed, attempts>>

\* handleDeleteServer.  An id that is gone already is no error.
RemoveServer(id) ==
  \/ /\ id \in IdsOf(servers)
     /\ servers' = DeleteServer(servers, id)
     /\ \/ WriteOk /\ removed' = removed \cup {id}
        \/ WriteFails /\ UNCHANGED removed
     /\ confirmed' = confirmed \ {id}
     /\ UNCHANGED <<web, work, crashes, verified, attempts>>
  \/ id \notin IdsOf(servers) /\ UNCHANGED vars

\* handleTestServer: the record is read, the connection tested, and the
\* result written to whatever record has the id by then.
TestServer(r, id) ==
  /\ id \in IdsOf(servers)
  /\ StartRequest(r, [op |-> "test", id |-> id])
  /\ UNCHANGED <<servers, disk, work, faults, crashes, histVars>>

RecordReachability(id, ok) ==
  /\ servers' = SetServerReachability(servers, id, ok)
  /\ IF id \in IdsOf(servers) THEN Write ELSE UNCHANGED <<disk, faults>>

ServerTested(r, ok) ==
  /\ web[r].op = "test"
  /\ RecordReachability(web[r].id, ok)
  /\ EndRequest(r)
  /\ UNCHANGED <<work, crashes, histVars>>

\* handleAdoptPath: the whole record is read, changed and put back.
ReadToAdopt(r, id) ==
  /\ id \in IdsOf(servers)
  /\ LET s == Get(servers, id) IN
     /\ s.tried # NoPath
     /\ StartRequest(r, [op |-> "adopt", server |-> [s EXCEPT !.from = s.tried]])
  /\ UNCHANGED <<servers, disk, work, faults, crashes, histVars>>

Adopt(r) ==
  /\ web[r].op = "adopt"
  /\ servers' = PutServer(servers, web[r].server)
  /\ Write
  /\ EndRequest(r)
  /\ UNCHANGED <<work, crashes, histVars>>

-----------------------------------------------------------------------------
(* Workers: the part of process that has to do with the server.            *)

Goto(w, state) == work' = [work EXCEPT ![w] = state]

\* A job for this item is claimed and its server is found.
LookUp(w, id, item) ==
  /\ work[w] = Idle
  /\ id \in IdsOf(servers)
  /\ Goto(w, [op |-> "resolve", server |-> Get(servers, id), item |-> item])
  /\ UNCHANGED <<servers, disk, web, faults, crashes, histVars>>

\* A remote server answers or does not; a local mount needs a file where
\* the copy's prefix puts the item, and may be detached.
Resolved(w) ==
  /\ work[w].op = "resolve"
  /\ work[w].server.kind = "local" => Resolvable(work[w].server, work[w].item)
  /\ RecordReachability(work[w].server.id, TRUE)
  /\ Goto(w, Idle)
  /\ UNCHANGED <<web, crashes, histVars>>

\* Fault: the path is remembered for every kind of server.
AnyKind(s) == TRUE

Learns(s) == s.kind = "local"

NotResolved(w) ==
  LET s == work[w].server IN
  /\ work[w].op = "resolve"
  /\ RecordReachability(s.id, FALSE)
  /\ attempts' = attempts \cup {<<s.id, work[w].item>>}
  /\ Goto(w, IF Learns(s)
             THEN [op |-> "learn", id |-> s.id, item |-> work[w].item]
             ELSE Idle)
  /\ UNCHANGED <<web, crashes, verified, confirmed, removed>>

\* The record is fetched again, to change one field of a fresh copy ...
Refetch(w) ==
  /\ work[w].op = "learn"
  /\ Goto(w, IF work[w].id \in IdsOf(servers)
             THEN [op |-> "put", server |-> [Get(servers, work[w].id)
                                               EXCEPT !.tried = work[w].item]]
             ELSE Idle)
  /\ UNCHANGED <<servers, disk, web, faults, crashes, histVars>>

\* ... which is put back in a second step.
PutLearnt(w) ==
  /\ work[w].op = "put"
  /\ servers' = PutServer(servers, work[w].server)
  /\ Write
  /\ Goto(w, Idle)
  /\ UNCHANGED <<web, crashes, histVars>>

-----------------------------------------------------------------------------
\* The process ends and is started again.
Restart ==
  /\ crashes < MaxCrashes
  /\ crashes' = crashes + 1
  /\ servers' = disk
  /\ web' = [r \in Requests |-> Idle] /\ work' = [w \in Workers |-> Idle]
  /\ UNCHANGED <<disk, faults, histVars>>

SetupPage == \E r \in Requests :
  \/ \E kind \in {"local", "remote"}, from \in {Share, NoPath}, ok \in BOOLEAN :
       TestNewServer(r, kind, from, ok)
  \/ \E id \in Ids : SaveNewServer(r, id) \/ TestServer(r, id) \/ ReadToAdopt(r, id)
  \/ \E ok \in BOOLEAN : ServerTested(r, ok)
  \/ Adopt(r)

Jobs == \E w \in Workers :
  \/ \E id \in Ids, item \in Items : LookUp(w, id, item)
  \/ Resolved(w) \/ NotResolved(w) \/ Refetch(w) \/ PutLearnt(w)

Next == SetupPage \/ (\E id \in Ids : RemoveServer(id)) \/ Jobs \/ Restart

Spec == Init /\ [][Next]_vars

-----------------------------------------------------------------------------
(* Properties.                                                             *)

\* Types; in particular every listed server has an id of its own making.
TypeOK ==
  /\ servers \in Seq(Server) /\ disk \in Seq(Server)
  /\ DOMAIN web = Requests /\ DOMAIN work = Workers
  /\ faults \in Nat /\ crashes \in Nat
  /\ verified \cup confirmed \cup removed \subseteq Ids
  /\ attempts \subseteq Ids \X Items

\* No id is listed twice, whatever is put back after it was removed.
UniqueIds == \A list \in {servers, disk} : IsInjective([i \in DOMAIN list |-> list[i].id])

\* "Test connection verifies before saving": no server is listed that never
\* passed a test.
OnlyVerified == IdsOf(servers) \cup IdsOf(disk) \subseteq verified

\* A server that was reported as added stays listed, in memory and for the
\* next start, until it is removed.
AddedStaysListed == confirmed \subseteq IdsOf(servers) \cap IdsOf(disk)

\* The path the Setup page offers to adopt was submitted for this very
\* server, a local mount, and failed there; and a prefix nobody entered is
\* such a path.
Learnt(s, path) == s.kind = "local" /\ <<s.id, path>> \in attempts
LearntHere ==
  \A s \in ToSet(servers) \cup ToSet(disk) :
    /\ s.tried # NoPath => Learnt(s, s.tried)
    /\ s.from \notin {NoPath, Share} => Learnt(s, s.from)

\* "Server removed.  Jobs already submitted against it will start failing."
RemovedStaysRemoved == removed \cap IdsOf(servers) = {}

\* Comment in process: the record is fetched again "so a concurrent Setup
\* page edit to this same server isn't silently clobbered".  So a worker's
\* step never changes the prefix of a server.
EditsSurvive ==
  [][web' = web =>
       \A id \in IdsOf(servers) \cap IdsOf(servers') :
         crashes' = crashes => Get(servers', id).from = Get(servers, id).from]_vars

\* "Use this as the prefix": with an adopted path as its prefix, the item
\* that was attempted can be read through the mount.
AdoptedPrefixWorks ==
  \A s \in ToSet(servers) :
    s.from \notin {NoPath, Share} => Resolvable(s, s.from)
=============================================================================
