------------------------ MODULE ServerRegistryProofs ------------------------
(***************************************************************************)
(* Theorems about the list of servers, for any number of requests,         *)
(* workers, servers, files, failed writes and restarts.                    *)
(***************************************************************************)
EXTENDS ServerRegistry, WellFoundedInduction, SequenceTheorems, TLAPS

-----------------------------------------------------------------------------
(* What the operations of the store do to a list: which ids and records    *)
(* they leave in it, and that they keep ids apart.                         *)

\* No two entries have the same id.
Apart(list) == \A i, j \in DOMAIN list : list[i].id = list[j].id => i = j

\* The entry the loops of the store stop at.
PositionOf(list, id) == SelectInSeq(list, LAMBDA x : x.id = id)

LEMMA Smallest ==
  ASSUME NEW S \in SUBSET Nat, S # {}
  PROVE  Min(S) \in S
<1>1. PICK m \in S : \A n \in S : ~(<<n, m>> \in OpToRel(<, Nat))
  BY NatLessThanWellFounded, WFMin
<1>2. S \subseteq Nat
  OBVIOUS
<1>3. \A n \in S : ~(n < m)
  BY <1>1, <1>2 DEF OpToRel
<1>4. \A n \in S : m <= n
  BY <1>2, <1>3
<1> QED
  BY <1>4 DEF Min

LEMMA Position ==
  ASSUME NEW list \in Seq(Server), NEW id \in IdsOf(list)
  PROVE  PositionOf(list, id) \in 1 .. Len(list) /\ list[PositionOf(list, id)].id = id
<1> DEFINE S == {j \in 1 .. Len(list) : list[j].id = id}
<1>1. S # {} /\ S \in SUBSET Nat
  BY LenProperties DEF IdsOf
<1>2. Min(S) \in S
  BY <1>1, Smallest
<1>3. PositionOf(list, id) = Min(S)
  BY <1>1 DEF PositionOf, SelectInSeq
<1> QED
  BY <1>2, <1>3

LEMMA Entries ==
  ASSUME NEW list \in Seq(Server)
  PROVE  /\ Len(list) \in Nat /\ DOMAIN list = 1 .. Len(list)
         /\ \A i \in 1 .. Len(list) : list[i] \in Server
         /\ ToSet(list) \subseteq Server /\ IdsOf(list) \subseteq Ids
         /\ IdsOf(list) = {s.id : s \in ToSet(list)}
<1>1. /\ Len(list) \in Nat /\ DOMAIN list = 1 .. Len(list)
      /\ \A i \in 1 .. Len(list) : list[i] \in Server
  BY LenProperties, ElementOfSeq
<1>2. ToSet(list) \subseteq Server
  BY <1>1 DEF ToSet
<1>3. IdsOf(list) = {s.id : s \in ToSet(list)}
  BY <1>1 DEF ToSet, IdsOf
<1> QED
  BY <1>1, <1>2, <1>3 DEF Server

LEMMA GetFinds ==
  ASSUME NEW list \in Seq(Server), NEW id \in IdsOf(list)
  PROVE  Get(list, id) \in ToSet(list) /\ Get(list, id).id = id
BY Entries DEF Get

\* Replacing one entry by another that has its id.
Replaced(list, i, s) == [list EXCEPT ![i] = s]

LEMMA ReplaceKeeps ==
  ASSUME NEW list \in Seq(Server), NEW i \in 1 .. Len(list), NEW s \in Server,
         list[i].id = s.id
  PROVE  /\ Replaced(list, i, s) \in Seq(Server)
         /\ ToSet(Replaced(list, i, s)) \subseteq ToSet(list) \cup {s}
         /\ IdsOf(Replaced(list, i, s)) = IdsOf(list)
         /\ Apart(list) => Apart(Replaced(list, i, s))
<1> DEFINE new == [list EXCEPT ![i] = s]
<1>1. /\ new \in Seq(Server) /\ Len(new) = Len(list)
  BY ExceptSeq
<1>2. /\ DOMAIN list = 1 .. Len(list) /\ DOMAIN new = 1 .. Len(list)
  BY <1>1, Entries
<1>3. \A j \in 1 .. Len(list) : new[j] = IF j = i THEN s ELSE list[j]
  BY <1>2
<1>4. \A j \in 1 .. Len(list) : new[j].id = list[j].id
  BY <1>3
<1> QED
  BY <1>1, <1>2, <1>3, <1>4 DEF ToSet, IdsOf, Apart, Replaced

LEMMA PutKeeps ==
  ASSUME NEW list \in Seq(Server), NEW s \in Server
  PROVE  /\ PutServer(list, s) \in Seq(Server)
         /\ ToSet(PutServer(list, s)) \subseteq ToSet(list) \cup {s}
         /\ IdsOf(PutServer(list, s)) = IdsOf(list) \cup {s.id}
         /\ Apart(list) => Apart(PutServer(list, s))
<1> DEFINE new == PutServer(list, s)
<1>1. CASE s.id \in IdsOf(list)
  <2> DEFINE i == PositionOf(list, s.id)
  <2>1. i \in 1 .. Len(list) /\ list[i].id = s.id
    BY <1>1, Position
  <2>2. new = Replaced(list, i, s)
    BY <1>1 DEF PutServer, PositionOf, Replaced
  <2> HIDE DEF i, new
  <2>3. /\ new \in Seq(Server) /\ ToSet(new) \subseteq ToSet(list) \cup {s}
        /\ IdsOf(new) = IdsOf(list)
        /\ Apart(list) => Apart(new)
    BY <2>1, <2>2, ReplaceKeeps
  <2>4. IdsOf(list) \cup {s.id} = IdsOf(list)
    BY <1>1
  <2> QED
    BY <2>3, <2>4 DEF new
<1>2. CASE s.id \notin IdsOf(list)
  <2>1. new = Append(list, s)
    BY <1>2 DEF PutServer
  <2> HIDE DEF new
  <2>2. /\ new \in Seq(Server) /\ Len(new) = Len(list) + 1
        /\ \A i \in 1 .. Len(list) : new[i] = list[i]
        /\ new[Len(list) + 1] = s
    BY <2>1, AppendProperties
  <2>3. /\ Len(list) \in Nat /\ DOMAIN list = 1 .. Len(list)
        /\ DOMAIN new = 1 .. Len(list) + 1
    BY <2>2, Entries
  <2>4. DOMAIN new = DOMAIN list \cup {Len(list) + 1}
    BY <2>3
  <2>5. ToSet(new) = ToSet(list) \cup {s}
    BY <2>2, <2>3, <2>4 DEF ToSet
  <2>6. IdsOf(new) = IdsOf(list) \cup {s.id}
    BY <2>2, <2>3, <2>4 DEF IdsOf
  <2>7. ASSUME Apart(list) PROVE Apart(new)
    BY <1>2, <2>2, <2>3, <2>4, <2>7 DEF Apart, IdsOf
  <2> QED
    BY <2>2, <2>5, <2>6, <2>7 DEF new
<1> QED
  BY <1>1, <1>2

LEMMA DeleteKeeps ==
  ASSUME NEW list \in Seq(Server), NEW id \in IdsOf(list)
  PROVE  /\ DeleteServer(list, id) \in Seq(Server)
         /\ ToSet(DeleteServer(list, id)) \subseteq ToSet(list)
         /\ IdsOf(list) \ {id} \subseteq IdsOf(DeleteServer(list, id))
         /\ Apart(list) => Apart(DeleteServer(list, id))
<1> DEFINE new == DeleteServer(list, id)
           k == PositionOf(list, id)
           n == Len(list)
           front == SubSeq(list, 1, k - 1)
           back == SubSeq(list, k + 1, n)
<1>1. k \in 1 .. n /\ list[k].id = id
  BY Position
<1>2. new = front \o back
  BY DEF DeleteServer, RemoveAt, PositionOf
<1>3. n \in Nat /\ DOMAIN list = 1 .. n /\ \A i \in 1 .. n : list[i] \in Server
  BY Entries
<1> HIDE DEF new, k, n
<1>4. /\ front \in Seq(Server) /\ Len(front) = k - 1
      /\ \A i \in 1 .. k - 1 : front[i] = list[i]
  BY <1>1, <1>3, SubSeqProperties
<1>5. /\ back \in Seq(Server) /\ Len(back) = n - k
      /\ \A i \in 1 .. n - k : back[i] = list[k + i]
  BY <1>1, <1>3, SubSeqProperties
<1> HIDE DEF front, back
<1>6. /\ new \in Seq(Server) /\ Len(new) = n - 1
      /\ \A i \in 1 .. n - 1 : new[i] = IF i < k THEN list[i] ELSE list[i + 1]
  <2>1. /\ new \in Seq(Server) /\ Len(new) = Len(front) + Len(back)
        /\ \A i \in 1 .. Len(front) + Len(back) :
             new[i] = IF i <= Len(front) THEN front[i] ELSE back[i - Len(front)]
    BY <1>2, <1>4, <1>5, ConcatProperties
  <2>2. k \in Nat /\ k >= 1 /\ k <= n
    BY <1>1, <1>3
  <2>3. Len(front) + Len(back) = n - 1
    BY <1>3, <1>4, <1>5, <2>2
  <2>4. ASSUME NEW i \in 1 .. n - 1
        PROVE  new[i] = IF i < k THEN list[i] ELSE list[i + 1]
    <3>1. new[i] = IF i <= k - 1 THEN front[i] ELSE back[i - (k - 1)]
      BY <1>4, <2>1, <2>3
    <3>2. CASE i < k
      BY <1>4, <2>2, <3>1, <3>2
    <3>3. CASE i >= k
      <4>1. i - (k - 1) \in 1 .. n - k /\ k + (i - (k - 1)) = i + 1
        BY <1>3, <2>2, <3>3
      <4>2. new[i] = back[i - (k - 1)]
        BY <2>2, <3>1, <3>3
      <4> QED
        BY <1>5, <2>2, <3>3, <4>1, <4>2
    <3> QED
      BY <2>2, <3>2, <3>3
  <2> QED
    BY <2>1, <2>3, <2>4
<1>7. DOMAIN new = 1 .. n - 1
  BY <1>6, Entries
<1>8. ToSet(new) \subseteq ToSet(list)
  <2>1. ASSUME NEW i \in 1 .. n - 1 PROVE \E j \in 1 .. n : new[i] = list[j]
    <3>1. i \in 1 .. n /\ i + 1 \in 1 .. n
      BY <1>3
    <3> QED
      BY <1>6, <3>1
  <2> QED
    BY <1>3, <1>7, <2>1 DEF ToSet
<1>9. ASSUME NEW x \in IdsOf(list), x # id PROVE x \in IdsOf(new)
  <2>1. PICK j \in 1 .. n : list[j].id = x
    BY <1>3 DEF IdsOf
  <2>2. j # k
    BY <1>1, <1>9, <2>1
  <2>3. CASE j < k
    BY <1>1, <1>3, <1>6, <1>7, <2>1, <2>3 DEF IdsOf
  <2>4. CASE j > k
    <3>1. j - 1 \in 1 .. n - 1 /\ new[j - 1] = list[j]
      BY <1>1, <1>3, <1>6, <2>1, <2>4
    <3> QED
      BY <1>7, <2>1, <3>1 DEF IdsOf
  <2> QED
    BY <1>1, <1>3, <2>1, <2>2, <2>3, <2>4
<1>10. ASSUME Apart(list) PROVE Apart(new)
  <2> DEFINE At(i) == IF i < k THEN i ELSE i + 1
  <2>1. k \in Nat
    BY <1>1, <1>3
  <2>2. \A i \in 1 .. n - 1 : At(i) \in 1 .. n /\ new[i] = list[At(i)]
    BY <1>3, <1>6, <2>1
  <2>3. \A i, j \in 1 .. n - 1 : At(i) = At(j) => i = j
    BY <1>3, <2>1
  <2> HIDE DEF At
  <2> QED
    BY <1>3, <1>7, <1>10, <2>2, <2>3 DEF Apart
<1> QED
  BY <1>6, <1>8, <1>9, <1>10 DEF new

\* Only a mark changes: every record has a counterpart in the old list.
SameButReachable(s, t) == /\ s.id = t.id /\ s.kind = t.kind
                          /\ s.from = t.from /\ s.tried = t.tried

LEMMA ReachKeeps ==
  ASSUME NEW list \in Seq(Server), NEW id, NEW ok \in BOOLEAN
  PROVE  /\ SetServerReachability(list, id, ok) \in Seq(Server)
         /\ \A s \in ToSet(SetServerReachability(list, id, ok)) :
              \E t \in ToSet(list) : SameButReachable(s, t)
         /\ IdsOf(SetServerReachability(list, id, ok)) = IdsOf(list)
         /\ Apart(list) => Apart(SetServerReachability(list, id, ok))
<1> DEFINE new == SetServerReachability(list, id, ok)
<1>1. CASE id \in IdsOf(list)
  <2> DEFINE i == PositionOf(list, id)
             s == [list[i] EXCEPT !.reachable = ok]
  <2>1. i \in 1 .. Len(list)
    BY <1>1, Position
  <2>2. list[i] \in Server
    BY <2>1, Entries
  <2>3. s \in Server /\ s.id = list[i].id /\ SameButReachable(s, list[i])
    BY <2>2 DEF Server, SameButReachable
  <2>4. new = Replaced(list, i, s)
    BY <1>1 DEF SetServerReachability, PositionOf, Replaced
  <2> HIDE DEF i, s, new
  <2>5. /\ new \in Seq(Server) /\ ToSet(new) \subseteq ToSet(list) \cup {s}
        /\ IdsOf(new) = IdsOf(list)
        /\ Apart(list) => Apart(new)
    BY <2>1, <2>3, <2>4, ReplaceKeeps
  <2>6. list[i] \in ToSet(list)
    BY <2>1, Entries DEF ToSet
  <2>7. \A x \in ToSet(new) : \E t \in ToSet(list) : SameButReachable(x, t)
    BY <2>3, <2>5, <2>6 DEF SameButReachable
  <2> QED
    BY <2>5, <2>7 DEF new
<1>2. CASE id \notin IdsOf(list)
  BY <1>2 DEF SetServerReachability, SameButReachable
<1> QED
  BY <1>1, <1>2

-----------------------------------------------------------------------------
(* The invariant.  A record may come back from a copy somebody holds, so   *)
(* whatever is to hold of listed records must hold of copies as well.      *)

WebStates ==
  {Idle}
  \cup [op : {"add"}, kind : {"local", "remote"}, from : {Share, NoPath}, ok : {TRUE}]
  \cup [op : {"test"}, id : Ids]
  \cup [op : {"adopt"}, server : Server]

WorkStates ==
  {Idle}
  \cup [op : {"resolve"}, server : Server, item : Items]
  \cup [op : {"learn"}, id : Ids, item : Items]
  \cup [op : {"put"}, server : Server]

StatesOK == web \in [Requests -> WebStates] /\ work \in [Workers -> WorkStates]

\* Records that are listed, stored, or held to be put back.
Copies  == {s \in Server : \/ \E r \in Requests : web[r].op = "adopt" /\ web[r].server = s
                           \/ \E w \in Workers : /\ work[w].op \in {"resolve", "put"}
                                                 /\ work[w].server = s}
Records == ToSet(servers) \cup ToSet(disk) \cup Copies

\* What a worker has found not to resolve and is about to remember.
Learning == {p \in Ids \X Items :
               \E w \in Workers : work[w].op = "learn" /\ p = <<work[w].id, work[w].item>>}

ListsOK ==
  /\ servers \in Seq(Server) /\ disk \in Seq(Server)
  /\ Apart(servers) /\ Apart(disk)
  /\ confirmed \subseteq IdsOf(servers) \cap IdsOf(disk)

\* A record's id passed a test, and its paths failed to resolve there.
Sound(s) == /\ s.id \in verified
            /\ s.tried # NoPath => Learnt(s, s.tried)
            /\ s.from \notin {NoPath, Share} => Learnt(s, s.from)

SoundRecords  == \A s \in Records : Sound(s)
SoundLearning == \A p \in Learning : p[1] \in verified /\ p \in attempts

\* A server never changes its kind, and a worker that learns is at a mount.
OneKind  == \A s, t \in Records : s.id = t.id => s.kind = t.kind
AtMounts == \A s \in Records, p \in Learning : s.id = p[1] => s.kind = "local"

Knowledge == SoundRecords /\ SoundLearning /\ OneKind /\ AtMounts

RegistryInv == TypeOK /\ StatesOK /\ ListsOK /\ Knowledge

LEMMA InvInit == Init => RegistryInv
<1> SUFFICES ASSUME Init PROVE RegistryInv
  OBVIOUS
<1>1. servers \in Seq(Server) /\ disk \in Seq(Server) /\ Len(servers) = 0 /\ Len(disk) = 0
  BY EmptySeq DEF Init
<1>2. DOMAIN servers = {} /\ DOMAIN disk = {}
  BY <1>1, Entries
<1>3. StatesOK
  BY DEF Init, StatesOK, WebStates, WorkStates
<1>4. TypeOK
  BY <1>1 DEF Init, TypeOK
<1>5. ListsOK
  BY <1>1, <1>2 DEF Init, ListsOK, Apart
<1>6. Records = {} /\ Learning = {}
  BY <1>2 DEF Init, Records, Learning, Copies, ToSet, Idle
<1> QED
  BY <1>3, <1>4, <1>5, <1>6
  DEF RegistryInv, Knowledge, SoundRecords, SoundLearning, OneKind, AtMounts

LEMMA WebTypes ==
  ASSUME StatesOK, NEW r \in Requests
  PROVE  /\ web[r].op = "add" => /\ web[r].kind \in {"local", "remote"}
                                 /\ web[r].from \in {Share, NoPath} /\ web[r].ok = TRUE
         /\ web[r].op = "test"  => web[r].id \in Ids
         /\ web[r].op = "adopt" => web[r].server \in Server
<1>1. web[r] \in WebStates
  BY DEF StatesOK
<1>2. CASE web[r] = Idle
  BY <1>2 DEF Idle
<1>3. CASE web[r] \in [op : {"add"}, kind : {"local", "remote"},
                        from : {Share, NoPath}, ok : {TRUE}]
  BY <1>3
<1>4. CASE web[r] \in [op : {"test"}, id : Ids]
  BY <1>4
<1>5. CASE web[r] \in [op : {"adopt"}, server : Server]
  BY <1>5
<1> QED
  BY <1>1, <1>2, <1>3, <1>4, <1>5 DEF WebStates

LEMMA WorkTypes ==
  ASSUME StatesOK, NEW w \in Workers
  PROVE  /\ work[w].op = "resolve" => work[w].server \in Server /\ work[w].item \in Items
         /\ work[w].op = "learn"   => work[w].id \in Ids /\ work[w].item \in Items
         /\ work[w].op = "put"     => work[w].server \in Server
<1>1. work[w] \in WorkStates
  BY DEF StatesOK
<1> QED
  BY <1>1 DEF WorkStates, Idle

\* A step that adds no record, only marks and copies.
LEMMA Quiet ==
  ASSUME Knowledge,
         \A s \in Records' : \E t \in Records : SameButReachable(s, t),
         Learning' \subseteq Learning,
         verified \subseteq verified', attempts \subseteq attempts'
  PROVE  Knowledge'
<1>1. SoundRecords'
  BY DEF Knowledge, SoundRecords, Sound, Learnt, SameButReachable
<1>2. SoundLearning'
  BY DEF Knowledge, SoundLearning
<1>3. OneKind'
  BY DEF Knowledge, OneKind, SameButReachable
<1>4. AtMounts'
  BY DEF Knowledge, AtMounts, SameButReachable
<1> QED
  BY <1>1, <1>2, <1>3, <1>4 DEF Knowledge

\* A write leaves in the file what it was, or what is in memory now.
LEMMA Written ==
  ASSUME RegistryInv, Write, servers' \in Seq(Server), Apart(servers)',
         confirmed' \subseteq confirmed,
         confirmed' \subseteq IdsOf(servers)'
  PROVE  ListsOK' /\ faults' \in Nat /\ ToSet(disk)' \subseteq ToSet(disk) \cup ToSet(servers)'
<1>1. disk' = disk \/ disk' = servers'
  BY DEF Write, WriteOk, WriteFails
<1>2. faults' \in Nat
  BY DEF Write, WriteOk, WriteFails, RegistryInv, TypeOK
<1>3. /\ servers \in Seq(Server) /\ disk \in Seq(Server)
      /\ Apart(servers) /\ Apart(disk)
      /\ confirmed \subseteq IdsOf(servers) \cap IdsOf(disk)
  BY DEF RegistryInv, ListsOK
<1>4. disk' \in Seq(Server) /\ Apart(disk)' /\ confirmed' \subseteq IdsOf(disk)'
  BY <1>1, <1>3 DEF Apart, IdsOf
<1> QED
  BY <1>1, <1>2, <1>4 DEF ListsOK, ToSet

-----------------------------------------------------------------------------
(* What the steps do to records, copies and lists.                         *)

LEMMA NoNewCopy ==
  ASSUME StatesOK,
         \A r \in Requests : web'[r] = web[r] \/ web'[r].op # "adopt",
         \A w \in Workers : work'[w] = work[w] \/ work'[w].op \notin {"resolve", "put"}
  PROVE  Copies' \subseteq Copies
BY DEF Copies

LEMMA NothingLearnt ==
  ASSUME \A w \in Workers : work'[w] = work[w] \/ work'[w].op # "learn"
  PROVE  Learning' \subseteq Learning
BY DEF Learning

LEMMA ListsSame ==
  ASSUME RegistryInv, UNCHANGED <<servers, disk, confirmed>>
  PROVE  ListsOK'
BY DEF RegistryInv, ListsOK, Apart, IdsOf

LEMMA Marking ==
  ASSUME RegistryInv, NEW id, NEW ok \in BOOLEAN, RecordReachability(id, ok),
         confirmed' = confirmed
  PROVE  /\ ListsOK' /\ faults' \in Nat
         /\ \A s \in ToSet(servers)' \cup ToSet(disk)' :
              \E t \in ToSet(servers) \cup ToSet(disk) : SameButReachable(s, t)
<1>1. /\ servers \in Seq(Server) /\ Apart(servers)
      /\ confirmed \subseteq IdsOf(servers)
  BY DEF RegistryInv, ListsOK
<1>2. servers' = SetServerReachability(servers, id, ok)
  BY DEF RecordReachability
<1>3. /\ servers' \in Seq(Server) /\ Apart(servers)' /\ IdsOf(servers)' = IdsOf(servers)
      /\ \A s \in ToSet(servers)' : \E t \in ToSet(servers) : SameButReachable(s, t)
  BY <1>1, <1>2, ReachKeeps
<1>4. CASE id \in IdsOf(servers)
  <2>1. Write
    BY <1>4 DEF RecordReachability
  <2>2. ListsOK' /\ faults' \in Nat /\ ToSet(disk)' \subseteq ToSet(disk) \cup ToSet(servers)'
    BY <1>1, <1>3, <2>1, Written
  <2>3. \A s : SameButReachable(s, s)
    BY DEF SameButReachable
  <2> QED
    BY <1>3, <2>2, <2>3
<1>5. CASE id \notin IdsOf(servers)
  <2>1. UNCHANGED <<servers, disk, confirmed, faults>>
    BY <1>5 DEF RecordReachability, SetServerReachability
  <2>2. faults' \in Nat
    BY <2>1 DEF RegistryInv, TypeOK
  <2> QED
    BY <2>1, <2>2, ListsSame DEF SameButReachable, ToSet
<1> QED
  BY <1>4, <1>5

LEMMA Putting ==
  ASSUME RegistryInv, NEW s \in Copies, servers' = PutServer(servers, s), Write,
         confirmed' = confirmed
  PROVE  /\ ListsOK' /\ faults' \in Nat
         /\ ToSet(servers)' \cup ToSet(disk)' \subseteq Records
<1>1. /\ servers \in Seq(Server) /\ Apart(servers)
      /\ confirmed \subseteq IdsOf(servers) /\ s \in Server
  BY DEF RegistryInv, ListsOK, Copies
<1>2. /\ servers' \in Seq(Server) /\ Apart(servers)'
      /\ confirmed' \subseteq IdsOf(servers)'
      /\ ToSet(servers)' \subseteq ToSet(servers) \cup {s}
  BY <1>1, PutKeeps
<1>3. ListsOK' /\ faults' \in Nat /\ ToSet(disk)' \subseteq ToSet(disk) \cup ToSet(servers)'
  BY <1>2, Written
<1> QED
  BY <1>2, <1>3 DEF Records

LEMMA Reassemble ==
  ASSUME StatesOK', ListsOK', Knowledge', faults' \in Nat, crashes' \in Nat,
         (verified \cup confirmed \cup removed \subseteq Ids)',
         (attempts \subseteq Ids \X Items)'
  PROVE  RegistryInv'
BY DEF RegistryInv, TypeOK, StatesOK, ListsOK

\* The step of a request or worker that keeps the lists and the history.
LEMMA Private ==
  ASSUME RegistryInv, StatesOK', Knowledge',
         UNCHANGED <<servers, disk, faults, crashes, histVars>>
  PROVE  RegistryInv'
<1>1. ListsOK'
  BY ListsSame DEF histVars
<1> QED
  BY <1>1, Reassemble DEF RegistryInv, TypeOK, histVars

-----------------------------------------------------------------------------
(* The Setup page.                                                         *)

LEMMA RequestStates ==
  ASSUME StatesOK, NEW r \in Requests, NEW x \in WebStates,
         web' = [web EXCEPT ![r] = x], work' = work
  PROVE  /\ StatesOK' /\ web'[r] = x
         /\ \A q \in Requests : q # r => web'[q] = web[q]
BY DEF StatesOK

LEMMA TestNewServerStep ==
  ASSUME RegistryInv, NEW r \in Requests, NEW kind \in {"local", "remote"},
         NEW from \in {Share, NoPath}, NEW ok \in BOOLEAN,
         TestNewServer(r, kind, from, ok)
  PROVE  RegistryInv'
<1> DEFINE x == [op |-> "add", kind |-> kind, from |-> from, ok |-> ok]
<1>1. ok = TRUE
  BY DEF TestNewServer, Tested
<1>2. x \in WebStates /\ x.op = "add"
  BY <1>1 DEF WebStates
<1>3. StatesOK /\ web' = [web EXCEPT ![r] = x] /\ work' = work
  BY DEF TestNewServer, StartRequest, RegistryInv
<1> HIDE DEF x
<1>4. StatesOK' /\ web'[r] = x /\ \A q \in Requests : q # r => web'[q] = web[q]
  BY <1>2, <1>3, RequestStates
<1>5. Copies' \subseteq Copies
  BY <1>2, <1>3, <1>4, NoNewCopy
<1>6. Learning' \subseteq Learning
  BY <1>3, NothingLearnt
<1>7. UNCHANGED <<servers, disk, faults, crashes, histVars>>
  BY DEF TestNewServer
<1>8. \A s \in Records' : \E t \in Records : SameButReachable(s, t)
  BY <1>5, <1>7 DEF Records, ToSet, SameButReachable
<1>9. Knowledge'
  BY <1>6, <1>7, <1>8, Quiet DEF RegistryInv, histVars
<1> QED
  BY <1>4, <1>7, <1>9, Private

LEMMA TestServerStep ==
  ASSUME RegistryInv, NEW r \in Requests, NEW id \in Ids, TestServer(r, id)
  PROVE  RegistryInv'
<1> DEFINE x == [op |-> "test", id |-> id]
<1>1. x \in WebStates /\ x.op = "test"
  BY DEF WebStates
<1>2. StatesOK /\ web' = [web EXCEPT ![r] = x] /\ work' = work
  BY DEF TestServer, StartRequest, RegistryInv
<1> HIDE DEF x
<1>3. StatesOK' /\ web'[r] = x /\ \A q \in Requests : q # r => web'[q] = web[q]
  BY <1>1, <1>2, RequestStates
<1>4. Copies' \subseteq Copies
  BY <1>1, <1>2, <1>3, NoNewCopy
<1>5. Learning' \subseteq Learning
  BY <1>2, NothingLearnt
<1>6. UNCHANGED <<servers, disk, faults, crashes, histVars>>
  BY DEF TestServer
<1>7. \A s \in Records' : \E t \in Records : SameButReachable(s, t)
  BY <1>4, <1>6 DEF Records, ToSet, SameButReachable
<1>8. Knowledge'
  BY <1>5, <1>6, <1>7, Quiet DEF RegistryInv, histVars
<1> QED
  BY <1>3, <1>6, <1>8, Private

\* What ends a request adds no copy.
LEMMA RequestEnds ==
  ASSUME RegistryInv, NEW r \in Requests, EndRequest(r), work' = work
  PROVE  StatesOK' /\ Copies' \subseteq Copies /\ Learning' \subseteq Learning
<1>1. Idle \in WebStates /\ Idle.op = "idle"
  BY DEF WebStates, Idle
<1>2. StatesOK /\ web' = [web EXCEPT ![r] = Idle]
  BY DEF EndRequest, RegistryInv
<1>3. StatesOK' /\ web'[r] = Idle /\ \A q \in Requests : q # r => web'[q] = web[q]
  BY <1>1, <1>2, RequestStates
<1> QED
  BY <1>1, <1>2, <1>3, NoNewCopy, NothingLearnt

LEMMA ServerTestedStep ==
  ASSUME RegistryInv, NEW r \in Requests, NEW ok \in BOOLEAN, ServerTested(r, ok)
  PROVE  RegistryInv'
<1>1. StatesOK' /\ Copies' \subseteq Copies /\ Learning' \subseteq Learning
  BY RequestEnds DEF ServerTested
<1>2. UNCHANGED <<crashes, histVars>>
  BY DEF ServerTested
<1>3. /\ ListsOK' /\ faults' \in Nat
      /\ \A s \in ToSet(servers)' \cup ToSet(disk)' :
           \E t \in ToSet(servers) \cup ToSet(disk) : SameButReachable(s, t)
  BY <1>2, Marking DEF ServerTested, histVars
<1>4. \A s \in Records' : \E t \in Records : SameButReachable(s, t)
  BY <1>1, <1>3 DEF Records, SameButReachable
<1>5. Knowledge'
  BY <1>1, <1>2, <1>4, Quiet DEF RegistryInv, histVars
<1> QED
  BY <1>1, <1>2, <1>3, <1>5, Reassemble DEF RegistryInv, TypeOK, histVars

LEMMA AdoptStep ==
  ASSUME RegistryInv, NEW r \in Requests, Adopt(r)
  PROVE  RegistryInv'
<1>1. StatesOK' /\ Copies' \subseteq Copies /\ Learning' \subseteq Learning
  BY RequestEnds DEF Adopt
<1>2. UNCHANGED <<crashes, histVars>>
  BY DEF Adopt
<1>3. web[r].server \in Copies
  BY WebTypes DEF Adopt, Copies, RegistryInv
<1>4. /\ ListsOK' /\ faults' \in Nat
      /\ ToSet(servers)' \cup ToSet(disk)' \subseteq Records
  BY <1>2, <1>3, Putting DEF Adopt, histVars
<1>5. \A s \in Records' : \E t \in Records : SameButReachable(s, t)
  BY <1>1, <1>4 DEF Records, SameButReachable
<1>6. Knowledge'
  BY <1>1, <1>2, <1>5, Quiet DEF RegistryInv, histVars
<1> QED
  BY <1>1, <1>2, <1>4, <1>6, Reassemble DEF RegistryInv, TypeOK, histVars

LEMMA RemoveServerStep ==
  ASSUME RegistryInv, NEW id \in Ids, RemoveServer(id)
  PROVE  RegistryInv'
<1>1. ASSUME UNCHANGED vars PROVE RegistryInv'
  <2>1. UNCHANGED <<servers, disk, web, work, faults, crashes, histVars>>
    BY <1>1 DEF vars
  <2>2. StatesOK' /\ Knowledge'
    BY <2>1 DEF RegistryInv, StatesOK, Knowledge, SoundRecords, SoundLearning,
       OneKind, AtMounts, Sound, Learnt, Records, Copies, Learning, ToSet, histVars
  <2> QED
    BY <2>1, <2>2, Private
<1>2. CASE id \in IdsOf(servers) /\ ~UNCHANGED vars
  <2>1. /\ servers' = DeleteServer(servers, id) /\ confirmed' = confirmed \ {id}
        /\ UNCHANGED <<web, work, crashes, verified, attempts>>
        /\ Write /\ removed' \subseteq removed \cup {id}
    BY <1>2 DEF RemoveServer, Write
  <2>2. /\ servers \in Seq(Server) /\ Apart(servers) /\ confirmed \subseteq IdsOf(servers)
    BY DEF RegistryInv, ListsOK
  <2>3. /\ servers' \in Seq(Server) /\ Apart(servers)'
        /\ IdsOf(servers) \ {id} \subseteq IdsOf(servers)'
        /\ ToSet(servers)' \subseteq ToSet(servers)
    BY <1>2, <2>1, <2>2, DeleteKeeps
  <2>4. /\ ListsOK' /\ faults' \in Nat
        /\ ToSet(disk)' \subseteq ToSet(disk) \cup ToSet(servers)'
    BY <2>1, <2>2, <2>3, Written
  <2>5. StatesOK' /\ Copies' = Copies /\ Learning' = Learning
    BY <2>1 DEF RegistryInv, StatesOK, Copies, Learning
  <2>6. \A s \in Records' : \E t \in Records : SameButReachable(s, t)
    BY <2>3, <2>4, <2>5 DEF Records, SameButReachable
  <2>7. Knowledge'
    BY <2>1, <2>5, <2>6, Quiet DEF RegistryInv
  <2> QED
    BY <2>1, <2>4, <2>5, <2>7, Reassemble DEF RegistryInv, TypeOK
<1> QED
  BY <1>1, <1>2 DEF RemoveServer

\* The id of a new server is one no record and no worker knows: whatever is
\* known of passed a test, and so has an id that was given before.
LEMMA SaveNewServerStep ==
  ASSUME RegistryInv, NEW r \in Requests, NEW id \in Ids, SaveNewServer(r, id)
  PROVE  RegistryInv'
<1> DEFINE s == [id |-> id, kind |-> web[r].kind, from |-> web[r].from,
                 tried |-> NoPath, reachable |-> TRUE]
<1>1. /\ web[r].op = "add" /\ id \notin verified
      /\ servers' = PutServer(servers, s)
      /\ EndRequest(r) /\ UNCHANGED <<work, crashes, removed, attempts>>
      /\ \/ WriteOk /\ confirmed' = confirmed \cup {id}
         \/ WriteFails /\ confirmed' = confirmed
  BY Zenon DEF SaveNewServer, FreshId
<1>2. /\ web[r].kind \in {"local", "remote"} /\ web[r].from \in {Share, NoPath}
      /\ web[r].ok = TRUE
  BY <1>1, WebTypes DEF RegistryInv
<1>3. verified' = verified \cup {id}
  BY <1>2 DEF SaveNewServer
<1>4. /\ s \in Server /\ s.id = id /\ s.tried = NoPath /\ s.from \in {Share, NoPath}
  BY <1>2 DEF Server
<1> HIDE DEF s
<1>5. StatesOK' /\ Copies' \subseteq Copies /\ Learning' \subseteq Learning
  BY <1>1, RequestEnds
<1>6. /\ servers \in Seq(Server) /\ Apart(servers)
      /\ disk \in Seq(Server) /\ Apart(disk)
      /\ confirmed \subseteq IdsOf(servers) \cap IdsOf(disk)
  BY DEF RegistryInv, ListsOK
<1>7. /\ servers' \in Seq(Server) /\ Apart(servers)'
      /\ IdsOf(servers)' = IdsOf(servers) \cup {id}
      /\ ToSet(servers)' \subseteq ToSet(servers) \cup {s}
  BY <1>1, <1>4, <1>6, PutKeeps
<1>8. /\ ListsOK' /\ faults' \in Nat
      /\ ToSet(disk)' \subseteq ToSet(disk) \cup ToSet(servers)'
  <2>1. CASE WriteOk /\ confirmed' = confirmed \cup {id}
    <3>1. disk' = servers' /\ faults' = faults
      BY <2>1 DEF WriteOk
    <3>2. Apart(disk)' /\ IdsOf(disk)' = IdsOf(servers)' /\ ToSet(disk)' = ToSet(servers)'
      BY <1>7, <3>1 DEF Apart, IdsOf, ToSet
    <3> QED
      BY <1>6, <1>7, <2>1, <3>1, <3>2 DEF ListsOK, RegistryInv, TypeOK
  <2>2. CASE WriteFails /\ confirmed' = confirmed
    <3>1. Write
      BY <2>2 DEF Write
    <3> QED
      BY <1>6, <1>7, <2>2, <3>1, Written
  <2> QED
    BY <1>1, <2>1, <2>2
<1>9. Records' \subseteq Records \cup {s}
  BY <1>5, <1>7, <1>8 DEF Records
<1>10. Knowledge
  BY DEF RegistryInv
<1>11. SoundRecords' /\ SoundLearning'
  BY <1>1, <1>3, <1>4, <1>5, <1>9, <1>10
  DEF Knowledge, SoundRecords, SoundLearning, Sound, Learnt
<1>12. (\A t \in Records : t.id # id) /\ (\A p \in Learning : p[1] # id)
  BY <1>1, <1>10 DEF Knowledge, SoundRecords, SoundLearning, Sound
<1>13. OneKind' /\ AtMounts'
  BY <1>4, <1>5, <1>9, <1>10, <1>12 DEF Knowledge, OneKind, AtMounts
<1>14. Knowledge'
  BY <1>11, <1>13 DEF Knowledge
<1>15. /\ verified' \subseteq Ids /\ removed' \subseteq Ids /\ confirmed' \subseteq Ids
       /\ attempts' \subseteq Ids \X Items /\ crashes' \in Nat
  BY <1>1, <1>3 DEF RegistryInv, TypeOK
<1> QED
  BY <1>5, <1>8, <1>14, <1>15, Reassemble

\* The copy has the attempted path as its prefix: it is sound because the
\* attempt is.
LEMMA ReadToAdoptStep ==
  ASSUME RegistryInv, NEW r \in Requests, NEW id \in Ids, ReadToAdopt(r, id)
  PROVE  RegistryInv'
<1> DEFINE t == Get(servers, id)
           s == [t EXCEPT !.from = t.tried]
           x == [op |-> "adopt", server |-> s]
<1>1. servers \in Seq(Server) /\ id \in IdsOf(servers)
  BY DEF ReadToAdopt, RegistryInv, ListsOK
<1>2. t \in ToSet(servers) /\ t \in Server /\ t.tried # NoPath
  BY <1>1, GetFinds, Entries DEF ReadToAdopt
<1>3. t \in Records
  BY <1>2 DEF Records
<1> HIDE DEF t
<1>4. /\ s \in Server /\ s.id = t.id /\ s.kind = t.kind
      /\ s.from = t.tried /\ s.tried = t.tried
  BY <1>2 DEF Server
<1> HIDE DEF s
<1>5. x \in WebStates /\ x.op = "adopt" /\ x.server = s
  BY <1>4 DEF WebStates
<1>6. StatesOK /\ web' = [web EXCEPT ![r] = x] /\ work' = work
  BY DEF ReadToAdopt, StartRequest, RegistryInv, s, t
<1> HIDE DEF x
<1>7. StatesOK' /\ web'[r] = x /\ \A q \in Requests : q # r => web'[q] = web[q]
  BY <1>5, <1>6, RequestStates
<1>8. Copies' \subseteq Copies \cup {s}
  BY <1>5, <1>6, <1>7 DEF Copies
<1>9. Learning' \subseteq Learning
  BY <1>6, NothingLearnt
<1>10. UNCHANGED <<servers, disk, faults, crashes, histVars>>
  BY DEF ReadToAdopt
<1>11. Records' \subseteq Records \cup {s}
  BY <1>8, <1>10 DEF Records, ToSet
<1>12. Knowledge
  BY DEF RegistryInv
<1>13. Sound(s)
  BY <1>2, <1>3, <1>4, <1>12 DEF Knowledge, SoundRecords, Sound, Learnt
<1>14. SoundRecords' /\ SoundLearning'
  BY <1>9, <1>10, <1>11, <1>12, <1>13
  DEF Knowledge, SoundRecords, SoundLearning, Sound, Learnt, histVars
<1>15. OneKind' /\ AtMounts'
  BY <1>3, <1>4, <1>9, <1>11, <1>12 DEF Knowledge, OneKind, AtMounts
<1>16. Knowledge'
  BY <1>14, <1>15 DEF Knowledge
<1> QED
  BY <1>7, <1>10, <1>16, Private

-----------------------------------------------------------------------------
(* Workers and the end of the process.                                     *)

LEMMA WorkerStates ==
  ASSUME StatesOK, NEW w \in Workers, NEW x \in WorkStates, Goto(w, x), web' = web
  PROVE  /\ StatesOK' /\ work'[w] = x
         /\ \A v \in Workers : v # w => work'[v] = work[v]
BY DEF StatesOK, Goto

\* A worker that is done with a server.
LEMMA WorkerEnds ==
  ASSUME RegistryInv, NEW w \in Workers, Goto(w, Idle), web' = web
  PROVE  StatesOK' /\ Copies' \subseteq Copies /\ Learning' \subseteq Learning
<1>1. Idle \in WorkStates /\ Idle.op = "idle"
  BY DEF WorkStates, Idle
<1>2. StatesOK
  BY DEF RegistryInv
<1>3. StatesOK' /\ work'[w] = Idle /\ \A v \in Workers : v # w => work'[v] = work[v]
  BY <1>1, <1>2, WorkerStates
<1> QED
  BY <1>1, <1>2, <1>3, NoNewCopy, NothingLearnt

LEMMA LookUpStep ==
  ASSUME RegistryInv, NEW w \in Workers, NEW id \in Ids, NEW item \in Items,
         LookUp(w, id, item)
  PROVE  RegistryInv'
<1> DEFINE s == Get(servers, id)
           x == [op |-> "resolve", server |-> s, item |-> item]
<1>1. servers \in Seq(Server) /\ id \in IdsOf(servers)
  BY DEF LookUp, RegistryInv, ListsOK
<1>2. s \in ToSet(servers) /\ s \in Server
  BY <1>1, GetFinds, Entries
<1> HIDE DEF s
<1>3. x \in WorkStates /\ x.op = "resolve" /\ x.server = s
  BY <1>2 DEF WorkStates
<1>4. StatesOK /\ Goto(w, x) /\ web' = web
  BY DEF LookUp, RegistryInv, s
<1> HIDE DEF x
<1>5. StatesOK' /\ work'[w] = x /\ \A v \in Workers : v # w => work'[v] = work[v]
  BY <1>3, <1>4, WorkerStates
<1>6. Copies' \subseteq Copies \cup {s}
  BY <1>3, <1>4, <1>5 DEF Copies
<1>7. Learning' \subseteq Learning
  BY <1>3, <1>5, NothingLearnt
<1>8. UNCHANGED <<servers, disk, faults, crashes, histVars>>
  BY DEF LookUp
<1>9. \A t \in Records' : \E u \in Records : SameButReachable(t, u)
  BY <1>2, <1>6, <1>8 DEF Records, ToSet, SameButReachable
<1>10. Knowledge'
  BY <1>7, <1>8, <1>9, Quiet DEF RegistryInv, histVars
<1> QED
  BY <1>5, <1>8, <1>10, Private

LEMMA ResolvedStep ==
  ASSUME RegistryInv, NEW w \in Workers, Resolved(w)
  PROVE  RegistryInv'
<1>1. StatesOK' /\ Copies' \subseteq Copies /\ Learning' \subseteq Learning
  BY WorkerEnds DEF Resolved
<1>2. UNCHANGED <<crashes, histVars>>
  BY DEF Resolved
<1>3. /\ ListsOK' /\ faults' \in Nat
      /\ \A s \in ToSet(servers)' \cup ToSet(disk)' :
           \E t \in ToSet(servers) \cup ToSet(disk) : SameButReachable(s, t)
  BY <1>2, Marking DEF Resolved, histVars
<1>4. \A s \in Records' : \E t \in Records : SameButReachable(s, t)
  BY <1>1, <1>3 DEF Records, SameButReachable
<1>5. Knowledge'
  BY <1>1, <1>2, <1>4, Quiet DEF RegistryInv, histVars
<1> QED
  BY <1>1, <1>2, <1>3, <1>5, Reassemble DEF RegistryInv, TypeOK, histVars

\* The attempt is remembered first, and the worker goes on to learn it only
\* from a mount.
LEMMA NotResolvedStep ==
  ASSUME RegistryInv, NEW w \in Workers, NotResolved(w)
  PROVE  RegistryInv'
<1> DEFINE s == work[w].server
           p == <<s.id, work[w].item>>
           x == [op |-> "learn", id |-> s.id, item |-> work[w].item]
<1>1. /\ work[w].op = "resolve" /\ RecordReachability(s.id, FALSE)
      /\ attempts' = attempts \cup {p}
      /\ Goto(w, IF Learns(s) THEN x ELSE Idle)
      /\ UNCHANGED <<web, crashes, verified, confirmed, removed>>
  BY DEF NotResolved
<1>2. s \in Server /\ work[w].item \in Items /\ s \in Copies
  BY <1>1, WorkTypes DEF RegistryInv, Copies
<1>3. p \in Ids \X Items /\ p[1] = s.id /\ s \in Records
  BY <1>2 DEF Server, Records
<1>4. x \in WorkStates /\ x.op = "learn" /\ p = <<x.id, x.item>>
  BY <1>2 DEF WorkStates, Server
<1> HIDE DEF s, p, x
<1>5. /\ ListsOK' /\ faults' \in Nat
      /\ \A t \in ToSet(servers)' \cup ToSet(disk)' :
           \E u \in ToSet(servers) \cup ToSet(disk) : SameButReachable(t, u)
  BY <1>1, Marking
<1>6. /\ StatesOK' /\ Copies' \subseteq Copies
      /\ \/ Learning' \subseteq Learning
         \/ Learns(s) /\ Learning' \subseteq Learning \cup {p}
  <2>1. CASE Learns(s)
    <3>1. StatesOK /\ Goto(w, x) /\ web' = web
      BY <1>1, <2>1 DEF RegistryInv
    <3>2. StatesOK' /\ work'[w] = x /\ \A v \in Workers : v # w => work'[v] = work[v]
      BY <1>4, <3>1, WorkerStates
    <3>3. Copies' \subseteq Copies
      BY <1>4, <3>1, <3>2, NoNewCopy
    <3>4. Learning' \subseteq Learning \cup {p}
      BY <1>4, <3>2 DEF Learning
    <3> QED
      BY <2>1, <3>2, <3>3, <3>4
  <2>2. CASE ~Learns(s)
    BY <1>1, <2>2, WorkerEnds
  <2> QED
    BY <2>1, <2>2
<1>7. \A t \in Records' : \E u \in Records : SameButReachable(t, u)
  BY <1>5, <1>6 DEF Records, SameButReachable
<1>8. Knowledge
  BY DEF RegistryInv
<1>9. SoundRecords'
  BY <1>1, <1>7, <1>8 DEF Knowledge, SoundRecords, Sound, Learnt, SameButReachable
<1>10. SoundLearning'
  BY <1>1, <1>3, <1>6, <1>8 DEF Knowledge, SoundLearning, SoundRecords, Sound
<1>11. OneKind'
  BY <1>7, <1>8 DEF Knowledge, OneKind, SameButReachable
<1>12. AtMounts'
  <2>1. ASSUME NEW t \in Records', NEW q \in Learning', t.id = q[1]
        PROVE  t.kind = "local"
    <3>1. PICK u \in Records : u.id = t.id /\ u.kind = t.kind
      BY <1>7 DEF SameButReachable
    <3>2. CASE q \in Learning
      BY <1>8, <2>1, <3>1, <3>2 DEF Knowledge, AtMounts
    <3>3. CASE q = p /\ Learns(s)
      BY <1>3, <1>8, <2>1, <3>1, <3>3 DEF Knowledge, OneKind, Learns
    <3> QED
      BY <1>6, <3>2, <3>3
  <2> QED
    BY <2>1 DEF AtMounts
<1>13. Knowledge'
  BY <1>9, <1>10, <1>11, <1>12 DEF Knowledge
<1>14. /\ verified' \subseteq Ids /\ removed' \subseteq Ids /\ confirmed' \subseteq Ids
       /\ attempts' \subseteq Ids \X Items /\ crashes' \in Nat
  BY <1>1, <1>3 DEF RegistryInv, TypeOK
<1> QED
  BY <1>5, <1>6, <1>13, <1>14, Reassemble

LEMMA RefetchStep ==
  ASSUME RegistryInv, NEW w \in Workers, Refetch(w)
  PROVE  RegistryInv'
<1>1. UNCHANGED <<servers, disk, web, faults, crashes, histVars>>
  BY DEF Refetch
<1>2. CASE work[w].id \notin IdsOf(servers)
  <2>1. StatesOK' /\ Copies' \subseteq Copies /\ Learning' \subseteq Learning
    BY <1>2, WorkerEnds DEF Refetch
  <2>2. \A s \in Records' : \E t \in Records : SameButReachable(s, t)
    BY <1>1, <2>1 DEF Records, ToSet, SameButReachable
  <2>3. Knowledge'
    BY <1>1, <2>1, <2>2, Quiet DEF RegistryInv, histVars
  <2> QED
    BY <1>1, <2>1, <2>3, Private
<1>3. CASE work[w].id \in IdsOf(servers)
  <2> DEFINE p == <<work[w].id, work[w].item>>
             t == Get(servers, work[w].id)
             s == [t EXCEPT !.tried = work[w].item]
             x == [op |-> "put", server |-> s]
  <2>1. work[w].op = "learn" /\ Goto(w, x) /\ web' = web /\ StatesOK
    BY <1>3 DEF Refetch, RegistryInv
  <2>2. work[w].id \in Ids /\ work[w].item \in Items
    BY <2>1, WorkTypes
  <2>3. p \in Learning /\ p[1] = work[w].id
    BY <2>1, <2>2 DEF Learning
  <2>4. t \in ToSet(servers) /\ t \in Server /\ t.id = work[w].id
    BY <1>3, GetFinds, Entries DEF RegistryInv, ListsOK
  <2>5. t \in Records
    BY <2>4 DEF Records
  <2> HIDE DEF t
  <2>6. /\ s \in Server /\ s.id = t.id /\ s.kind = t.kind /\ s.from = t.from
        /\ s.tried = work[w].item
    BY <2>2, <2>4 DEF Server
  <2>7. Knowledge
    BY DEF RegistryInv
  <2>8. s.kind = "local" /\ <<s.id, s.tried>> \in attempts
    BY <2>3, <2>4, <2>5, <2>6, <2>7 DEF Knowledge, AtMounts, SoundLearning
  <2>9. Sound(s)
    BY <2>5, <2>6, <2>7, <2>8 DEF Knowledge, SoundRecords, Sound, Learnt
  <2> HIDE DEF s, p
  <2>10. x \in WorkStates /\ x.op = "put" /\ x.server = s
    BY <2>6 DEF WorkStates
  <2> HIDE DEF x
  <2>11. StatesOK' /\ work'[w] = x /\ \A v \in Workers : v # w => work'[v] = work[v]
    BY <2>1, <2>10, WorkerStates
  <2>12. Copies' \subseteq Copies \cup {s}
    BY <2>1, <2>10, <2>11 DEF Copies
  <2>13. Learning' \subseteq Learning
    BY <2>10, <2>11, NothingLearnt
  <2>14. Records' \subseteq Records \cup {s}
    BY <1>1, <2>12 DEF Records, ToSet
  <2>15. SoundRecords' /\ SoundLearning'
    BY <1>1, <2>7, <2>9, <2>13, <2>14
    DEF Knowledge, SoundRecords, SoundLearning, Sound, Learnt, histVars
  <2>16. OneKind' /\ AtMounts'
    BY <2>5, <2>6, <2>7, <2>13, <2>14 DEF Knowledge, OneKind, AtMounts
  <2>17. Knowledge'
    BY <2>15, <2>16 DEF Knowledge
  <2> QED
    BY <1>1, <2>11, <2>17, Private
<1> QED
  BY <1>2, <1>3

LEMMA PutLearntStep ==
  ASSUME RegistryInv, NEW w \in Workers, PutLearnt(w)
  PROVE  RegistryInv'
<1>1. StatesOK' /\ Copies' \subseteq Copies /\ Learning' \subseteq Learning
  BY WorkerEnds DEF PutLearnt
<1>2. UNCHANGED <<crashes, histVars>>
  BY DEF PutLearnt
<1>3. work[w].server \in Copies
  BY WorkTypes DEF PutLearnt, Copies, RegistryInv
<1>4. /\ ListsOK' /\ faults' \in Nat
      /\ ToSet(servers)' \cup ToSet(disk)' \subseteq Records
  BY <1>2, <1>3, Putting DEF PutLearnt, histVars
<1>5. \A s \in Records' : \E t \in Records : SameButReachable(s, t)
  BY <1>1, <1>4 DEF Records, SameButReachable
<1>6. Knowledge'
  BY <1>1, <1>2, <1>5, Quiet DEF RegistryInv, histVars
<1> QED
  BY <1>1, <1>2, <1>4, <1>6, Reassemble DEF RegistryInv, TypeOK, histVars

LEMMA RestartStep ==
  ASSUME RegistryInv, Restart
  PROVE  RegistryInv'
<1>1. /\ servers' = disk /\ crashes' = crashes + 1
      /\ UNCHANGED <<disk, faults, histVars>>
      /\ web' = [r \in Requests |-> Idle] /\ work' = [w \in Workers |-> Idle]
  BY DEF Restart
<1>2. StatesOK'
  BY <1>1 DEF StatesOK, WebStates, WorkStates
<1>3. ListsOK'
  BY <1>1 DEF RegistryInv, ListsOK, Apart, IdsOf, histVars
<1>4. Copies' = {} /\ Learning' = {}
  BY <1>1 DEF Copies, Learning, Idle
<1>5. \A s \in Records' : \E t \in Records : SameButReachable(s, t)
  BY <1>1, <1>4 DEF Records, ToSet, SameButReachable
<1>6. Knowledge'
  BY <1>1, <1>4, <1>5, Quiet DEF RegistryInv, histVars
<1> QED
  BY <1>1, <1>2, <1>3, <1>6, Reassemble DEF RegistryInv, TypeOK, histVars

LEMMA InvStep == RegistryInv /\ [Next]_vars => RegistryInv'
<1> SUFFICES ASSUME RegistryInv, [Next]_vars PROVE RegistryInv'
  OBVIOUS
<1>1. CASE SetupPage
  BY <1>1, TestNewServerStep, SaveNewServerStep, TestServerStep, ReadToAdoptStep,
     ServerTestedStep, AdoptStep DEF SetupPage
<1>2. CASE \E id \in Ids : RemoveServer(id)
  BY <1>2, RemoveServerStep
<1>3. CASE Jobs
  BY <1>3, LookUpStep, ResolvedStep, NotResolvedStep, RefetchStep, PutLearntStep
  DEF Jobs
<1>4. CASE Restart
  BY <1>4, RestartStep
<1>5. CASE UNCHANGED vars
  <2>1. UNCHANGED <<servers, disk, web, work, faults, crashes, histVars>>
    BY <1>5 DEF vars
  <2>2. StatesOK' /\ Knowledge'
    BY <2>1 DEF RegistryInv, StatesOK, Knowledge, SoundRecords, SoundLearning,
       OneKind, AtMounts, Sound, Learnt, Records, Copies, Learning, ToSet, histVars
  <2> QED
    BY <2>1, <2>2, Private
<1> QED
  BY <1>1, <1>2, <1>3, <1>4, <1>5 DEF Next

LEMMA InvAlways == Spec => []RegistryInv
BY InvInit, InvStep, PTL DEF Spec

-----------------------------------------------------------------------------
\* Every variable keeps its type; in particular every listed server has one
\* of the ids that are generated.
THEOREM TypeCorrect == Spec => []TypeOK
<1>1. RegistryInv => TypeOK
  BY DEF RegistryInv
<1> QED
  BY <1>1, InvAlways, PTL

\* No id is listed twice, in memory or in the file, whatever copies are put
\* back after their server was removed (PutServer).
THEOREM IdsStayUnique == Spec => []UniqueIds
<1>1. RegistryInv => UniqueIds
  BY DEF RegistryInv, ListsOK, UniqueIds, Apart, IsInjective
<1> QED
  BY <1>1, InvAlways, PTL

\* No server is listed, put back or loaded that never passed a connection
\* test (handleAddServer).
THEOREM ListedWereTested == Spec => []OnlyVerified
<1>1. RegistryInv => OnlyVerified
  BY Entries DEF RegistryInv, ListsOK, Knowledge, SoundRecords, Sound, Records,
     OnlyVerified
<1> QED
  BY <1>1, InvAlways, PTL

\* A server reported as added stays listed, and in the file, until it is
\* removed: no failed write, restart or copy put back loses it.
THEOREM AddedIsKept == Spec => []AddedStaysListed
<1>1. RegistryInv => AddedStaysListed
  BY DEF RegistryInv, ListsOK, AddedStaysListed
<1> QED
  BY <1>1, InvAlways, PTL

\* A path offered for adoption, and a prefix that was adopted, failed to
\* resolve at this very server, which is a local mount (process,
\* handleAdoptPath).
THEOREM PathsAreOwn == Spec => []LearntHere
<1>1. RegistryInv => LearntHere
  BY DEF RegistryInv, Knowledge, SoundRecords, Sound, Records, LearntHere
<1> QED
  BY <1>1, InvAlways, PTL
=============================================================================
