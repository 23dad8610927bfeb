-------------------------- MODULE PlexSignInProofs --------------------------
(***************************************************************************)
(* Theorems about the sign-in with Plex for any number of attempts, timer  *)
(* firings, accounts, failed writes and restarts.                          *)
(***************************************************************************)
EXTENDS PlexSignIn, SharedLemmas

-----------------------------------------------------------------------------
(* Types.                                                                  *)

Pins == {"none", "asked", "made", "refused", "open", "over"}

LEMMA BrokenPoll ==
  ASSUME NEW p \in Poll
  PROVE  /\ [p EXCEPT !.is = "error"] \in Poll
         /\ [p EXCEPT !.is = "error"].of = p.of
         /\ [p EXCEPT !.is = "error"].is = "error"
BY DEF Poll

LEMMA InitTypes == Init => TypeOK
<1> SUFFICES ASSUME Init PROVE TypeOK
  OBVIOUS
<1>1. 0 \in 0 .. Ticks
  BY BoundsAssumption
<1>2. /\ pin \in [Attempts -> Pins] /\ by \in [Attempts -> Nat]
      /\ fired \in [Attempts -> 0 .. Ticks]
  BY <1>1 DEF Init, Pins
<1>3. /\ identity \in Nat /\ saved \in Nat /\ made \in Nat
      /\ faults \in Nat /\ crashes \in Nat
      /\ timer = 0 /\ token = 0 /\ disabled \in BOOLEAN
  BY DEF Init
<1>5. account \in Seq(Resource) /\ offered \in Seq(Row)
  BY DEF Init
<1>4. approved = {} /\ live = {} /\ polls = {} /\ lookups = {}
  BY DEF Init
<1> QED
  BY <1>2, <1>3, <1>4, <1>5 DEF TypeOK, Pins

LEMMA IdentityTypes ==
  ASSUME TypeOK, NEW ok \in BOOLEAN, ClientIdentifier(ok)
  PROVE  /\ identity' \in Nat /\ saved' \in Nat /\ made' \in Nat
         /\ faults' \in Nat
BY DEF TypeOK, ClientIdentifier, idVars

LEMMA ClickTypes == ASSUME TypeOK, NEW a \in Attempts, Click(a) PROVE TypeOK'
BY DEF Click, TypeOK, idVars, formVars

LEMMA CreatePinTypes ==
  ASSUME TypeOK, NEW a \in Attempts, CreatePin(a) PROVE TypeOK'
<1>1. PICK ok \in BOOLEAN : ClientIdentifier(ok)
  BY DEF CreatePin
<1>2. /\ identity' \in Nat /\ saved' \in Nat /\ made' \in Nat
      /\ faults' \in Nat
  BY <1>1, IdentityTypes
<1>3. pin' \in [Attempts -> Pins] /\ by' \in [Attempts -> Nat]
  BY <1>2 DEF CreatePin, TypeOK, Pins
<1> QED
  BY <1>2, <1>3 DEF CreatePin, TypeOK, Pins, pageVars, formVars

LEMMA TickTypes == ASSUME TypeOK, NEW a \in Attempts, Tick(a) PROVE TypeOK'
<1>1. fired[a] + 1 \in 1 .. Ticks /\ fired'[a] = fired[a] + 1
  BY BoundsAssumption DEF Tick, MoreTicks, TypeOK
<1>2. [of |-> a, n |-> fired'[a], as |-> 0, is |-> "sent"] \in Poll
  BY <1>1 DEF Poll
<1>3. fired' \in [Attempts -> 0 .. Ticks] /\ polls' \subseteq Poll
  BY <1>1, <1>2, BoundsAssumption DEF Tick, TypeOK
<1> QED
  BY <1>3 DEF Tick, TypeOK, idVars, plexVars, formVars

\* What an answer can be, and that a poll takes it in place of "sent".
LEMMA AnswerForms ==
  ASSUME TypeOK, NEW p \in polls, AnswerPoll(p)
  PROVE  \E ok \in BOOLEAN, q \in Poll :
           /\ ClientIdentifier(ok)
           /\ polls' = (polls \ {p}) \cup {q}
           /\ q.of = p.of
           /\ q.is \in {"pending", "done"} => ok /\ q.as = identity'
<1>1. p \in Poll
  BY DEF TypeOK
<1>2. ASSUME NEW ok \in BOOLEAN, NEW s \in {"pending", "done", "error"},
             NEW i \in Nat, ClientIdentifier(ok), Answer(p, s, i),
             s = "error" \/ (ok /\ i = identity')
      PROVE  \E k \in BOOLEAN, q \in Poll :
               /\ ClientIdentifier(k)
               /\ polls' = (polls \ {p}) \cup {q}
               /\ q.of = p.of
               /\ q.is \in {"pending", "done"} => k /\ q.as = identity'
  <2> DEFINE r == [p EXCEPT !.is = s, !.as = i]
  <2>1. r \in Poll /\ r.of = p.of /\ r.is = s /\ r.as = i
    BY <1>1 DEF Poll
  <2>2. polls' = (polls \ {p}) \cup {r}
    BY <1>2 DEF Answer
  <2> HIDE DEF r
  <2> QED
    BY <1>2, <2>1, <2>2
<1>3. ASSUME NEW ok \in BOOLEAN, ClientIdentifier(ok) PROVE identity' \in Nat
  BY <1>3, IdentityTypes
<1>4. CASE ClientIdentifier(TRUE) /\ Answer(p, "done", identity')
  BY <1>2, <1>3, <1>4
<1>5. CASE ClientIdentifier(TRUE) /\ Answer(p, "pending", identity')
  BY <1>2, <1>3, <1>5
<1>6. CASE ClientIdentifier(TRUE) /\ Answer(p, "error", identity')
  BY <1>2, <1>3, <1>6
<1>7. CASE ClientIdentifier(FALSE) /\ Answer(p, "error", 0)
  BY <1>2, <1>7
<1> QED
  BY <1>4, <1>5, <1>6, <1>7 DEF AnswerPoll

LEMMA AnswerTypes ==
  ASSUME TypeOK, NEW p \in polls, AnswerPoll(p) PROVE TypeOK'
<1>1. PICK ok \in BOOLEAN, q \in Poll :
        ClientIdentifier(ok) /\ polls' = (polls \ {p}) \cup {q}
  BY AnswerForms
<1>2. /\ identity' \in Nat /\ saved' \in Nat /\ made' \in Nat
      /\ faults' \in Nat
  BY <1>1, IdentityTypes
<1>3. polls' \subseteq Poll
  BY <1>1 DEF TypeOK
<1> QED
  BY <1>2, <1>3 DEF AnswerPoll, TypeOK, plexVars, pageVars, formVars

LEMMA DoneTypes == ASSUME TypeOK, NEW p \in polls, Done(p) PROVE TypeOK'
<1>1. p.of \in Attempts /\ p.n \in 1 .. Ticks
  BY DEF TypeOK, Poll
<1> QED
  BY <1>1 DEF Done, ClearTimer, TypeOK, idVars, plexVars

\* The connection that is chosen is one of the resource's, and local if one is.
LEMMA ChosenConnection ==
  ASSUME NEW r \in Resource, Usable(r)
  PROVE  \E c \in ToSet(r.connections) :
           /\ c = Chosen(r) /\ c \in Connection
           /\ c.local \/ \A d \in ToSet(r.connections) : ~d.local
<1>1. PICK q \in Seq(Connection) : q = r.connections /\ q # <<>>
  BY DEF Resource, Usable
<1>2. PICK n \in Nat : /\ Len(q) = n /\ DOMAIN q = 1 .. n /\ n # 0
                       /\ \A i \in 1 .. n : q[i] \in Connection
  BY <1>1, LenProperties, ElementOfSeq, EmptySeq
<1>3. ToSet(q) = {q[i] : i \in 1 .. n}
  BY <1>2 DEF ToSet
<1> DEFINE I == {i \in 1 .. n : q[i].local}
           k == SelectInSeq(q, IsLocal)
<1>4. k = IF I # {} THEN Min(I) ELSE 0
  BY <1>2 DEF SelectInSeq, IsLocal
<1>5. Chosen(r) = q[IF k = 0 THEN 1 ELSE k]
  BY <1>1 DEF Chosen
<1> HIDE DEF k
<1>6. CASE I = {}
  BY <1>2, <1>3, <1>4, <1>5, <1>6, <1>1
<1>7. CASE I # {}
  <2>1. I \in SUBSET Nat
    OBVIOUS
  <2>2. Min(I) \in I
    <3> HIDE DEF I
    <3> QED
      BY <1>7, <2>1, Smallest DEF Min
  <2>3. k \in 1 .. n /\ q[k].local
    BY <1>4, <1>7, <2>2
  <2>4. Chosen(r) = q[k]
    BY <1>5, <2>3
  <2> HIDE DEF I
  <2> QED
    BY <1>1, <1>2, <1>3, <2>3, <2>4
<1> QED
  BY <1>6, <1>7

\* The rows made of an account.
LEMMA DiscoveredRows ==
  ASSUME NEW resources \in Seq(Resource), NEW J,
         J = {i \in DOMAIN resources : Usable(resources[i])}
  PROVE  /\ Discovered(resources) \in Seq(Row)
         /\ Len(Discovered(resources)) = Place(J, Len(resources))
         /\ \A i \in J : Discovered(resources)[Place(J, i)] = RowOf(resources[i])
<1> DEFINE S == {r \in ToSet(resources) : Usable(r)}
           usable == Keep(resources, S)
<1>1. \A i : i \in J <=> i \in DOMAIN resources /\ resources[i] \in S
  BY DEF ToSet
<1>2. Discovered(resources) = [i \in DOMAIN usable |-> RowOf(usable[i])]
  BY DEF Discovered
<1>3. /\ usable \in Seq(Resource \cap S)
      /\ Len(usable) = Place(J, Len(resources))
      /\ \A i \in J : /\ Place(J, i) \in 1 .. Len(usable)
                      /\ usable[Place(J, i)] = resources[i]
  <2> HIDE DEF S
  <2>1. usable \in Seq(Resource \cap S)
    BY KeepType
  <2>2. Len(usable) = Place(J, Len(resources)) /\ EachInPlace(usable, resources, J)
    BY <1>1, KeepKeeps
  <2> QED
    BY <2>1, <2>2 DEF EachInPlace
<1> HIDE DEF usable
<1>4. PICK n \in Nat : /\ Len(usable) = n /\ DOMAIN usable = 1 .. n
                       /\ \A i \in 1 .. n : usable[i] \in Resource \cap S
  BY <1>3, LenProperties, ElementOfSeq
<1>5. ASSUME NEW i \in 1 .. n PROVE RowOf(usable[i]) \in Row
  <2>1. usable[i] \in Resource /\ Usable(usable[i])
    BY <1>4
  <2>2. Chosen(usable[i]) \in Connection
    BY <2>1, ChosenConnection
  <2> QED
    BY <2>1, <2>2 DEF RowOf, Row, Resource, Connection
<1>6. Discovered(resources) \in Seq(Row) /\ Len(Discovered(resources)) = n
  <2>1. Discovered(resources) \in [1 .. n -> Row]
    BY <1>2, <1>4, <1>5
  <2> QED
    BY <2>1
<1> QED
  BY <1>2, <1>3, <1>4, <1>6

LEMMA LookupTypes == ASSUME TypeOK, NEW l \in lookups, Lookup(l) PROVE TypeOK'
<1>1. PICK ok \in BOOLEAN : ClientIdentifier(ok)
  BY DEF Lookup
<1>2. /\ identity' \in Nat /\ saved' \in Nat /\ made' \in Nat
      /\ faults' \in Nat
  BY <1>1, IdentityTypes
<1>3. account' \in Seq(Resource) /\ offered' \in Seq(Row)
  <2>1. \A resources \in Accounts :
          resources \in Seq(Resource) /\ Discovered(resources) \in Seq(Row)
    BY AccountsAssumption, DiscoveredRows
  <2> QED
    BY <2>1 DEF Lookup, TypeOK
<1> QED
  BY <1>2, <1>3 DEF Lookup, TypeOK, plexVars

LEMMA RestartTypes == TypeOK /\ Restart => TypeOK'
<1> SUFFICES ASSUME TypeOK, Restart PROVE TypeOK'
  OBVIOUS
<1>1. pin' \in [Attempts -> Pins]
  BY DEF Restart, TypeOK, Pins
<1>2. polls' \subseteq Poll
  BY BrokenPoll DEF Restart, TypeOK
<1>3. identity' \in Nat /\ crashes' \in Nat
  BY DEF Restart, TypeOK
<1> QED
  BY <1>1, <1>2, <1>3 DEF Restart, TypeOK, Pins, pageVars, formVars

LEMMA OpenedTypes == ASSUME TypeOK, NEW a \in Attempts, Opened(a) PROVE TypeOK'
BY DEF Opened, SetTimer, TypeOK, idVars, formVars

LEMMA NotOpenedTypes ==
  ASSUME TypeOK, NEW a \in Attempts, NotOpened(a) PROVE TypeOK'
BY DEF NotOpened, TypeOK, idVars, formVars

LEMMA TypesStep == TypeOK /\ [Next]_vars => TypeOK'
<1> SUFFICES ASSUME TypeOK, [Next]_vars PROVE TypeOK'
  OBVIOUS
<1>1. ASSUME NEW a \in Attempts, Click(a) PROVE TypeOK'
  BY <1>1, ClickTypes
<1>2. ASSUME NEW a \in Attempts, Approve(a) PROVE TypeOK'
  BY <1>2 DEF Approve, TypeOK, idVars, pageVars, formVars
<1>3. ASSUME NEW a \in Attempts, CreatePin(a) PROVE TypeOK'
  BY <1>3, CreatePinTypes
<1>4. ASSUME NEW p \in polls, AnswerPoll(p) PROVE TypeOK'
  BY <1>4, AnswerTypes
<1>5. ASSUME NEW a \in Attempts, Opened(a) PROVE TypeOK'
  BY <1>5, OpenedTypes
<1>6. ASSUME NEW a \in Attempts, NotOpened(a) PROVE TypeOK'
  BY <1>6, NotOpenedTypes
<1>7. ASSUME NEW a \in Attempts, Tick(a) PROVE TypeOK'
  BY <1>7, TickTypes
<1>8. ASSUME NEW a \in Attempts, TimeOut(a) PROVE TypeOK'
  BY <1>8 DEF TimeOut, ClearTimer, TypeOK, idVars, plexVars, formVars
<1>9. ASSUME NEW p \in polls, Pending(p) PROVE TypeOK'
  BY <1>9 DEF Pending, TypeOK, idVars, plexVars, pageVars, formVars
<1>10. ASSUME NEW p \in polls, Done(p) PROVE TypeOK'
  BY <1>10, DoneTypes
<1>11. ASSUME NEW p \in polls, Failed(p) PROVE TypeOK'
  BY <1>11 DEF Failed, GiveUp, ClearTimer, TypeOK, idVars, plexVars, formVars
<1>12. ASSUME NEW l \in lookups, Lookup(l) PROVE TypeOK'
  BY <1>12, LookupTypes
<1>13. CASE OtherWrite
  BY <1>13 DEF OtherWrite, TypeOK, plexVars, pageVars, formVars
<1>14. CASE Restart
  BY <1>14, RestartTypes
<1>15. CASE UNCHANGED vars
  BY <1>15 DEF vars, TypeOK
<1> QED
  BY <1>1, <1>2, <1>3, <1>4, <1>5, <1>6, <1>7, <1>8, <1>9, <1>10, <1>11,
     <1>12, <1>13, <1>14, <1>15 DEF Next, Server, Page

\* Every variable keeps its type, for any number of attempts and firings.
THEOREM TypeCorrect == Spec => []TypeOK
BY InitTypes, TypesStep, PTL DEF Spec

-----------------------------------------------------------------------------
(* The identity a pin was created with is the one it is polled with.  As   *)
(* long as no write failed before a restart, the identity of a pin that    *)
(* can still be polled is the current one; and without a failed write the  *)
(* current one is the saved one, which is what a restart brings back.      *)

Lasting == faults = 0 \/ crashes = 0

PinsCurrent ==
  \A a \in Attempts : pin[a] \in {"made", "open"} => identity # 0 /\ by[a] = identity

PollsOfOpen == /\ \A a \in live : pin[a] = "open"
               /\ \A p \in polls : pin[p.of] = "open"

AnsweredAsMade == \A p \in polls : p.is \in {"pending", "done"} => p.as = by[p.of]

IdentityInv == /\ PollsOfOpen
               /\ faults = 0 => saved = identity
               /\ Lasting => PinsCurrent /\ AnsweredAsMade

LEMMA IdentityInit == Init => IdentityInv
<1> SUFFICES ASSUME Init PROVE IdentityInv
  OBVIOUS
<1>1. /\ polls = {} /\ live = {} /\ saved = 0 /\ identity = 0
      /\ \A a \in Attempts : pin[a] = "none"
  BY DEF Init
<1> QED
  BY <1>1 DEF IdentityInv, PollsOfOpen, PinsCurrent, AnsweredAsMade

\* An identity stays once there is one; one that is made up without a failed
\* write is saved.
LEMMA IdentityKept ==
  ASSUME TypeOK, IdentityInv, NEW ok \in BOOLEAN, ClientIdentifier(ok)
  PROVE  /\ identity # 0 => identity' = identity
         /\ faults' = 0 => faults = 0 /\ saved' = identity'
         /\ ok => identity' # 0
BY DEF TypeOK, IdentityInv, ClientIdentifier, idVars

LEMMA CreatePinIdentity ==
  ASSUME TypeOK, IdentityInv, NEW a \in Attempts, CreatePin(a)
  PROVE  IdentityInv'
<1>1. PICK ok \in BOOLEAN :
        /\ ClientIdentifier(ok)
        /\ \/ /\ ok /\ pin' = [pin EXCEPT ![a] = "made"]
              /\ by' = [by EXCEPT ![a] = identity']
           \/ pin' = [pin EXCEPT ![a] = "refused"] /\ UNCHANGED by
  BY DEF CreatePin
<1>2. /\ identity # 0 => identity' = identity
      /\ faults' = 0 => faults = 0 /\ saved' = identity'
      /\ ok => identity' # 0
  BY <1>1, IdentityKept
<1>3. /\ pin[a] = "asked" /\ pin \in [Attempts -> Pins] /\ by \in [Attempts -> Nat]
      /\ polls' = polls /\ live' = live /\ crashes' = crashes
      /\ \A p \in polls : p.of \in Attempts
      /\ live \subseteq Attempts
  BY DEF CreatePin, TypeOK, Pins, Poll, pageVars
<1>4. /\ \A b \in Attempts : b # a => pin'[b] = pin[b] /\ by'[b] = by[b]
      /\ pin'[a] \in {"made", "refused"}
      /\ pin'[a] = "made" => ok /\ by'[a] = identity'
  BY <1>1, <1>3
<1>5. \A p \in polls : p.of # a
  BY <1>3 DEF IdentityInv, PollsOfOpen
<1>6. PollsOfOpen'
  BY <1>3, <1>4, <1>5 DEF IdentityInv, PollsOfOpen
<1>7. Lasting' => Lasting
  BY <1>2, <1>3 DEF Lasting
<1>8. Lasting' => PinsCurrent'
  BY <1>2, <1>4, <1>7 DEF IdentityInv, PinsCurrent
<1>9. Lasting' => AnsweredAsMade'
  BY <1>3, <1>4, <1>5, <1>7 DEF IdentityInv, AnsweredAsMade
<1> QED
  BY <1>2, <1>6, <1>8, <1>9 DEF IdentityInv

LEMMA AnswerIdentity ==
  ASSUME TypeOK, IdentityInv, NEW p \in polls, AnswerPoll(p)
  PROVE  IdentityInv'
<1>1. PICK ok \in BOOLEAN, q \in Poll :
        /\ ClientIdentifier(ok)
        /\ polls' = (polls \ {p}) \cup {q}
        /\ q.of = p.of
        /\ q.is \in {"pending", "done"} => ok /\ q.as = identity'
  BY AnswerForms
<1>2. /\ identity # 0 => identity' = identity
      /\ faults' = 0 => faults = 0 /\ saved' = identity'
      /\ ok => identity' # 0
  BY <1>1, IdentityKept
<1>3. /\ pin' = pin /\ by' = by /\ live' = live /\ crashes' = crashes
      /\ p.of \in Attempts
  BY DEF AnswerPoll, plexVars, pageVars, TypeOK, Poll
<1>4. PollsOfOpen'
  BY <1>1, <1>3 DEF IdentityInv, PollsOfOpen
<1>5. Lasting' => Lasting
  BY <1>2, <1>3 DEF Lasting
<1>6. Lasting' => PinsCurrent'
  BY <1>2, <1>3, <1>5 DEF IdentityInv, PinsCurrent
<1>7. Lasting' /\ q.is \in {"pending", "done"} => q.as = by[q.of]
  <2>1. pin[p.of] = "open"
    BY DEF IdentityInv, PollsOfOpen
  <2> QED
    BY <1>1, <1>2, <1>3, <1>5, <2>1 DEF IdentityInv, PinsCurrent
<1>8. Lasting' => AnsweredAsMade'
  BY <1>1, <1>3, <1>5, <1>7 DEF IdentityInv, AnsweredAsMade
<1> QED
  BY <1>2, <1>4, <1>6, <1>8 DEF IdentityInv

LEMMA LookupIdentity ==
  ASSUME TypeOK, IdentityInv, NEW l \in lookups, Lookup(l)
  PROVE  IdentityInv'
<1>1. PICK ok \in BOOLEAN : ClientIdentifier(ok)
  BY DEF Lookup
<1>2. /\ identity # 0 => identity' = identity
      /\ faults' = 0 => faults = 0 /\ saved' = identity'
  BY <1>1, IdentityKept
<1>3. UNCHANGED <<pin, by, live, polls, crashes>>
  BY DEF Lookup, plexVars
<1> QED
  BY <1>2, <1>3
  DEF IdentityInv, Lasting, PinsCurrent, PollsOfOpen, AnsweredAsMade

\* The pin moves on; nothing else about it changes.
LEMMA PinMoves ==
  ASSUME TypeOK, IdentityInv, NEW a \in Attempts, NEW s \in Pins,
         pin[a] # "open", pin' = [pin EXCEPT ![a] = s],
         s \in {"made", "open"} => pin[a] = "made",
         UNCHANGED <<identity, saved, by, polls, faults, crashes>>,
         live' \subseteq live \/ (live' \subseteq live \cup {a} /\ s = "open")
  PROVE  IdentityInv'
<1>1. /\ pin \in [Attempts -> Pins] /\ live \subseteq Attempts
      /\ \A p \in polls : p.of \in Attempts
  BY DEF TypeOK, Pins, Poll
<1>2. \A b \in Attempts : pin'[b] = IF b = a THEN s ELSE pin[b]
  BY <1>1
<1>3. PollsOfOpen'
  BY <1>1, <1>2 DEF IdentityInv, PollsOfOpen
<1>4. Lasting' = Lasting
  BY DEF Lasting
<1>5. PinsCurrent => PinsCurrent'
  BY <1>2 DEF PinsCurrent
<1>6. AnsweredAsMade => AnsweredAsMade'
  BY DEF AnsweredAsMade
<1> QED
  BY <1>3, <1>4, <1>5, <1>6 DEF IdentityInv

\* The page takes polls back and stops its timer.
LEMMA PollsGo ==
  ASSUME IdentityInv, polls' \subseteq polls, live' \subseteq live,
         UNCHANGED <<identity, pin, by, faults, crashes>>,
         saved' = saved \/ saved' = identity
  PROVE  IdentityInv'
BY DEF IdentityInv, Lasting, PinsCurrent, PollsOfOpen, AnsweredAsMade

LEMMA TickIdentity ==
  ASSUME TypeOK, IdentityInv, NEW a \in Attempts, Tick(a)
  PROVE  IdentityInv'
<1>1. PICK q : q.of = a /\ q.is = "sent" /\ polls' = polls \cup {q}
  BY DEF Tick
<1>2. a \in live
  BY DEF Tick
<1> QED
  BY <1>1, <1>2 DEF Tick, IdentityInv, Lasting, PinsCurrent, PollsOfOpen,
                    AnsweredAsMade, idVars, plexVars

LEMMA RestartIdentity ==
  ASSUME TypeOK, IdentityInv, Restart
  PROVE  IdentityInv'
<1>1. /\ \A a \in Attempts :
           pin'[a] = IF pin[a] = "asked" THEN "refused" ELSE pin[a]
      /\ live \subseteq Attempts
  BY DEF Restart, TypeOK
<1>2. \A q \in polls' : \E p \in polls :
        /\ p.of \in Attempts /\ q.of = p.of
        /\ q.is \in {"pending", "done"} => q.is = p.is /\ q.as = p.as
  <2> SUFFICES ASSUME NEW p \in polls,
                      NEW q, q = IF p.is = "sent" THEN [p EXCEPT !.is = "error"] ELSE p
               PROVE  /\ p.of \in Attempts /\ q.of = p.of
                      /\ q.is \in {"pending", "done"} => q.is = p.is /\ q.as = p.as
    BY DEF Restart
  <2>1. p \in Poll
    BY DEF TypeOK
  <2> QED
    BY <2>1, BrokenPoll DEF Poll
<1>3. PollsOfOpen'
  BY <1>1, <1>2 DEF Restart, pageVars, IdentityInv, PollsOfOpen
<1>4. faults' = 0 => saved' = identity'
  BY DEF Restart
<1>5. Lasting' => faults = 0 /\ identity' = identity
  BY DEF Lasting, Restart, TypeOK, IdentityInv
<1>6. Lasting' => PinsCurrent'
  BY <1>1, <1>5 DEF Restart, Lasting, IdentityInv, PinsCurrent
<1>7. Lasting' => AnsweredAsMade'
  BY <1>2, <1>5 DEF Restart, Lasting, IdentityInv, AnsweredAsMade
<1> QED
  BY <1>3, <1>4, <1>6, <1>7 DEF IdentityInv

LEMMA IdentityStep == TypeOK /\ IdentityInv /\ [Next]_vars => IdentityInv'
<1> SUFFICES ASSUME TypeOK, IdentityInv, [Next]_vars PROVE IdentityInv'
  OBVIOUS
<1>1. ASSUME NEW a \in Attempts, Click(a) PROVE IdentityInv'
  BY <1>1, PinMoves DEF Click, Pins, idVars
<1>2. ASSUME NEW a \in Attempts, CreatePin(a) PROVE IdentityInv'
  BY <1>2, CreatePinIdentity
<1>3. ASSUME NEW p \in polls, AnswerPoll(p) PROVE IdentityInv'
  BY <1>3, AnswerIdentity
<1>4. ASSUME NEW a \in Attempts, Opened(a) PROVE IdentityInv'
  <2>1. live' \subseteq live \cup {a}
    BY <1>4 DEF Opened, SetTimer
  <2> QED
    BY <1>4, <2>1, PinMoves DEF Opened, Pins, idVars
<1>5. ASSUME NEW a \in Attempts, NotOpened(a) PROVE IdentityInv'
  BY <1>5, PinMoves DEF NotOpened, Pins, idVars
<1>6. ASSUME NEW a \in Attempts, Tick(a) PROVE IdentityInv'
  BY <1>6, TickIdentity
<1>7. ASSUME NEW a \in Attempts, TimeOut(a) PROVE IdentityInv'
  BY <1>7, PollsGo DEF TimeOut, ClearTimer, idVars, plexVars
<1>8. ASSUME NEW p \in polls, Pending(p) \/ Done(p) \/ Failed(p) PROVE IdentityInv'
  BY <1>8, PollsGo
  DEF Pending, Done, Failed, GiveUp, ClearTimer, idVars, plexVars, pageVars
<1>9. ASSUME NEW l \in lookups, Lookup(l) PROVE IdentityInv'
  BY <1>9, LookupIdentity
<1>10. ASSUME NEW a \in Attempts, Approve(a) PROVE IdentityInv'
  BY <1>10, PollsGo DEF Approve, idVars, pageVars
<1>11. CASE OtherWrite
  BY <1>11, PollsGo DEF OtherWrite, plexVars, pageVars
<1>12. CASE Restart
  BY <1>12, RestartIdentity
<1>13. CASE UNCHANGED vars
  BY <1>13, PollsGo DEF vars
<1> QED
  BY <1>1, <1>2, <1>3, <1>4, <1>5, <1>6, <1>7, <1>8, <1>9, <1>10, <1>11,
     <1>12, <1>13 DEF Next, Server, Page

LEMMA IdentityImplies == IdentityInv => SameIdentity
BY DEF IdentityInv, Lasting, AnsweredAsMade, SameIdentity

\* Every poll that got an answer was made as the identity that created its
\* pin, across restarts, as long as no write had failed before one: plex.tv
\* never withholds a token that was approved.
THEOREM IdentityIsStable == Spec => []SameIdentity
BY InitTypes, TypesStep, IdentityInit, IdentityStep, IdentityImplies, PTL DEF Spec

-----------------------------------------------------------------------------
(* The page.                                                               *)

LEMMA OneTimerStep == OneTimer /\ [Next]_vars => OneTimer'
<1> SUFFICES ASSUME OneTimer, [Next]_vars PROVE OneTimer'
  OBVIOUS
<1>1. ASSUME NEW a \in Attempts, Opened(a) PROVE OneTimer'
  BY <1>1 DEF Opened, SetTimer, OneTimer
<1>2. CASE timer' = timer /\ live' \subseteq live
  BY <1>2 DEF OneTimer
<1> QED
  BY <1>1, <1>2
  DEF Next, Server, Page, Click, Approve, CreatePin, AnswerPoll, NotOpened, Tick,
      TimeOut, Pending, Done, Failed, GiveUp, ClearTimer, Lookup, OtherWrite,
      Restart, vars, pageVars

LEMMA OneTimerInit == Init => OneTimer
BY DEF Init, OneTimer

\* The page never loses hold of an interval: the one that fires, if any, is
\* the one plexPollTimer names, although attempts overlap.
THEOREM OnlyOneTimer == Spec => []OneTimer
BY OneTimerInit, OneTimerStep, PTL DEF Spec

LEMMA StillComingInit == Init => StillComing
BY DEF Init, StillComing

LEMMA StillComingStep == TypeOK /\ StillComing /\ [Next]_vars => StillComing'
<1> SUFFICES ASSUME TypeOK, StillComing, [Next]_vars PROVE StillComing'
  OBVIOUS
<1>0. pin \in [Attempts -> Pins]
  BY DEF TypeOK, Pins
<1>1. ASSUME NEW a \in Attempts, Click(a) PROVE StillComing'
  BY <1>0, <1>1 DEF Click, StillComing
<1>2. ASSUME NEW a \in Attempts, CreatePin(a) PROVE StillComing'
  BY <1>0, <1>2 DEF CreatePin, StillComing
<1>3. ASSUME NEW a \in Attempts, Opened(a) PROVE StillComing'
  BY <1>3 DEF Opened, SetTimer, StillComing
<1>4. ASSUME NEW p \in polls, Done(p) PROVE StillComing'
  BY <1>4 DEF Done, StillComing
<1>5. CASE Restart
  BY <1>5 DEF Restart, StillComing, pageVars
<1>6. CASE ~disabled'
  BY <1>6 DEF StillComing
<1>7. CASE UNCHANGED <<disabled, live, lookups, pin>>
  BY <1>7 DEF StillComing
<1> QED
  BY <1>1, <1>2, <1>3, <1>4, <1>5, <1>6, <1>7
  DEF Next, Server, Page, Approve, AnswerPoll, NotOpened, Tick, TimeOut,
      Pending, Failed, GiveUp, Lookup, OtherWrite, vars, plexVars, pageVars

\* The button is never disabled with nothing under way that will enable it,
\* although a callback of one attempt stops the timer of another.
THEOREM ButtonComesBack == Spec => []StillComing
BY InitTypes, TypesStep, StillComingInit, StillComingStep, PTL DEF Spec

-----------------------------------------------------------------------------
(* The rows.  They are the ones made of the last account that had any.     *)

Rows == account \in Seq(Resource) /\ offered = Discovered(account)

LEMMA RowsInit == Init => Rows
<1> SUFFICES ASSUME Init PROVE Rows
  OBVIOUS
<1> DEFINE J == {i \in DOMAIN account : Usable(account[i])}
<1>1. account = <<>> /\ account \in Seq(Resource) /\ offered = <<>> /\ Len(<<>>) = 0
  BY DEF Init
<1>2. Discovered(account) \in Seq(Row) /\ Len(Discovered(account)) = Place(J, Len(account))
  BY <1>1, DiscoveredRows
<1>3. Len(Discovered(account)) = 0
  BY <1>1, <1>2, Places
<1> QED
  BY <1>1, <1>2, <1>3, EmptySeq DEF Rows

LEMMA RowsStep == Rows /\ [Next]_vars => Rows'
<1> SUFFICES ASSUME Rows, [Next]_vars PROVE Rows'
  OBVIOUS
<1>1. CASE UNCHANGED <<account, offered>>
  BY <1>1 DEF Rows
<1>2. ASSUME NEW l \in lookups, Lookup(l) PROVE Rows'
  BY <1>1, <1>2, AccountsAssumption DEF Lookup, Rows
<1> QED
  BY <1>1, <1>2
  DEF Next, Server, Page, Click, Approve, CreatePin, AnswerPoll, Opened, NotOpened,
      Tick, TimeOut, Pending, Done, Failed, OtherWrite, Restart, vars, formVars

\* What the page offers are the servers of the account that can be reached,
\* every one of them and in its order, under a local address where there is
\* one, for any account (plexauth.FetchServers).
THEOREM RowsPreferLocal == Spec => []PrefersLocal
<1>1. Rows => PrefersLocal
  <2> SUFFICES ASSUME Rows PROVE PrefersLocal
    OBVIOUS
  <2> DEFINE J == {i \in DOMAIN account : Usable(account[i])}
             UsableUpTo(k) == {j \in 1 .. k : Usable(account[j])}
  <2>1. account \in Seq(Resource) /\ offered = Discovered(account)
    BY DEF Rows
  <2>2. PICK n \in Nat : Len(account) = n /\ DOMAIN account = 1 .. n
    BY <2>1, LenProperties
  <2>3. /\ Len(offered) = Place(J, n)
        /\ \A i \in J : offered[Place(J, i)] = RowOf(account[i])
    BY <2>1, <2>2, DiscoveredRows
  <2>4. \A k \in 0 .. n : Cardinality(UsableUpTo(k)) = Place(J, k)
    <3> TAKE k \in 0 .. n
    <3>1. UsableUpTo(k) = J \cap (1 .. k)
      BY <2>2
    <3> QED
      BY <3>1 DEF Place
  <2>5. ASSUME NEW k \in DOMAIN account, Usable(account[k])
        PROVE  LET row  == offered[Cardinality(UsableUpTo(k))]
                   ways == ToSet(account[k].connections)
               IN  /\ row.name = account[k].name
                   /\ \E c \in ways : /\ c.address = row.host
                                      /\ c.local \/ \A d \in ways : ~d.local
    <3>1. offered[Cardinality(UsableUpTo(k))] = RowOf(account[k])
      <4>1. k \in J /\ k \in 0 .. n
        BY <2>2, <2>5
      <4> HIDE DEF J, UsableUpTo
      <4> QED
        BY <2>3, <2>4, <4>1
    <3>2. account[k] \in Resource
      BY <2>1, <2>2, ElementOfSeq
    <3>3. PICK c \in ToSet(account[k].connections) :
            /\ c = Chosen(account[k])
            /\ c.local \/ \A d \in ToSet(account[k].connections) : ~d.local
      BY <2>5, <3>2, ChosenConnection
    <3> HIDE DEF UsableUpTo
    <3> QED
      BY <3>1, <3>3 DEF RowOf
  <2>6. Len(offered) = Cardinality(UsableUpTo(Len(account)))
    <3>1. n \in 0 .. n
      BY <2>2
    <3> HIDE DEF J, UsableUpTo
    <3> QED
      BY <2>2, <2>3, <2>4, <3>1
  <2> QED
    BY <2>5, <2>6 DEF PrefersLocal
<1> QED
  BY <1>1, RowsInit, RowsStep, PTL DEF Spec
=============================================================================
