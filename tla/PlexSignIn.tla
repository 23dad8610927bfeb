----------------------------- MODULE PlexSignIn -----------------------------
(***************************************************************************)
(* "Sign in with Plex": the script of the Setup page, the three handlers   *)
(* it calls, internal/plexauth behind them, and the identity this install  *)
(* has at plex.tv, which the store makes up on first use and keeps.        *)
(*                                                                         *)
(* The page polls on a timer that does not wait for the last answer, and   *)
(* every callback clears whatever timer the page has now: polls overlap,   *)
(* and an answer to an attempt that has ended reaches the next one.        *)
(*                                                                         *)
(* An attempt is a click on the button.  Its number stands for the pin and *)
(* for the timer it leads to.                                              *)
(***************************************************************************)
EXTENDS Integers, Lists

CONSTANTS MaxAttempts, \* bound: clicks
          Ticks,       \* firings of a timer before it gives up: 150
          Accounts,    \* what plex.tv may answer to /resources
          MaxFaults,   \* bound: failed writes of the store file
          MaxCrashes   \* bound: ends of the process

Attempts   == 1 .. MaxAttempts
Connection == [address: STRING, local: BOOLEAN]
Resource   == [name: STRING, server: BOOLEAN, connections: Seq(Connection)]
Row        == [name: STRING, host: STRING]
Poll       == [of: Attempts, n: 1 .. Ticks, as: Nat,
               is: {"sent", "pending", "done", "error"}]

ASSUME BoundsAssumption == /\ MaxAttempts \in Nat /\ Ticks \in Nat
                           /\ MaxFaults \in Nat /\ MaxCrashes \in Nat
ASSUME AccountsAssumption == Accounts \subseteq Seq(Resource)

VARIABLES
  identity,  \* s.data.ClientIdentifier; 0 when there is none yet
  saved,     \* the one in the store file
  made,      \* how many have been generated
  pin,       \* of each attempt: its POST and the pin that came of it
  by,        \* the identity that created it
  approved,  \* the pins the user has approved in the other tab
  disabled,  \* btn.disabled
  timer,     \* plexPollTimer; 0 for null
  live,      \* the intervals that still fire
  fired,     \* attempts, in the closure of each interval
  polls,     \* polls on their way to the server or back
  lookups,   \* fetchPlexServers under way, by the poll that led to it
  token,     \* the attempt whose token is in the form; 0: none
  account,   \* what plex.tv answered to the last lookup that succeeded
  offered,   \* the rows that were made of it
  faults, crashes

idVars   == <<identity, saved, made, faults>>
plexVars == <<pin, by, approved>>
pageVars == <<disabled, timer, live, fired>>
formVars == <<token, account, offered>>
vars == <<identity, saved, made, pin, by, approved, disabled, timer, live,
          fired, polls, lookups, token, account, offered, faults, crashes>>

-----------------------------------------------------------------------------
Init ==
  /\ identity = 0 /\ saved = 0 /\ made = 0
  /\ pin = [a \in Attempts |-> "none"] /\ by = [a \in Attempts |-> 0]
  /\ approved = {}
  /\ disabled = FALSE /\ timer = 0 /\ live = {}
  /\ fired = [a \in Attempts |-> 0]
  /\ polls = {} /\ lookups = {}
  /\ token = 0 /\ account = <<>> /\ offered = <<>>
  /\ faults = 0 /\ crashes = 0

-----------------------------------------------------------------------------
(* The identity.                                                           *)

\* Fault: the new identity is not written.
ClientIdentifierUnsaved(ok) ==
  IF identity # 0
  THEN ok /\ UNCHANGED idVars
  ELSE /\ identity' = made + 1 /\ made' = made + 1 /\ UNCHANGED saved
       /\ ok /\ UNCHANGED faults

\* Returns the identity in memory, or generates one and writes it: when
\* that fails (~ok) the caller gets the error and memory keeps the identity.
ClientIdentifier(ok) ==
  IF identity # 0
  THEN ok /\ UNCHANGED idVars
  ELSE /\ identity' = made + 1 /\ made' = made + 1
       /\ \/ ok /\ saved' = identity' /\ UNCHANGED faults
          \/ /\ ~ok /\ faults < MaxFaults
             /\ faults' = faults + 1 /\ UNCHANGED saved

\* Every other write of the store file takes the identity along.
OtherWrite ==
  /\ saved # identity
  /\ saved' = identity
  /\ UNCHANGED <<identity, made, faults, plexVars, pageVars, polls, lookups,
                 formVars, crashes>>

-----------------------------------------------------------------------------
(* Starting.                                                               *)

Click(a) ==
  /\ ~disabled
  /\ pin[a] = "none" /\ \A b \in Attempts : b < a => pin[b] # "none"
  /\ disabled' = TRUE
  /\ pin' = [pin EXCEPT ![a] = "asked"]
  /\ UNCHANGED <<idVars, by, approved, timer, live, fired, polls, lookups,
                 formVars, crashes>>

\* handleCreatePlexPin: the identity, then plex.tv, which may not answer.
CreatePin(a) ==
  /\ pin[a] = "asked"
  /\ \/ /\ ClientIdentifier(TRUE)
        /\ \/ /\ pin' = [pin EXCEPT ![a] = "made"]
              /\ by' = [by EXCEPT ![a] = identity']
           \/ pin' = [pin EXCEPT ![a] = "refused"] /\ UNCHANGED by
     \/ /\ ClientIdentifier(FALSE)
        /\ pin' = [pin EXCEPT ![a] = "refused"] /\ UNCHANGED by
  /\ UNCHANGED <<approved, pageVars, polls, lookups, formVars, crashes>>

\* Fault: the timer of an earlier attempt goes on.
AddTimer(a) == live' = live \cup {a} /\ timer' = a

\* clearInterval(plexPollTimer), then setInterval.
SetTimer(a) == live' = (live \ {timer}) \cup {a} /\ timer' = a

\* The page has the pin, opens plex.tv's own page and starts to poll.
Opened(a) ==
  /\ pin[a] = "made"
  /\ pin' = [pin EXCEPT ![a] = "open"]
  /\ SetTimer(a)
  /\ UNCHANGED <<idVars, by, approved, disabled, fired, polls, lookups,
                 formVars, crashes>>

NotOpened(a) ==
  /\ pin[a] = "refused"
  /\ pin' = [pin EXCEPT ![a] = "over"]
  /\ disabled' = FALSE
  /\ UNCHANGED <<idVars, by, approved, timer, live, fired, polls, lookups,
                 formVars, crashes>>

\* The user approves the pin in the other tab.
Approve(a) ==
  /\ pin[a] = "open" /\ a \notin approved
  /\ approved' = approved \cup {a}
  /\ UNCHANGED <<idVars, pin, by, pageVars, polls, lookups, formVars, crashes>>

-----------------------------------------------------------------------------
(* Polling.                                                                *)

\* clearInterval(plexPollTimer): of this page, whichever attempt it is of.
ClearTimer == live' = live \ {timer} /\ UNCHANGED timer

\* Fault: it fires once too often.
MoreTicksByOne(a) == fired[a] <= Ticks

\* attempts > 150, after attempts++.
MoreTicks(a) == fired[a] < Ticks

\* The interval fires and sends a poll, whether or not the last was answered.
Tick(a) ==
  /\ a \in live /\ MoreTicks(a)
  /\ fired' = [fired EXCEPT ![a] = @ + 1]
  /\ polls' = polls \cup {[of |-> a, n |-> fired'[a], as |-> 0, is |-> "sent"]}
  /\ UNCHANGED <<idVars, plexVars, disabled, timer, live, lookups, formVars,
                 crashes>>

TimeOut(a) ==
  /\ a \in live /\ ~MoreTicks(a)
  /\ ClearTimer /\ disabled' = FALSE
  /\ UNCHANGED <<idVars, plexVars, fired, polls, lookups, formVars, crashes>>

Answer(p, s, i) ==
  polls' = (polls \ {p}) \cup {[p EXCEPT !.is = s, !.as = i]}

\* handlePollPlexPin.  plex.tv gives the token to the identity that created
\* the pin and silently none to any other; it may not answer, or the pin has
\* expired.
AnswerPoll(p) ==
  /\ p.is = "sent"
  /\ \/ /\ ClientIdentifier(TRUE)
        /\ \/ Answer(p, IF p.of \in approved /\ identity' = by[p.of]
                        THEN "done" ELSE "pending", identity')
           \/ Answer(p, "error", identity')
     \/ ClientIdentifier(FALSE) /\ Answer(p, "error", 0)
  /\ UNCHANGED <<plexVars, pageVars, lookups, formVars, crashes>>

Pending(p) ==
  /\ p.is = "pending"
  /\ polls' = polls \ {p}
  /\ UNCHANGED <<idVars, plexVars, pageVars, lookups, formVars, crashes>>

\* The timer stops, the token goes into the form, and the servers of the
\* account are looked up; the button stays disabled meanwhile.
Done(p) ==
  /\ p.is = "done"
  /\ polls' = polls \ {p}
  /\ ClearTimer
  /\ token' = p.of
  /\ lookups' = lookups \cup {<<p.of, p.n>>}
  /\ UNCHANGED <<idVars, plexVars, disabled, fired, account, offered, crashes>>

\* Fault: the timer stops and the button is forgotten.
StopPolling == ClearTimer /\ UNCHANGED disabled

\* The catch of a poll.
GiveUp == ClearTimer /\ disabled' = FALSE

Failed(p) ==
  /\ p.is = "error"
  /\ polls' = polls \ {p}
  /\ GiveUp
  /\ UNCHANGED <<idVars, plexVars, fired, lookups, formVars, crashes>>

-----------------------------------------------------------------------------
(* Looking up the servers: plexauth.FetchServers and what the page makes   *)
(* of it.                                                                  *)

\* Fault: the first connection, whatever it is.
FirstConnection(r) == r.connections[1]

IsLocal(c) == c.local

\* The first local connection, or the first one.
Chosen(r) ==
  LET i == SelectInSeq(r.connections, IsLocal)
  IN  r.connections[IF i = 0 THEN 1 ELSE i]

\* Resources that are no server, or cannot be reached, are passed over.
Usable(r) == r.server /\ r.connections # <<>>

RowOf(r) == [name |-> r.name, host |-> Chosen(r).address]

Discovered(resources) ==
  LET usable == Keep(resources, {r \in ToSet(resources) : Usable(r)})
  IN  [i \in DOMAIN usable |-> RowOf(usable[i])]

\* The handler's own ClientIdentifier call belongs to this step; an answer
\* without servers, or none, leaves the rows as they are.
Lookup(l) ==
  /\ lookups' = lookups \ {l}
  /\ disabled' = FALSE
  /\ \/ /\ ClientIdentifier(TRUE)
        /\ \E resources \in Accounts :
             IF Discovered(resources) # <<>>
             THEN account' = resources /\ offered' = Discovered(resources)
             ELSE UNCHANGED <<account, offered>>
     \/ /\ \E ok \in BOOLEAN : ClientIdentifier(ok)
        /\ UNCHANGED <<account, offered>>
  /\ UNCHANGED <<plexVars, timer, live, fired, polls, token, crashes>>

-----------------------------------------------------------------------------
\* The process ends and is started again; the page stays.  What was on its
\* way to the server fails.
Restart ==
  /\ crashes < MaxCrashes
  /\ crashes' = crashes + 1
  /\ identity' = saved
  /\ pin' = [a \in Attempts |-> IF pin[a] = "asked" THEN "refused" ELSE pin[a]]
  /\ polls' = {IF p.is = "sent" THEN [p EXCEPT !.is = "error"] ELSE p : p \in polls}
  /\ UNCHANGED <<saved, made, faults, by, approved, pageVars, lookups, formVars>>

Server == \/ \E a \in Attempts : CreatePin(a)
          \/ \E p \in polls : AnswerPoll(p)
Page   == \/ \E a \in Attempts : Opened(a) \/ NotOpened(a) \/ Tick(a) \/ TimeOut(a)
          \/ \E p \in polls : Pending(p) \/ Done(p) \/ Failed(p)
          \/ \E l \in lookups : Lookup(l)

Next == \/ \E a \in Attempts : Click(a) \/ Approve(a)
        \/ Server \/ Page \/ OtherWrite \/ Restart

(***************************************************************************)
(* Fairness: the handlers answer (the client of plex.tv times out after    *)
(* ten seconds), and the browser runs its callbacks and timers.  The user  *)
(* owes nothing.                                                           *)
(***************************************************************************)
Spec == Init /\ [][Next]_vars /\ WF_vars(Server) /\ WF_vars(Page)

-----------------------------------------------------------------------------
(* Properties.                                                             *)

\* Types of all variables.
TypeOK ==
  /\ identity \in Nat /\ saved \in Nat /\ made \in Nat
  /\ pin \in [Attempts -> {"none", "asked", "made", "refused", "open", "over"}]
  /\ by \in [Attempts -> Nat] /\ approved \subseteq Attempts
  /\ disabled \in BOOLEAN /\ timer \in Attempts \cup {0}
  /\ live \subseteq Attempts /\ fired \in [Attempts -> 0 .. Ticks]
  /\ polls \subseteq Poll /\ lookups \subseteq Attempts \X (1 .. Ticks)
  /\ token \in Attempts \cup {0}
  /\ account \in Seq(Resource) /\ offered \in Seq(Row)
  /\ faults \in Nat /\ crashes \in Nat

\* plexauth.Poll: "clientIdentifier MUST be the exact same value used in
\* CreatePin", or plex.tv never gives the token out.  It is, across
\* restarts, as long as no write failed before one.
SameIdentity ==
  faults = 0 \/ crashes = 0 =>
    \A p \in polls : p.is \in {"pending", "done"} => p.as = by[p.of]

\* No interval is left running that the page cannot stop any more: the only
\* one that fires is the one plexPollTimer names, which is what lets every
\* callback of an attempt clear that variable.
OneTimer == live \subseteq {timer}

\* A disabled button has something under way that will enable it, although
\* callbacks of an earlier attempt stop the timer of a later one.
StillComing ==
  disabled => \/ live # {} \/ lookups # {}
              \/ \E a \in Attempts : pin[a] \in {"asked", "made", "refused"}

\* "preferring each one's local (LAN) connection": the rows are the servers
\* of the account that can be reached, all of them in the account's order,
\* each under an address of its own that is local if it has a local one.
PrefersLocal ==
  LET UsableUpTo(k) == {j \in 1 .. k : Usable(account[j])} IN
  /\ Len(offered) = Cardinality(UsableUpTo(Len(account)))
  /\ \A k \in DOMAIN account : Usable(account[k]) =>
       LET row  == offered[Cardinality(UsableUpTo(k))]
           ways == ToSet(account[k].connections)
       IN  /\ row.name = account[k].name
           /\ \E c \in ways : /\ c.address = row.host
                              /\ c.local \/ \A d \in ways : ~d.local

\* The sign-in comes to an end: the button is enabled again, however late,
\* lost or out of order the answers are.
SignInEnds == disabled ~> ~disabled
=============================================================================
