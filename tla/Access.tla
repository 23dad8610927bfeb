------------------------------- MODULE Access -------------------------------
(***************************************************************************)
(* Who can get in: the API key, the local login of the web UI and its      *)
(* session cookies, from the start-up sequence of cmd/cliphanger/main.go   *)
(* over the settings in internal/store to the handlers of internal/web.    *)
(*                                                                         *)
(* A step is one section under the store's mutex: a request is checked by  *)
(* requireLogin in one step and handled in a later one.                    *)
(***************************************************************************)
EXTENDS Integers, FiniteSets

CONSTANTS Browsers,    \* browsers with the web UI open
          Keys,        \* API keys; the bound on how many are generated
          NoKey,       \* ""
          EnvKeys,     \* what API_KEY can be at a start, NoKey for unset
          Secrets,     \* session secrets; the bound on how many are generated
          NoSecret,    \* ""
          Users,       \* user names
          NoUser,      \* ""
          Passwords,
          TooLong,     \* the passwords bcrypt refuses (more than 72 bytes)
          NoPassword,  \* ""
          MaxFaults,   \* bound: failed writes of the store file
          MaxCrashes   \* bound: ends of the process

ASSUME NothingAssumption == /\ NoKey \notin Keys /\ NoSecret \notin Secrets
                            /\ NoUser \notin Users
                            /\ NoPassword \notin Passwords
ASSUME EnvAssumption     == EnvKeys \subseteq Keys \cup {NoKey} /\ EnvKeys # {}
ASSUME TooLongAssumption == TooLong \subseteq Passwords
ASSUME BoundsAssumption  == MaxFaults \in Nat /\ MaxCrashes \in Nat

\* The fields of diskData this module is about.  The hash of a password is
\* the password.
Data == [key: Keys \cup {NoKey}, secret: Secrets \cup {NoSecret},
         enabled: BOOLEAN, user: Users \cup {NoUser},
         hash: (Passwords \ TooLong) \cup {NoPassword}]

EmptyData == [key |-> NoKey, secret |-> NoSecret, enabled |-> FALSE,
              user |-> NoUser, hash |-> NoPassword]

\* A session cookie: whose login it is for and what it is signed with.
NoCookie == [user |-> NoUser, secret |-> NoSecret, expired |-> TRUE]
Cookie   == [user: Users, secret: Secrets, expired: BOOLEAN]

\* What a login in progress has read of the stored credentials.
NoCredentials == [user |-> NoUser, hash |-> NoPassword]
Credentials   == [user: Users \cup {NoUser},
                  hash: (Passwords \ TooLong) \cup {NoPassword}]

VARIABLES
  stage,     \* how far main has come; "down" is no process
  mem,       \* s.data
  disk,      \* the store file
  request,   \* what each browser's request is doing
  read,      \* the credentials VerifyLogin has copied for it
  cookie,    \* the session cookie it keeps
  used,      \* keys and secrets generated or seeded so far
  faults, crashes,
  expected,   \* history: the keys an administrator can expect to be in force
  hashFailed  \* history: bcrypt has refused a password

webVars  == <<request, read, cookie>>
histVars == <<expected, hashFailed>>
vars == <<stage, mem, disk, request, read, cookie, used, faults, crashes,
          expected, hashFailed>>

WriteOk    == disk' = mem' /\ UNCHANGED faults
WriteFails == faults < MaxFaults /\ faults' = faults + 1 /\ UNCHANGED disk

Init ==
  /\ stage = "down" /\ mem = EmptyData /\ disk = EmptyData
  /\ request = [b \in Browsers |-> "idle"]
  /\ read = [b \in Browsers |-> NoCredentials]
  /\ cookie = [b \in Browsers |-> NoCookie]
  /\ used = EnvKeys \ {NoKey}
  /\ faults = 0 /\ crashes = 0
  /\ expected = {} /\ hashFailed = FALSE

-----------------------------------------------------------------------------
(* The start of the process.  A failed write ends it (os.Exit).            *)

Open ==
  /\ stage = "down"
  /\ stage' = "open"
  /\ mem' = disk
  /\ UNCHANGED <<disk, webVars, used, faults, crashes, histVars>>

\* Fault: the environment always wins.
SeedAlways(env) == env # NoKey

\* Does SeedAPIKeyIfUnset set the key?
Seeds(env) == env # NoKey /\ mem.key = NoKey

SeedAPIKeyIfUnset(env) ==
  /\ stage = "open"
  /\ IF Seeds(env)
     THEN /\ mem' = [mem EXCEPT !.key = env]
          /\ \/ WriteOk /\ stage' = "seeded"
             \/ WriteFails /\ stage' = "down"
     ELSE stage' = "seeded" /\ UNCHANGED <<mem, disk, faults>>
  /\ UNCHANGED <<webVars, used, crashes, histVars>>

\* APIKey: generated once.  From here on the key is in the start-up log and
\* requests are served.
APIKey ==
  /\ stage = "seeded"
  /\ \/ /\ mem.key # NoKey
        /\ stage' = "serving"
        /\ UNCHANGED <<mem, disk, used, faults>>
     \/ /\ mem.key = NoKey
        /\ \E k \in Keys \ used :
             mem' = [mem EXCEPT !.key = k] /\ used' = used \cup {k}
        /\ \/ WriteOk /\ stage' = "serving"
           \/ WriteFails /\ stage' = "down"
  /\ expected' = IF stage' = "serving" /\ expected = {} THEN {mem'.key}
                 ELSE expected
  /\ UNCHANGED <<webVars, crashes, hashFailed>>

\* The process ends; browsers keep their cookies, requests end with it.
Crash ==
  /\ stage # "down"
  /\ crashes < MaxCrashes
  /\ crashes' = crashes + 1
  /\ stage' = "down"
  /\ request' = [b \in Browsers |-> "idle"]
  /\ read' = [b \in Browsers |-> NoCredentials]
  /\ UNCHANGED <<mem, disk, cookie, used, faults, histVars>>

-----------------------------------------------------------------------------
(* Sessions.                                                               *)

\* Fault: the secret stays in memory.
SecretNotSaved ==
  \/ mem.secret # NoSecret /\ UNCHANGED <<mem, disk, used, faults>>
  \/ /\ mem.secret = NoSecret
     /\ \E s \in Secrets \ used :
          mem' = [mem EXCEPT !.secret = s] /\ used' = used \cup {s}
     /\ UNCHANGED <<disk, faults>>

\* SessionSecret without an error: there is a secret, or one is generated
\* and saved.
SessionSecret ==
  \/ mem.secret # NoSecret /\ UNCHANGED <<mem, disk, used, faults>>
  \/ /\ mem.secret = NoSecret
     /\ \E s \in Secrets \ used :
          mem' = [mem EXCEPT !.secret = s] /\ used' = used \cup {s}
     /\ WriteOk

\* It could not be saved: an error, but the next call finds it in memory.
SessionSecretFails ==
  /\ mem.secret = NoSecret
  /\ \E s \in Secrets \ used :
       mem' = [mem EXCEPT !.secret = s] /\ used' = used \cup {s}
  /\ WriteFails

\* verifySession.
Verifies(c, secret) == c # NoCookie /\ c.secret = secret /\ ~c.expired

Idle(b) == stage = "serving" /\ request[b] = "idle"

\* requireLogin lets a request through, or redirects it to the login page.
\* It asks for the secret only when login is on and there is a cookie.
RequireLogin(b) ==
  /\ Idle(b)
  /\ IF ~mem.enabled \/ cookie[b] = NoCookie
     THEN UNCHANGED <<mem, disk, used, faults>>
     ELSE SessionSecret \/ SessionSecretFails
  /\ request' = [request EXCEPT ![b] =
       IF ~mem.enabled \/ (faults' = faults /\ Verifies(cookie[b], mem'.secret))
       THEN "admitted" ELSE "idle"]
  /\ UNCHANGED <<stage, read, cookie, crashes, histVars>>

\* POST /login.  VerifyLogin copies the credentials under the lock ...
VerifyLogin(b) ==
  /\ Idle(b)
  /\ read' = [read EXCEPT ![b] = [user |-> mem.user, hash |-> mem.hash]]
  /\ request' = [request EXCEPT ![b] = "login"]
  /\ UNCHANGED <<stage, mem, disk, cookie, used, faults, crashes, histVars>>

\* Fault: a blank user name matches.
MatchesBlank(b, u, p) ==
  /\ read[b].hash = p /\ p # NoPassword
  /\ read[b].user = u

\* ... and compares them after it: with both right a cookie is signed.
Matches(b, u, p) ==
  /\ read[b].hash = p /\ p # NoPassword
  /\ read[b].user = u /\ u # NoUser

EndLogin(b) == /\ request' = [request EXCEPT ![b] = "idle"]
               /\ read' = [read EXCEPT ![b] = NoCredentials]

LoggedIn(b, u, p) ==
  /\ request[b] = "login"
  /\ Matches(b, u, p)
  /\ \/ /\ SessionSecret
        /\ cookie' = [cookie EXCEPT ![b] =
             [user |-> u, secret |-> mem'.secret, expired |-> FALSE]]
     \/ SessionSecretFails /\ UNCHANGED cookie
  /\ EndLogin(b)
  /\ UNCHANGED <<stage, crashes, histVars>>

Rejected(b, u, p) ==
  /\ request[b] = "login"
  /\ ~Matches(b, u, p)
  /\ EndLogin(b)
  /\ UNCHANGED <<stage, mem, disk, cookie, used, faults, crashes, histVars>>

Logout(b) ==
  /\ Idle(b)
  /\ cookie' = [cookie EXCEPT ![b] = NoCookie]
  /\ UNCHANGED <<stage, mem, disk, request, read, used, faults, crashes,
                 histVars>>

\* sessionDuration is over.
Expire(b) ==
  /\ cookie[b] # NoCookie
  /\ cookie' = [cookie EXCEPT ![b].expired = TRUE]
  /\ UNCHANGED <<stage, mem, disk, request, read, used, faults, crashes,
                 histVars>>

-----------------------------------------------------------------------------
(* The Security page, for a request that was let through.                  *)

Handled(b) == /\ request[b] = "admitted"
              /\ request' = [request EXCEPT ![b] = "idle"]

\* Fault: a password is not asked for.
RefusesNoUser(on, u, p) == on /\ u = NoUser

\* SetLocalLogin's check before it changes anything.
Refuses(on, u, p) ==
  on /\ (u = NoUser \/ (p = NoPassword /\ mem.hash = NoPassword))

\* The data after a save of the login; a blank password keeps the old one.
WithLogin(d, on, u, p) ==
  [key |-> d.key, secret |-> d.secret, enabled |-> on, user |-> u,
   hash |-> IF p = NoPassword THEN d.hash ELSE p]

\* SetLocalLogin: one save of the user name, the password unless it is
\* blank, and the switch.  The user name is set before the password is
\* hashed, and hashing can fail.
SetLocalLogin(b, on, u, p) ==
  /\ Handled(b)
  /\ \/ /\ Refuses(on, u, p)
        /\ UNCHANGED <<mem, disk, faults, hashFailed>>
     \/ /\ ~Refuses(on, u, p) /\ p \in TooLong
        /\ mem' = [mem EXCEPT !.user = u]
        /\ hashFailed' = TRUE
        /\ UNCHANGED <<disk, faults>>
     \/ /\ ~Refuses(on, u, p) /\ p \notin TooLong
        /\ mem' = WithLogin(mem, on, u, p)
        /\ WriteOk \/ WriteFails
        /\ UNCHANGED hashFailed
  /\ UNCHANGED <<stage, read, cookie, used, crashes, expected>>

\* Fault: the new key stays in memory, and the page reports success.
RotateUnsaved(b) ==
  /\ Handled(b)
  /\ \E k \in Keys \ used :
       /\ mem' = [mem EXCEPT !.key = k] /\ used' = used \cup {k}
       /\ UNCHANGED <<disk, faults>> /\ expected' = {k}
  /\ UNCHANGED <<stage, read, cookie, crashes, hashFailed>>

\* RotateAPIKey.  When the write fails the page reports an error, but the
\* new key is in force until the process ends.
RotateAPIKey(b) ==
  /\ Handled(b)
  /\ \E k \in Keys \ used :
       /\ mem' = [mem EXCEPT !.key = k] /\ used' = used \cup {k}
       /\ \/ WriteOk /\ expected' = {k}
          \/ WriteFails /\ expected' = expected \cup {k}
  /\ UNCHANGED <<stage, read, cookie, crashes, hashFailed>>

-----------------------------------------------------------------------------
Web(b) ==
  \/ RequireLogin(b) \/ VerifyLogin(b) \/ Logout(b) \/ Expire(b)
  \/ RotateAPIKey(b)
  \/ \E u \in Users \cup {NoUser}, p \in Passwords \cup {NoPassword} :
       \/ LoggedIn(b, u, p) \/ Rejected(b, u, p)
       \/ \E on \in BOOLEAN : SetLocalLogin(b, on, u, p)

Start == Open \/ (\E env \in EnvKeys : SeedAPIKeyIfUnset(env)) \/ APIKey

Next == Start \/ Crash \/ \E b \in Browsers : Web(b)

Spec == Init /\ [][Next]_vars

-----------------------------------------------------------------------------
(* Properties.                                                             *)

\* Types; in particular no cookie is signed with the empty secret, and the
\* empty password and one bcrypt refuses are never a stored credential.
TypeOK ==
  /\ stage \in {"down", "open", "seeded", "serving"}
  /\ mem \in Data /\ disk \in Data
  /\ request \in [Browsers -> {"idle", "admitted", "login"}]
  /\ read \in [Browsers -> Credentials]
  /\ cookie \in [Browsers -> Cookie \cup {NoCookie}]
  /\ used \subseteq Keys \cup Secrets
  /\ faults \in Nat /\ crashes \in Nat
  /\ expected \subseteq Keys /\ hashFailed \in BOOLEAN

LoginPossible(d) == d.enabled => d.user # NoUser /\ d.hash # NoPassword

\* SetLocalLogin never locks the administrator out: when login is on there
\* are a user name and a password, in memory and for the next start, however
\* saves, refusals, failed writes and restarts follow each other - as long
\* as bcrypt took every password it was given.
NoLockout == ~hashFailed => LoginPossible(mem) /\ LoginPossible(disk)

\* While the process serves, the API key is one the administrator knows of:
\* the one first logged, or the one of the last rotation that succeeded, or
\* of a rotation that failed since.  The environment never brings an older
\* one back, and no restart makes up a new one.
KeyExpected == stage = "serving" => mem.key \in expected

\* A session outlives restarts: until it expires, every cookie that was
\* handed out is accepted, if no write has failed.
SessionsKept ==
  stage = "serving" /\ faults = 0 =>
    \A b \in Browsers :
      cookie[b] # NoCookie /\ ~cookie[b].expired =>
        Verifies(cookie[b], mem.secret)

\* Comment of SetLocalLogin: refusing is "what keeps this from ever locking
\* an admin out the moment they save".
NeverLockedOut == LoginPossible(mem)

\* The message of a save that turns login on: "You'll need to sign in on
\* this and any other browser from now on."
EnablingAsksEveryone ==
  [][~mem.enabled /\ mem'.enabled /\ stage = "serving" =>
       \A b \in Browsers : ~Verifies(cookie'[b], mem'.secret)]_vars
=============================================================================
