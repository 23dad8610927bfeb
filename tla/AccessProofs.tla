---------------------------- MODULE AccessProofs ----------------------------
(***************************************************************************)
(* Theorems about access for any number of browsers, users, keys, failed   *)
(* writes and restarts.                                                    *)
(***************************************************************************)
EXTENDS Access, TLAPS

-----------------------------------------------------------------------------
(* Types.  The data of a step is the old data with one field replaced, or  *)
(* all fields of the login; what it is written to keeps its type.          *)

LEMMA EmptyDataType == EmptyData \in Data /\ LoginPossible(EmptyData)
BY DEF EmptyData, Data, LoginPossible

LEMMA KeyType ==
  ASSUME NEW d \in Data, NEW k \in Keys
  PROVE  /\ [d EXCEPT !.key = k] \in Data
         /\ [d EXCEPT !.key = k].key = k
         /\ LoginPossible(d) => LoginPossible([d EXCEPT !.key = k])
BY DEF Data, LoginPossible

LEMMA SecretType ==
  ASSUME NEW d \in Data, NEW s \in Secrets
  PROVE  /\ [d EXCEPT !.secret = s] \in Data
         /\ [d EXCEPT !.secret = s].secret = s
         /\ [d EXCEPT !.secret = s].key = d.key
         /\ LoginPossible(d) => LoginPossible([d EXCEPT !.secret = s])
BY DEF Data, LoginPossible

LEMMA UserType ==
  ASSUME NEW d \in Data, NEW u \in Users \cup {NoUser}
  PROVE  /\ [d EXCEPT !.user = u] \in Data
         /\ [d EXCEPT !.user = u].key = d.key
BY DEF Data

LEMMA LoginType ==
  ASSUME NEW d \in Data, NEW on \in BOOLEAN, NEW u \in Users \cup {NoUser},
         NEW p \in (Passwords \ TooLong) \cup {NoPassword}
  PROVE  /\ WithLogin(d, on, u, p) \in Data
         /\ WithLogin(d, on, u, p).key = d.key
BY DEF Data, WithLogin

\* What every step does to the data in memory and in the file: types, and
\* that the file holds either what it held or what memory holds now.
Kept == /\ mem' \in Data /\ disk' \in Data /\ faults' \in Nat
        /\ disk' = disk \/ disk' = mem'

LEMMA WriteType ==
  ASSUME TypeOK, mem' \in Data, WriteOk \/ WriteFails
  PROVE  Kept
BY BoundsAssumption DEF TypeOK, WriteOk, WriteFails, Kept

LEMMA SecretStep ==
  ASSUME TypeOK, SessionSecret \/ SessionSecretFails
  PROVE  /\ Kept /\ used' \subseteq Keys \cup Secrets
         /\ mem'.key = mem.key
         /\ LoginPossible(mem) => LoginPossible(mem')
         /\ SessionSecret => mem'.secret \in Secrets
<1>1. CASE UNCHANGED <<mem, disk, used, faults>> /\ mem.secret # NoSecret
  BY <1>1, NothingAssumption
     DEF TypeOK, Kept, Data, SessionSecret, SessionSecretFails
<1>2. CASE \E s \in Secrets \ used : /\ mem' = [mem EXCEPT !.secret = s]
                                     /\ used' = used \cup {s}
                                     /\ WriteOk \/ WriteFails
  <2>1. PICK s \in Secrets : /\ mem' = [mem EXCEPT !.secret = s]
                             /\ used' = used \cup {s}
                             /\ WriteOk \/ WriteFails
    BY <1>2
  <2>2. mem \in Data BY DEF TypeOK
  <2>3. mem' \in Data BY <2>1, <2>2, SecretType
  <2>4. Kept BY <2>1, <2>3, WriteType
  <2>5. /\ mem'.key = mem.key
        /\ LoginPossible(mem) => LoginPossible(mem')
        /\ mem'.secret \in Secrets
    BY <2>1, <2>2, SecretType
  <2>6. used' \subseteq Keys \cup Secrets BY <2>1 DEF TypeOK
  <2> QED BY <2>4, <2>5, <2>6
<1> QED BY <1>1, <1>2 DEF SessionSecret, SessionSecretFails

\* The inductive invariant: a request in progress needs a process, the
\* administrator can get in with what is in memory and with what the next
\* start will load, and so for the key.
InProgress == \A b \in Browsers : request[b] # "idle" => stage = "serving"

KeyInv ==
  /\ stage \in {"open", "seeded"} => mem.key = disk.key
  /\ expected # {} => disk.key \in expected
  /\ stage = "serving" => mem.key \in expected

Inv == TypeOK /\ InProgress /\ NoLockout /\ KeyInv

LEMMA InvInit == Init => Inv
<1> SUFFICES ASSUME Init PROVE Inv
  OBVIOUS
<1>1. NoCredentials \in Credentials BY DEF NoCredentials, Credentials
<1>2. EnvKeys \ {NoKey} \subseteq Keys BY EnvAssumption
<1>3. TypeOK BY <1>1, <1>2, EmptyDataType DEF Init, TypeOK
<1>4. NoLockout BY EmptyDataType DEF Init, NoLockout
<1>5. InProgress /\ KeyInv BY DEF Init, InProgress, KeyInv
<1> QED BY <1>3, <1>4, <1>5 DEF Inv

\* A step that leaves the key, the stage and what is expected alone.
LEMMA KeyFrame ==
  ASSUME TypeOK, KeyInv, stage = "serving", UNCHANGED <<stage, expected>>, Kept,
         mem'.key = mem.key
  PROVE  KeyInv'
BY DEF KeyInv, Kept

\* The start-up sequence.
LEMMA StartStep ==
  ASSUME Inv, Start
  PROVE  Inv'
<1> USE DEF Inv
<1>1. CASE Open
  BY <1>1 DEF Open, TypeOK, InProgress, NoLockout, KeyInv, webVars, histVars
<1>2. ASSUME NEW env \in EnvKeys, SeedAPIKeyIfUnset(env) PROVE Inv'
  <2>1. CASE ~Seeds(env)
    BY <1>2, <2>1 DEF SeedAPIKeyIfUnset, TypeOK, InProgress, NoLockout, KeyInv,
                     webVars, histVars
  <2>2. CASE Seeds(env)
    <3>1. env \in Keys BY <2>2, EnvAssumption DEF Seeds
    <3>2. /\ mem' = [mem EXCEPT !.key = env] /\ stage = "open"
          /\ \/ WriteOk /\ stage' = "seeded"
             \/ WriteFails /\ stage' = "down"
          /\ UNCHANGED <<webVars, used, crashes, histVars>>
      BY <1>2, <2>2 DEF SeedAPIKeyIfUnset
    <3>3. /\ mem' \in Data /\ mem'.key = env
          /\ LoginPossible(mem) => LoginPossible(mem')
      BY <3>1, <3>2, KeyType DEF TypeOK
    <3>4. Kept BY <3>2, <3>3, WriteType
    <3>5. expected = {}
      BY <2>2, <3>2, NothingAssumption DEF Seeds, KeyInv, TypeOK
    <3>6. TypeOK'
      BY <3>2, <3>4 DEF TypeOK, Kept, webVars, histVars
    <3>7. InProgress'
      BY <3>2 DEF InProgress, TypeOK, webVars
    <3>8. NoLockout'
      BY <3>2, <3>3, <3>4 DEF NoLockout, Kept, histVars
    <3>9. KeyInv'
      BY <3>2, <3>3, <3>5 DEF KeyInv, WriteOk, histVars
    <3> QED BY <3>6, <3>7, <3>8, <3>9
  <2> QED BY <2>1, <2>2
<1>3. CASE APIKey
  <2>1. CASE mem.key # NoKey
    <3>1. /\ stage = "seeded" /\ stage' = "serving"
          /\ UNCHANGED <<mem, disk, used, faults, webVars, crashes, hashFailed>>
          /\ expected' = IF expected = {} THEN {mem.key} ELSE expected
      BY <1>3, <2>1 DEF APIKey
    <3>2. mem.key \in Keys BY <2>1 DEF TypeOK, Data
    <3> QED BY <3>1, <3>2
            DEF TypeOK, InProgress, NoLockout, KeyInv, webVars, histVars
  <2>2. CASE mem.key = NoKey
    <3>1. PICK k \in Keys :
            /\ mem' = [mem EXCEPT !.key = k] /\ used' = used \cup {k}
            /\ stage = "seeded"
            /\ \/ WriteOk /\ stage' = "serving"
               \/ WriteFails /\ stage' = "down"
            /\ expected' = IF stage' = "serving" /\ expected = {} THEN {mem'.key}
                           ELSE expected
            /\ UNCHANGED <<webVars, crashes, hashFailed>>
      BY <1>3, <2>2 DEF APIKey
    <3>2. /\ mem' \in Data /\ mem'.key = k
          /\ LoginPossible(mem) => LoginPossible(mem')
      BY <3>1, KeyType DEF TypeOK
    <3>3. Kept BY <3>1, <3>2, WriteType
    <3>4. expected = {}
      BY <2>2, <3>1, NothingAssumption DEF KeyInv, TypeOK
    <3>5. TypeOK'
      BY <3>1, <3>2, <3>3, <3>4 DEF TypeOK, Kept, webVars
    <3>6. InProgress'
      BY <3>1 DEF InProgress, TypeOK, webVars
    <3>7. NoLockout'
      BY <3>1, <3>2, <3>3 DEF NoLockout, Kept
    <3>8. KeyInv'
      <4>1. CASE WriteOk /\ stage' = "serving"
        <5>1. expected' = {k} BY <3>1, <3>2, <3>4, <4>1
        <5>2. disk'.key = k BY <3>2, <4>1 DEF WriteOk
        <5> QED BY <3>2, <4>1, <5>1, <5>2 DEF KeyInv
      <4>2. CASE WriteFails /\ stage' = "down"
        <5>1. expected' = {} BY <3>1, <3>4, <4>2
        <5> QED BY <4>2, <5>1 DEF KeyInv
      <4> QED BY <3>1, <4>1, <4>2
    <3> QED BY <3>5, <3>6, <3>7, <3>8
  <2> QED BY <2>1, <2>2
<1> QED BY <1>1, <1>2, <1>3 DEF Start

\* The process ends: nothing is in progress any more.
LEMMA CrashStep == Inv /\ Crash => Inv'
<1> SUFFICES ASSUME Inv, Crash PROVE Inv'
  OBVIOUS
<1>1. NoCredentials \in Credentials BY DEF NoCredentials, Credentials
<1>2. TypeOK' BY <1>1 DEF Inv, TypeOK, Crash, histVars
<1>3. InProgress' BY DEF Crash, InProgress
<1>4. NoLockout' /\ KeyInv' BY DEF Inv, Crash, NoLockout, KeyInv, histVars
<1> QED BY <1>2, <1>3, <1>4 DEF Inv

\* Who can get in is not touched: a request begins or ends, a cookie changes,
\* and the secret is generated at most.
LEMMA QuietStep ==
  ASSUME Inv, UNCHANGED <<stage, crashes, histVars>>,
         Kept, used' \subseteq Keys \cup Secrets, mem'.key = mem.key,
         LoginPossible(mem) => LoginPossible(mem'),
         request' \in [Browsers -> {"idle", "admitted", "login"}],
         read' \in [Browsers -> Credentials],
         cookie' \in [Browsers -> Cookie \cup {NoCookie}],
         InProgress', stage = "serving" \/ UNCHANGED <<mem, disk>>
  PROVE  Inv'
<1>1. TypeOK' BY DEF Inv, TypeOK, Kept, histVars
<1>2. NoLockout' BY DEF Inv, NoLockout, Kept, histVars
<1>3. KeyInv' BY KeyFrame DEF Inv, KeyInv, histVars
<1> QED BY <1>1, <1>2, <1>3 DEF Inv

\* Nothing but requests, copies and cookies changes.
LEMMA KeptUnchanged == TypeOK /\ UNCHANGED <<mem, disk, used, faults>> =>
  /\ Kept /\ used' \subseteq Keys \cup Secrets /\ mem'.key = mem.key
  /\ LoginPossible(mem) => LoginPossible(mem')
BY DEF TypeOK, Kept, LoginPossible

LEMMA SessionsStep ==
  ASSUME Inv, NEW b \in Browsers,
         \/ RequireLogin(b) \/ VerifyLogin(b) \/ Logout(b) \/ Expire(b)
         \/ \E u \in Users \cup {NoUser}, p \in Passwords \cup {NoPassword} :
              LoggedIn(b, u, p) \/ Rejected(b, u, p)
  PROVE  Inv'
<1>1. TypeOK /\ InProgress BY DEF Inv
<1>2. NoCredentials \in Credentials BY DEF NoCredentials, Credentials
<1>3. CASE RequireLogin(b)
  <2>1. /\ Kept /\ used' \subseteq Keys \cup Secrets /\ mem'.key = mem.key
        /\ LoginPossible(mem) => LoginPossible(mem')
    BY <1>1, <1>3, KeptUnchanged, SecretStep DEF RequireLogin
  <2>2. /\ stage = "serving" /\ UNCHANGED <<stage, read, cookie, crashes, histVars>>
        /\ request' \in [Browsers -> {"idle", "admitted", "login"}]
    BY <1>1, <1>3 DEF RequireLogin, Idle, TypeOK
  <2>3. InProgress' BY <2>2 DEF InProgress
  <2> QED BY <1>1, <2>1, <2>2, <2>3, QuietStep DEF TypeOK
<1>4. CASE VerifyLogin(b)
  <2>1. /\ stage = "serving"
        /\ UNCHANGED <<stage, mem, disk, cookie, used, faults, crashes, histVars>>
        /\ request' \in [Browsers -> {"idle", "admitted", "login"}]
    BY <1>1, <1>4 DEF VerifyLogin, Idle, TypeOK
  <2>2. [user |-> mem.user, hash |-> mem.hash] \in Credentials
    BY <1>1 DEF TypeOK, Data, Credentials
  <2>3. read' \in [Browsers -> Credentials]
    BY <1>1, <1>4, <2>2 DEF VerifyLogin, TypeOK
  <2>4. InProgress' BY <2>1 DEF InProgress
  <2> QED BY <1>1, <2>1, <2>3, <2>4, KeptUnchanged, QuietStep DEF TypeOK
<1>5. CASE Logout(b) \/ Expire(b)
  <2>1. /\ UNCHANGED <<stage, mem, disk, request, read, used, faults, crashes, histVars>>
        /\ cookie' \in [Browsers -> Cookie \cup {NoCookie}]
    <3>1. CASE Logout(b)
      BY <1>1, <3>1 DEF Logout, TypeOK
    <3>2. CASE Expire(b)
      <4>1. cookie[b] \in Cookie BY <1>1, <3>2 DEF Expire, TypeOK
      <4>2. [cookie[b] EXCEPT !.expired = TRUE] \in Cookie
        BY <4>1 DEF Cookie
      <4>3. cookie' = [cookie EXCEPT ![b] = [cookie[b] EXCEPT !.expired = TRUE]]
        BY <1>1, <3>2 DEF Expire, TypeOK
      <4> QED BY <1>1, <3>2, <4>2, <4>3 DEF Expire, TypeOK
    <3> QED BY <1>5, <3>1, <3>2
  <2>2. InProgress' BY <1>1, <2>1 DEF InProgress
  <2> QED BY <1>1, <2>1, <2>2, KeptUnchanged, QuietStep DEF TypeOK
<1>6. ASSUME NEW u \in Users \cup {NoUser}, NEW p \in Passwords \cup {NoPassword},
             LoggedIn(b, u, p)
      PROVE  Inv'
  <2>1. stage = "serving" BY <1>1, <1>6 DEF LoggedIn, InProgress
  <2>2. /\ Kept /\ used' \subseteq Keys \cup Secrets /\ mem'.key = mem.key
        /\ LoginPossible(mem) => LoginPossible(mem')
        /\ SessionSecret => mem'.secret \in Secrets
    BY <1>1, <1>6, SecretStep DEF LoggedIn
  <2>3. /\ UNCHANGED <<stage, crashes, histVars>>
        /\ request' \in [Browsers -> {"idle", "admitted", "login"}]
        /\ read' \in [Browsers -> Credentials]
    BY <1>1, <1>2, <1>6 DEF LoggedIn, EndLogin, TypeOK
  <2>4. cookie' \in [Browsers -> Cookie \cup {NoCookie}]
    <3>1. u \in Users BY <1>6 DEF LoggedIn, Matches
    <3>2. CASE SessionSecret /\ cookie' = [cookie EXCEPT ![b] =
                 [user |-> u, secret |-> mem'.secret, expired |-> FALSE]]
      <4>1. [user |-> u, secret |-> mem'.secret, expired |-> FALSE] \in Cookie
        BY <2>2, <3>1, <3>2 DEF Cookie
      <4> QED BY <1>1, <3>2, <4>1 DEF TypeOK
    <3>3. CASE UNCHANGED cookie
      BY <1>1, <3>3 DEF TypeOK
    <3> QED BY <1>6, <3>2, <3>3 DEF LoggedIn
  <2>5. InProgress' BY <2>1, <2>3 DEF InProgress
  <2> QED BY <2>1, <2>2, <2>3, <2>4, <2>5, QuietStep
<1>7. ASSUME NEW u \in Users \cup {NoUser}, NEW p \in Passwords \cup {NoPassword},
             Rejected(b, u, p)
      PROVE  Inv'
  <2>1. /\ stage = "serving"
        /\ UNCHANGED <<stage, mem, disk, cookie, used, faults, crashes, histVars>>
        /\ request' \in [Browsers -> {"idle", "admitted", "login"}]
        /\ read' \in [Browsers -> Credentials]
    BY <1>1, <1>2, <1>7 DEF Rejected, EndLogin, TypeOK, InProgress
  <2>2. InProgress' BY <2>1 DEF InProgress
  <2> QED BY <1>1, <2>1, <2>2, KeptUnchanged, QuietStep DEF TypeOK
<1> QED BY <1>3, <1>4, <1>5, <1>6, <1>7

\* A save of the login keeps the promise by its check: the credentials in
\* force after it are the new ones or the old ones.
LEMMA LoginStep ==
  ASSUME Inv, NEW b \in Browsers, NEW on \in BOOLEAN,
         NEW u \in Users \cup {NoUser}, NEW p \in Passwords \cup {NoPassword},
         SetLocalLogin(b, on, u, p)
  PROVE  Inv'
<1> USE DEF Inv
<1>1. /\ stage = "serving" /\ UNCHANGED <<stage, read, cookie, used, crashes, expected>>
      /\ request' \in [Browsers -> {"idle", "admitted", "login"}]
  BY DEF SetLocalLogin, Handled, InProgress, TypeOK
<1>2. InProgress' BY <1>1 DEF InProgress
<1>3. /\ Kept /\ mem'.key = mem.key /\ hashFailed' \in BOOLEAN
      /\ ~hashFailed' => ~hashFailed /\ (LoginPossible(mem) => LoginPossible(mem'))
  <2>1. CASE UNCHANGED <<mem, disk, faults, hashFailed>>
    BY <2>1 DEF TypeOK, Kept, LoginPossible
  <2>2. CASE /\ mem' = [mem EXCEPT !.user = u] /\ hashFailed' = TRUE
             /\ UNCHANGED <<disk, faults>>
    BY <2>2, UserType DEF TypeOK, Kept
  <2>3. CASE /\ ~Refuses(on, u, p) /\ p \notin TooLong
             /\ mem' = WithLogin(mem, on, u, p)
             /\ WriteOk \/ WriteFails
             /\ UNCHANGED hashFailed
    <3>1. mem' \in Data /\ mem'.key = mem.key
      BY <2>3, LoginType DEF TypeOK
    <3>2. Kept BY <2>3, <3>1, WriteType
    <3>3. LoginPossible(mem')
      BY <2>3 DEF WithLogin, LoginPossible, Refuses
    <3> QED BY <2>3, <3>1, <3>2, <3>3 DEF TypeOK
  <2> QED BY <2>1, <2>2, <2>3 DEF SetLocalLogin
<1>4. TypeOK' BY <1>1, <1>3 DEF TypeOK, Kept
<1>5. NoLockout' BY <1>3 DEF NoLockout, Kept
<1>6. KeyInv' BY <1>1, <1>3, KeyFrame
<1> QED BY <1>2, <1>4, <1>5, <1>6

\* A rotation.
LEMMA RotateStep ==
  ASSUME Inv, NEW b \in Browsers, RotateAPIKey(b)
  PROVE  Inv'
<1> USE DEF Inv
<1>1. /\ stage = "serving" /\ UNCHANGED <<stage, read, cookie, crashes, hashFailed>>
      /\ request' \in [Browsers -> {"idle", "admitted", "login"}]
  BY DEF RotateAPIKey, Handled, InProgress, TypeOK
<1>2. PICK k \in Keys :
        /\ mem' = [mem EXCEPT !.key = k] /\ used' = used \cup {k}
        /\ \/ WriteOk /\ expected' = {k}
           \/ WriteFails /\ expected' = expected \cup {k}
  BY DEF RotateAPIKey
<1>3. /\ mem' \in Data /\ mem'.key = k
      /\ LoginPossible(mem) => LoginPossible(mem')
  BY <1>2, KeyType DEF TypeOK
<1>4. Kept BY <1>2, <1>3, WriteType
<1>5. TypeOK' BY <1>1, <1>2, <1>4 DEF TypeOK, Kept
<1>6. InProgress' BY <1>1 DEF InProgress
<1>7. NoLockout' BY <1>1, <1>3, <1>4 DEF NoLockout, Kept
<1>8. KeyInv' BY <1>1, <1>2, <1>3 DEF KeyInv, WriteOk, WriteFails
<1> QED BY <1>5, <1>6, <1>7, <1>8

LEMMA InvStep == Inv /\ [Next]_vars => Inv'
<1> SUFFICES ASSUME Inv, [Next]_vars PROVE Inv'
  OBVIOUS
<1>1. CASE UNCHANGED vars
  BY <1>1 DEF Inv, TypeOK, InProgress, NoLockout, KeyInv, LoginPossible, vars
<1>2. ASSUME NEW b \in Browsers, Web(b) PROVE Inv'
  BY <1>2, SessionsStep, LoginStep, RotateStep DEF Web
<1> QED BY <1>1, <1>2, StartStep, CrashStep DEF Next

LEMMA InvAlways == Spec => []Inv
BY InvInit, InvStep, PTL DEF Spec

\* Every variable keeps its type.
THEOREM TypeCorrect == Spec => []TypeOK
<1>1. Inv => TypeOK BY DEF Inv
<1> QED BY <1>1, InvAlways, PTL

\* Whoever saves what in whatever order, with failed writes and restarts: as
\* long as bcrypt took every password, the administrator can log in.
THEOREM NobodyLockedOut == Spec => []NoLockout
<1>1. Inv => NoLockout BY DEF Inv
<1> QED BY <1>1, InvAlways, PTL

\* The API key in force is always one the administrator knows of.
THEOREM KeyAlwaysExpected == Spec => []KeyExpected
<1>1. Inv => KeyExpected BY DEF Inv, KeyInv, KeyExpected
<1> QED BY <1>1, InvAlways, PTL

-----------------------------------------------------------------------------
(* Sessions.  Without a failed write memory and file have the same secret, *)
(* and every cookie that is kept was signed with it.                       *)

OneSecret ==
  faults = 0 =>
    /\ mem.secret = disk.secret
    /\ \A b \in Browsers : cookie[b] # NoCookie => cookie[b].secret = mem.secret

LEMMA OneSecretInit == Init => OneSecret
BY DEF Init, OneSecret

\* Steps that leave the secret alone, and of the cookies at most lose one or
\* let it expire.
LEMMA SecretFrame ==
  ASSUME OneSecret, faults' = 0 => faults = 0, mem'.secret = mem.secret,
         faults = 0 => disk'.secret = mem.secret,
         \A b \in Browsers : \/ cookie'[b] \in {cookie[b], NoCookie}
                             \/ cookie[b] # NoCookie /\ cookie'[b].secret = cookie[b].secret
  PROVE  OneSecret'
BY DEF OneSecret

LEMMA WriteSecret ==
  ASSUME TypeOK, OneSecret, mem'.secret = mem.secret, WriteOk \/ WriteFails
  PROVE  /\ faults' = 0 => faults = 0
         /\ faults = 0 => disk'.secret = mem.secret
BY DEF OneSecret, WriteOk, WriteFails, TypeOK

LEMMA StartSecret ==
  ASSUME TypeOK, OneSecret, Start
  PROVE  OneSecret'
<1>0. mem \in Data BY DEF TypeOK
<1>1. CASE Open
  BY <1>1 DEF Open, OneSecret, webVars
<1>2. ASSUME NEW env \in EnvKeys, SeedAPIKeyIfUnset(env) PROVE OneSecret'
  <2>1. cookie' = cookie BY <1>2 DEF SeedAPIKeyIfUnset, webVars
  <2>2. CASE ~Seeds(env)
    BY <1>2, <2>1, <2>2 DEF SeedAPIKeyIfUnset, OneSecret
  <2>3. CASE Seeds(env)
    <3>1. env \in Keys BY <2>3, EnvAssumption DEF Seeds
    <3>2. mem' = [mem EXCEPT !.key = env] /\ (WriteOk \/ WriteFails)
      BY <1>2, <2>3 DEF SeedAPIKeyIfUnset
    <3>3. mem'.secret = mem.secret
      BY <1>0, <3>1, <3>2 DEF Data
    <3>4. /\ faults' = 0 => faults = 0
          /\ faults = 0 => disk'.secret = mem.secret
      BY <3>2, <3>3, WriteSecret
    <3> QED BY <2>1, <3>3, <3>4, SecretFrame
  <2> QED BY <2>2, <2>3
<1>3. CASE APIKey
  <2>1. cookie' = cookie BY <1>3 DEF APIKey, webVars
  <2>2. CASE UNCHANGED <<mem, disk, used, faults>>
    BY <2>1, <2>2 DEF OneSecret
  <2>3. ASSUME NEW k \in Keys, mem' = [mem EXCEPT !.key = k], WriteOk \/ WriteFails
        PROVE  OneSecret'
    <3>1. mem'.secret = mem.secret
      BY <1>0, <2>3 DEF Data
    <3>2. /\ faults' = 0 => faults = 0
          /\ faults = 0 => disk'.secret = mem.secret
      BY <2>3, <3>1, WriteSecret
    <3> QED BY <2>1, <3>1, <3>2, SecretFrame
  <2> QED BY <1>3, <2>2, <2>3 DEF APIKey
<1> QED BY <1>1, <1>2, <1>3 DEF Start

\* Whoever asks for the secret gets the one of every cookie, if there is one.
LEMMA AskSecret ==
  ASSUME TypeOK, OneSecret, SessionSecret \/ SessionSecretFails
  PROVE  /\ faults' = 0 => SessionSecret /\ faults = 0
         /\ faults' = 0 => mem'.secret = disk'.secret
         /\ faults' = 0 => \A b \in Browsers :
                             cookie[b] # NoCookie => cookie[b].secret = mem'.secret
<1>1. CASE UNCHANGED <<mem, disk, used, faults>> /\ SessionSecret
  BY <1>1 DEF OneSecret
<1>2. CASE SessionSecret /\ mem.secret = NoSecret
  <2>1. \A b \in Browsers : faults = 0 => cookie[b] = NoCookie
    BY <1>2, NothingAssumption DEF OneSecret, TypeOK, Cookie
  <2>2. disk' = mem' /\ faults' = faults
    BY <1>2 DEF SessionSecret, WriteOk
  <2> QED BY <1>2, <2>1, <2>2
<1>3. CASE SessionSecretFails
  BY <1>3 DEF SessionSecretFails, WriteFails, TypeOK
<1> QED BY <1>1, <1>2, <1>3 DEF SessionSecret

LEMMA WebSecret ==
  ASSUME TypeOK, OneSecret, NEW b \in Browsers, Web(b)
  PROVE  OneSecret'
<1>0. mem \in Data /\ cookie \in [Browsers -> Cookie \cup {NoCookie}]
  BY DEF TypeOK
<1>1. CASE RequireLogin(b)
  <2>1. cookie' = cookie BY <1>1 DEF RequireLogin
  <2>2. CASE UNCHANGED <<mem, disk, used, faults>>
    BY <2>1, <2>2 DEF OneSecret
  <2>3. CASE SessionSecret \/ SessionSecretFails
    BY <2>1, <2>3, AskSecret DEF OneSecret
  <2> QED BY <1>1, <2>2, <2>3 DEF RequireLogin
<1>2. ASSUME NEW u, NEW p, LoggedIn(b, u, p) PROVE OneSecret'
  <2>1. CASE /\ SessionSecret
             /\ cookie' = [cookie EXCEPT ![b] =
                  [user |-> u, secret |-> mem'.secret, expired |-> FALSE]]
    <3>1. \A c \in Browsers :
            c # b => cookie'[c] = cookie[c]
      BY <1>0, <2>1
    <3>2. cookie'[b].secret = mem'.secret
      BY <1>0, <2>1
    <3> QED BY <2>1, <3>1, <3>2, AskSecret DEF OneSecret
  <2>2. CASE SessionSecretFails /\ UNCHANGED cookie
    BY <2>2, AskSecret DEF OneSecret
  <2> QED BY <1>2, <2>1, <2>2 DEF LoggedIn
<1>3. CASE Logout(b)
  <2>1. \A c \in Browsers : cookie'[c] \in {cookie[c], NoCookie}
    BY <1>0, <1>3 DEF Logout
  <2> QED BY <1>3, <2>1, SecretFrame DEF Logout, OneSecret
<1>4. CASE Expire(b)
  <2>1. cookie[b] \in Cookie /\ cookie[b] # NoCookie
    BY <1>0, <1>4 DEF Expire
  <2>2. cookie'[b] = [cookie[b] EXCEPT !.expired = TRUE]
    BY <1>0, <1>4 DEF Expire
  <2>3. cookie'[b].secret = cookie[b].secret
    BY <2>1, <2>2 DEF Cookie
  <2>4. \A c \in Browsers : c # b => cookie'[c] = cookie[c]
    BY <1>0, <1>4 DEF Expire
  <2>5. \A c \in Browsers :
          \/ cookie'[c] \in {cookie[c], NoCookie}
          \/ cookie[c] # NoCookie /\ cookie'[c].secret = cookie[c].secret
    BY <2>1, <2>3, <2>4
  <2>6. UNCHANGED <<mem, disk, faults>>
    BY <1>4 DEF Expire
  <2> QED BY <2>5, <2>6, SecretFrame DEF OneSecret
<1>5. CASE RotateAPIKey(b)
  <2>1. PICK k \in Keys : mem' = [mem EXCEPT !.key = k] /\ (WriteOk \/ WriteFails)
    BY <1>5 DEF RotateAPIKey
  <2>2. mem'.secret = mem.secret
    BY <1>0, <2>1 DEF Data
  <2>3. /\ faults' = 0 => faults = 0
        /\ faults = 0 => disk'.secret = mem.secret
    BY <2>1, <2>2, WriteSecret
  <2> QED BY <1>5, <2>2, <2>3, SecretFrame DEF RotateAPIKey
<1>6. ASSUME NEW on \in BOOLEAN, NEW u \in Users \cup {NoUser},
             NEW p \in Passwords \cup {NoPassword}, SetLocalLogin(b, on, u, p)
      PROVE  OneSecret'
  <2>1. cookie' = cookie BY <1>6 DEF SetLocalLogin
  <2>2. CASE UNCHANGED <<mem, disk, faults>>
    BY <2>1, <2>2 DEF OneSecret
  <2>3. CASE mem' = [mem EXCEPT !.user = u] /\ UNCHANGED <<disk, faults>>
    <3>1. mem'.secret = mem.secret
      BY <1>0, <2>3 DEF Data
    <3> QED BY <2>1, <2>3, <3>1 DEF OneSecret
  <2>4. CASE mem' = WithLogin(mem, on, u, p) /\ (WriteOk \/ WriteFails)
    <3>1. mem'.secret = mem.secret
      BY <2>4 DEF WithLogin
    <3>2. /\ faults' = 0 => faults = 0
          /\ faults = 0 => disk'.secret = mem.secret
      BY <2>4, <3>1, WriteSecret
    <3> QED BY <2>1, <3>1, <3>2, SecretFrame
  <2> QED BY <1>6, <2>2, <2>3, <2>4 DEF SetLocalLogin
<1>7. CASE UNCHANGED <<mem, disk, faults, cookie>>
  BY <1>7 DEF OneSecret
<1> QED BY <1>1, <1>2, <1>3, <1>4, <1>5, <1>6, <1>7
        DEF Web, VerifyLogin, Rejected

LEMMA OneSecretStep == TypeOK /\ OneSecret /\ [Next]_vars => OneSecret'
<1> SUFFICES ASSUME TypeOK, OneSecret, [Next]_vars PROVE OneSecret'
  OBVIOUS
<1>1. CASE UNCHANGED <<mem, disk, faults, cookie>>
  BY <1>1 DEF OneSecret
<1> QED BY <1>1, StartSecret, WebSecret DEF Next, Crash, vars

LEMMA OneSecretImplies == OneSecret => SessionsKept
BY DEF OneSecret, SessionsKept, Verifies

\* Every cookie that was handed out is accepted until it expires, over any
\* number of restarts, saves and rotations, as long as no write failed.
THEOREM SessionsOutliveRestarts == Spec => []SessionsKept
BY TypeCorrect, OneSecretInit, OneSecretStep, OneSecretImplies, PTL DEF Spec
=============================================================================
