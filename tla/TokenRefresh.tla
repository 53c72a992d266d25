---------------------------- MODULE TokenRefresh ----------------------------
(****************************************************************************)
(* The stored credential and everyone who reads or changes it:              *)
(* StoredTokenProvider.access_token, login and logout of auth.py over the   *)
(* stores of credentials.py, with the authorization server as environment.  *)
(*                                                                          *)
(* A broker is one process with one provider and one store object; several  *)
(* asyncio tasks run in it.  Each await at which another task or process    *)
(* can change what was read is a step of its own.                           *)
(****************************************************************************)
EXTENDS Naturals, FiniteSets

CONSTANTS
  Tasks,       \* asyncio tasks
  Readers,     \* those that call access_token()
  Logins,      \* those that run login()
  Logouts,     \* those that run logout()
  Brokers,     \* processes
  BrokerOf,    \* the process each task runs in
  NoTask,      \* the owner of a free lock
  MaxIssued,   \* bound: access tokens the server issues
  MaxClients,  \* bound: client registrations the server makes
  MaxCrashes   \* bound: process crashes

ASSUME TasksAssumption ==
  /\ Tasks = Readers \cup Logins \cup Logouts
  /\ Readers \cap Logins = {}
  /\ Readers \cap Logouts = {}
  /\ Logins \cap Logouts = {}
  /\ NoTask \notin Tasks
  /\ BrokerOf \in [Tasks -> Brokers]

ASSUME BoundsAssumption ==
  /\ MaxIssued \in Nat \ {0}
  /\ MaxClients \in Nat \ {0}
  /\ MaxCrashes \in Nat

VARIABLES
  token,         \* the record "token" of the store, or NoToken
  registration,  \* the record "client_registration", or NoClient
  plock,         \* per broker: StoredTokenProvider._lock
  slock,         \* per broker: the store's _process_lock
  flock,         \* the lock file all the brokers share
  pc,            \* where each task is
  seen,          \* the token a reader read under the locks
  client,        \* the client a reader read, or a login uses
  minted,        \* the token a task is about to store
  stale,         \* access tokens within expiry_skew_s of their expiry
  retired,       \* registrations a login can no longer use
  alive,         \* server: refresh tokens it accepts
  issued,        \* server: access tokens issued so far
  clients,       \* server: clients registered so far
  crashes,       \* crashes so far
  spent,         \* history: tokens the server has exchanged for a successor
  lost,          \* history: those of them whose successor was never stored
  granted        \* history: grants that have ever been stored

store  == <<token, registration, granted>>
locks  == <<plock, slock, flock>>
locals == <<seen, client, minted>>
server == <<alive, issued, clients, spent>>
clock  == <<stale, retired>>
vars   == <<store, locks, pc, locals, clock, server, crashes, lost>>

Token    == [acc : Nat, ref : Nat, client : Nat, grant : Nat]
NoToken  == [acc |-> 0, ref |-> 0, client |-> 0, grant |-> 0]
NoClient == 0
NoRefresh == 0

\* The labels at which a task holds the store's exclusive() section.
Section == {"reread", "registration", "request", "refused", "write",
            "delete", "deleteRegistration", "release"}
Labels  == Section \cup {"idle", "call", "provider", "process", "flock",
                         "lookup", "register", "keep", "browser"}

Init ==
  \E t \in {NoToken, [acc |-> 1, ref |-> 1, client |-> 1, grant |-> 1]} :
    /\ token = t
    /\ registration = 1
    /\ granted = IF t = NoToken THEN {} ELSE {1}
    /\ plock = [b \in Brokers |-> NoTask]
    /\ slock = [b \in Brokers |-> NoTask]
    /\ flock = NoTask
    /\ pc = [t_ \in Tasks |-> "idle"]
    /\ seen = [t_ \in Tasks |-> NoToken]
    /\ client = [t_ \in Tasks |-> NoClient]
    /\ minted = [t_ \in Tasks |-> NoToken]
    /\ stale = {}
    /\ retired = {}
    /\ alive = {1}
    /\ issued = 1
    /\ clients = 1
    /\ crashes = 0
    /\ spent = {}
    /\ lost = {}

Goto(t, label) == pc' = [pc EXCEPT ![t] = label]
Forget(t) ==
  /\ seen' = [seen EXCEPT ![t] = NoToken]
  /\ client' = [client EXCEPT ![t] = NoClient]
  /\ minted' = [minted EXCEPT ![t] = NoToken]

-----------------------------------------------------------------------------
(* access_token() and its refresh *)

\* A task calls access_token(), login() or logout(confirm=True).
Begin(t) ==
  /\ pc[t] = "idle"
  /\ Goto(t, IF t \in Readers THEN "call"
             ELSE IF t \in Logins THEN "lookup" ELSE "process")
  /\ UNCHANGED <<store, locks, locals, clock, server, crashes, lost>>

\* The fast path takes no lock: AUTH_REQUIRED without a token, the token itself
\* when it is not near expiry, else the refresh.
FastPath(t) ==
  /\ pc[t] = "call"
  /\ \/ token = NoToken /\ Goto(t, "idle")
     \/ token # NoToken /\ token.acc \notin stale /\ Goto(t, "idle")
     \/ token # NoToken /\ token.acc \in stale /\ Goto(t, "provider")
  /\ UNCHANGED <<store, locks, locals, clock, server, crashes, lost>>

TakeProvider(t) ==
  /\ pc[t] = "provider"
  /\ plock[BrokerOf[t]] = NoTask
  /\ plock' = [plock EXCEPT ![BrokerOf[t]] = t]
  /\ Goto(t, "process")
  /\ UNCHANGED <<store, slock, flock, locals, clock, server, crashes, lost>>

TakeProcess(t) ==
  /\ pc[t] = "process"
  /\ slock[BrokerOf[t]] = NoTask
  /\ slock' = [slock EXCEPT ![BrokerOf[t]] = t]
  /\ Goto(t, "flock")
  /\ UNCHANGED <<store, plock, flock, locals, clock, server, crashes, lost>>

\* Faulty: the lock file is not shared, so it excludes nobody.
TakeFlockUnguarded(t) ==
  /\ pc[t] = "flock"
  /\ flock' = t
  /\ Goto(t, IF t \in Readers THEN "reread"
             ELSE IF t \in Logins THEN "write" ELSE "delete")
  /\ UNCHANGED <<store, plock, slock, locals, clock, server, crashes, lost>>

\* Faulty: only a refresh asks for exclusive().
TakeFlockReadersOnly(t) ==
  /\ pc[t] = "flock"
  /\ t \in Readers => flock = NoTask
  /\ flock' = t
  /\ Goto(t, IF t \in Readers THEN "reread"
             ELSE IF t \in Logins THEN "write" ELSE "delete")
  /\ UNCHANGED <<store, plock, slock, locals, clock, server, crashes, lost>>

\* The poll of _acquire_flock finds the lock file free.
TakeFlock(t) ==
  /\ pc[t] = "flock"
  /\ flock = NoTask
  /\ flock' = t
  /\ Goto(t, IF t \in Readers THEN "reread"
             ELSE IF t \in Logins THEN "write" ELSE "delete")
  /\ UNCHANGED <<store, plock, slock, locals, clock, server, crashes, lost>>

\* The two asyncio locks of t's broker that t holds are free again.
DropTaskLocks(t) ==
  /\ plock' = [b \in Brokers |-> IF plock[b] = t THEN NoTask ELSE plock[b]]
  /\ slock' = [b \in Brokers |-> IF slock[b] = t THEN NoTask ELSE slock[b]]

\* Faulty: the error path forgets the two asyncio locks.
FlockTimeoutLeaks(t) ==
  /\ pc[t] = "flock"
  /\ Forget(t)
  /\ Goto(t, "idle")
  /\ UNCHANGED <<store, locks, clock, server, crashes, lost>>

\* The poll meets its deadline while another process holds the lock file
\* (TIMEOUT, retryable), or the directory or the lock file fails, whoever holds it.
FlockTimeout(t) ==
  /\ pc[t] = "flock"
  /\ DropTaskLocks(t)
  /\ Forget(t)
  /\ Goto(t, "idle")
  /\ UNCHANGED <<store, flock, clock, server, crashes, lost>>

\* With both locks held the token is read again: another task or process may
\* have refreshed it, or removed it, while this one waited.
Reread(t) ==
  /\ pc[t] = "reread"
  /\ \/ token = NoToken /\ Goto(t, "release") /\ UNCHANGED seen
     \/ token # NoToken /\ token.acc \notin stale /\ Goto(t, "release") /\ UNCHANGED seen
     \/ /\ token # NoToken /\ token.acc \in stale
        /\ seen' = [seen EXCEPT ![t] = token]
        /\ Goto(t, "registration")
  /\ UNCHANGED <<store, locks, client, minted, clock, server, crashes, lost>>

\* Faulty: the lock file is given back before the request goes out.
LoadRegistrationUnlocks(t) ==
  /\ pc[t] = "registration"
  /\ registration # NoClient /\ seen[t].ref # NoRefresh
  /\ client' = [client EXCEPT ![t] = registration]
  /\ flock' = NoTask
  /\ Goto(t, "request")
  /\ UNCHANGED <<store, plock, slock, seen, minted, clock, server, crashes, lost>>

\* AUTH_REQUIRED without a registration or without a refresh token.
LoadRegistration(t) ==
  /\ pc[t] = "registration"
  /\ IF registration = NoClient \/ seen[t].ref = NoRefresh
       THEN Goto(t, "release") /\ UNCHANGED client
       ELSE /\ client' = [client EXCEPT ![t] = registration]
            /\ Goto(t, "request")
  /\ UNCHANGED <<store, locks, seen, minted, clock, server, crashes, lost>>

\* A refresh token is bound to the client it was issued to.
Accepts(tok, c) == tok.ref \in alive /\ tok.client = c

\* Faulty: the old refresh token is carried forward although it was rotated.
ExchangeKeepsOld(t) ==
  /\ pc[t] = "request"
  /\ Accepts(seen[t], client[t])
  /\ issued < MaxIssued
  /\ issued' = issued + 1
  /\ minted' = [minted EXCEPT ![t] = [seen[t] EXCEPT !.acc = issued']]
  /\ alive' = (alive \ {seen[t].ref}) \cup {issued'}
  /\ spent' = spent \cup {seen[t].acc}
  /\ Goto(t, "write")
  /\ UNCHANGED <<store, locks, seen, client, clock, clients, crashes, lost>>

\* The token endpoint answers 200.  When it rotates, the old refresh token is
\* dead from here on; when it does not, _token_from_payload carries it forward.
Exchange(t) ==
  /\ pc[t] = "request"
  /\ Accepts(seen[t], client[t])
  /\ issued < MaxIssued
  /\ issued' = issued + 1
  /\ \E rotates \in BOOLEAN :
       /\ minted' = [minted EXCEPT ![t] = [seen[t] EXCEPT
                     !.acc = issued', !.ref = IF rotates THEN issued' ELSE @]]
       /\ alive' = IF rotates THEN (alive \ {seen[t].ref}) \cup {issued'} ELSE alive
  /\ spent' = spent \cup {seen[t].acc}
  /\ Goto(t, "write")
  /\ UNCHANGED <<store, locks, seen, client, clock, clients, crashes, lost>>

\* The token endpoint answers 400, 401 or 403: AUTH_REQUIRED.
Reject(t) ==
  /\ pc[t] = "request"
  /\ ~Accepts(seen[t], client[t])
  /\ Goto(t, "refused")
  /\ UNCHANGED <<store, locks, locals, clock, server, crashes, lost>>

\* The one attempt fails before the server has spent the refresh token.
RequestFails(t) ==
  /\ pc[t] = "request"
  /\ Goto(t, "release")
  /\ UNCHANGED <<store, locks, locals, clock, server, crashes, lost>>

\* store_token, the last statement of a refresh and of a login.
Write(t) ==
  /\ pc[t] = "write"
  /\ token' = minted[t]
  /\ granted' = granted \cup {minted[t].grant}
  /\ Goto(t, "release")
  /\ UNCHANGED <<registration, locks, locals, clock, server, crashes, lost>>

\* A token was issued and is not stored: the answer timed out or was malformed,
\* or the write failed.
NotStored(t) ==
  /\ pc[t] = "write"
  /\ lost' = IF t \in Readers THEN lost \cup {seen[t].acc} ELSE lost
  /\ Goto(t, "release")
  /\ UNCHANGED <<store, locks, locals, clock, server, crashes>>

\* The exit of the three context managers.  Only the flock release is awaited;
\* the two asyncio locks follow it and merely let waiting tasks go on.
Release(t) ==
  /\ pc[t] \in {"release", "refused"}
  /\ flock' = NoTask
  /\ DropTaskLocks(t)
  /\ Forget(t)
  /\ Goto(t, "idle")
  /\ UNCHANGED <<store, clock, server, crashes, lost>>

-----------------------------------------------------------------------------
(* login() and logout() *)

\* After discovery, the stored registration is read, without the lock.
LookUp(t) ==
  /\ pc[t] = "lookup"
  /\ IF registration # NoClient /\ registration \notin retired
       THEN /\ client' = [client EXCEPT ![t] = registration]
            /\ Goto(t, "browser")
       ELSE Goto(t, "register") /\ UNCHANGED client
  /\ UNCHANGED <<store, locks, seen, minted, clock, server, crashes, lost>>

Register(t) ==
  /\ pc[t] = "register"
  /\ clients < MaxClients
  /\ clients' = clients + 1
  /\ client' = [client EXCEPT ![t] = clients']
  /\ Goto(t, "keep")
  /\ UNCHANGED <<store, locks, seen, minted, clock, alive, issued, spent,
                 crashes, lost>>

\* store_registration, also without the lock.
Keep(t) ==
  /\ pc[t] = "keep"
  /\ registration' = client[t]
  /\ Goto(t, "browser")
  /\ UNCHANGED <<token, granted, locks, locals, clock, server, crashes, lost>>

\* The human approves, the redirect arrives and the code is exchanged.
Authorize(t) ==
  /\ pc[t] = "browser"
  /\ issued < MaxIssued
  /\ issued' = issued + 1
  /\ \E r \in {NoRefresh, issued'} :
       /\ minted' = [minted EXCEPT ![t] =
                     [acc |-> issued', ref |-> r, client |-> client[t], grant |-> issued']]
       /\ alive' = alive \cup ({r} \ {NoRefresh})
  /\ Goto(t, "process")
  /\ UNCHANGED <<store, locks, seen, client, clock, clients, spent,
                 crashes, lost>>

\* Discovery, registration, the browser, the callback or the exchange fails.
Abandon(t) ==
  /\ pc[t] \in {"lookup", "register", "browser"}
  /\ Forget(t)
  /\ Goto(t, "idle")
  /\ UNCHANGED <<store, locks, clock, server, crashes, lost>>

DeleteToken(t) ==
  /\ pc[t] = "delete"
  /\ token' = NoToken
  /\ Goto(t, "deleteRegistration")
  /\ UNCHANGED <<registration, granted, locks, locals, clock, server,
                 crashes, lost>>

DeleteRegistration(t) ==
  /\ pc[t] = "deleteRegistration"
  /\ registration' = NoClient
  /\ Goto(t, "release")
  /\ UNCHANGED <<token, granted, locks, locals, clock, server, crashes, lost>>

\* The store refuses a read, a registration write or a delete: a widened
\* directory, a symlink, a record that does not decode, a full disk.
StoreFault(t) ==
  /\ \/ pc[t] \in {"call", "keep"} /\ Forget(t) /\ Goto(t, "idle")
     \/ /\ pc[t] \in {"reread", "registration", "delete", "deleteRegistration"}
        /\ Goto(t, "release") /\ UNCHANGED locals
  /\ UNCHANGED <<store, locks, clock, server, crashes, lost>>

-----------------------------------------------------------------------------
(* The environment *)

\* Time passes: a token comes within the skew of its expiry.
Expire(a) ==
  /\ a = token.acc /\ a \notin stale
  /\ stale' = stale \cup {a}
  /\ UNCHANGED <<store, locks, pc, locals, retired, server, crashes, lost>>

\* A registration expires, or the callback port or issuer no longer matches.
Retire(c) ==
  /\ c = registration /\ c \notin retired
  /\ retired' = retired \cup {c}
  /\ UNCHANGED <<store, locks, pc, locals, stale, server, crashes, lost>>

\* A process dies: the kernel frees its flock, its tasks are gone.
Crash(b) ==
  LET dead == {t \in Tasks : BrokerOf[t] = b}
  IN  /\ crashes < MaxCrashes
      /\ \E t \in dead : pc[t] # "idle"
      /\ crashes' = crashes + 1
      /\ lost' = lost \cup {seen[t].acc : t \in {u \in dead \cap Readers : pc[u] = "write"}}
      /\ pc' = [t \in Tasks |-> IF t \in dead THEN "idle" ELSE pc[t]]
      /\ seen' = [t \in Tasks |-> IF t \in dead THEN NoToken ELSE seen[t]]
      /\ client' = [t \in Tasks |-> IF t \in dead THEN NoClient ELSE client[t]]
      /\ minted' = [t \in Tasks |-> IF t \in dead THEN NoToken ELSE minted[t]]
      /\ plock' = [plock EXCEPT ![b] = NoTask]
      /\ slock' = [slock EXCEPT ![b] = NoTask]
      /\ flock' = IF flock \in dead THEN NoTask ELSE flock
      /\ UNCHANGED <<store, clock, server>>

-----------------------------------------------------------------------------
Reading(t) ==
  \/ FastPath(t) \/ Reread(t) \/ LoadRegistration(t)
  \/ Exchange(t) \/ Reject(t) \/ RequestFails(t)
  \/ Write(t) \/ NotStored(t) \/ Release(t)

Locking(t) == TakeProvider(t) \/ TakeProcess(t) \/ TakeFlock(t) \/ FlockTimeout(t)

LoggingInOrOut(t) ==
  \/ LookUp(t) \/ Register(t) \/ Keep(t) \/ Authorize(t) \/ Abandon(t)
  \/ DeleteToken(t) \/ DeleteRegistration(t)

Step(t) == Reading(t) \/ Locking(t) \/ LoggingInOrOut(t) \/ StoreFault(t)

Environment ==
  \/ \E a \in 1..issued : Expire(a)
  \/ \E c \in 1..clients : Retire(c)
  \/ \E b \in Brokers : Crash(b)

Next == Environment \/ \E t \in Tasks : Begin(t) \/ Step(t)

Spec == Init /\ [][Next]_vars

-----------------------------------------------------------------------------
(* Properties *)

TypeOK ==
  /\ token \in Token /\ registration \in Nat /\ granted \subseteq Nat
  /\ plock \in [Brokers -> Tasks \cup {NoTask}]
  /\ slock \in [Brokers -> Tasks \cup {NoTask}]
  /\ flock \in Tasks \cup {NoTask}
  /\ pc \in [Tasks -> Labels]
  /\ seen \in [Tasks -> Token] /\ client \in [Tasks -> Nat] /\ minted \in [Tasks -> Token]
  /\ issued \in Nat /\ clients \in Nat /\ crashes \in Nat
  /\ stale \subseteq Nat /\ retired \subseteq Nat /\ alive \subseteq Nat
  /\ spent \subseteq Nat /\ lost \subseteq spent

\* exclusive() admits one task over all the processes, and every lock that is
\* taken belongs to a task that is still between its acquisition and its
\* release: no error path, timeout or crash leaks one (credentials._exclusive).
LocksHeldByTheirOwners ==
  /\ \A t \in Tasks : pc[t] \in Section <=> flock = t
  /\ \A t \in Tasks : pc[t] \in Section \cup {"flock"} <=> slock[BrokerOf[t]] = t
  /\ \A t \in Readers :
       pc[t] \in Section \cup {"flock", "process"} <=> plock[BrokerOf[t]] = t

\* From the re-read under the locks to the write, the token a refresh started
\* from is the one stored: no login, logout or other refresh slips in between
\* (StoredTokenProvider._refresh, step 4).
RefreshIsCurrent ==
  \A t \in Readers : pc[t] \in {"registration", "request", "write"} =>
    token = seen[t] /\ token # NoToken

\* A token is exchanged a second time only when the successor of its first
\* exchange never reached the store: waiting callers do not each spend it.
NoReplay ==
  \A t \in Readers :
    pc[t] = "request" /\ seen[t].acc \in spent => seen[t].acc \in lost

\* The server refuses a refresh only after a lost answer, or when the stored
\* registration is not the one the stored token was issued to.
RefusalExplained ==
  \A t \in Readers :
    pc[t] = "refused" => seen[t].acc \in lost \/ seen[t].client # client[t]

\* The stored token goes through successors, new grants and removals only.
Lineage == INSTANCE CredentialLineage
StoreKeepsLineage == Lineage!Spec

\* Every call of access_token(), login() and logout() comes to an end.
CallsReturn == \A t \in Tasks : pc[t] # "idle" ~> pc[t] = "idle"

\* "One window is not covered": the server refuses a refresh only when the
\* answer to an earlier one was lost (refresh_access_token).
OneWindow == \A t \in Readers : pc[t] = "refused" => seen[t].acc \in lost
=============================================================================
