------------------------- MODULE TokenRefreshProofs -------------------------
(****************************************************************************)
(* Theorems about TokenRefresh, for every set of tasks and every bound, and *)
(* about TokenRefreshCancel: what survives the cancellation of a call, and  *)
(* that cancellation is the only thing that module adds.                    *)
(****************************************************************************)
EXTENDS TokenRefreshCancel, TLAPS

Types ==
  /\ token \in Token /\ registration \in Nat /\ granted \subseteq Nat
  /\ plock \in [Brokers -> Tasks \cup {NoTask}]
  /\ slock \in [Brokers -> Tasks \cup {NoTask}]
  /\ flock \in Tasks \cup {NoTask}
  /\ pc \in [Tasks -> Labels]
  /\ seen \in [Tasks -> Token] /\ client \in [Tasks -> Nat] /\ minted \in [Tasks -> Token]
  /\ issued \in Nat /\ clients \in Nat /\ crashes \in Nat
  /\ stale \subseteq Nat /\ retired \subseteq Nat /\ alive \subseteq Nat
  /\ spent \subseteq Nat /\ lost \subseteq Nat

\* Every variable has its type, in every reachable state.
LEMMA TypesInit == Init => Types
<1> USE TasksAssumption DEF Types, store, locks, locals, server, clock
<1>1. QED
  BY DEF Init, Token, NoToken, NoClient, Labels, Section

LEMMA TypesStep ==
  Types /\ [Next]_vars => Types'
<1> USE TasksAssumption DEF Types, store, locks, locals, server, clock
<1> SUFFICES ASSUME Types, [Next]_vars
             PROVE  Types'
  OBVIOUS
<1>1. ASSUME NEW t \in Tasks, Begin(t) PROVE Types'
  BY <1>1 DEF Begin, Goto, Labels, Section
<1>2. ASSUME NEW t \in Tasks, FastPath(t) PROVE Types'
  BY <1>2 DEF FastPath, Goto, Labels, Section
<1>3. ASSUME NEW t \in Tasks, Reread(t) PROVE Types'
  BY <1>3 DEF Reread, Goto, Labels, Section
<1>4. ASSUME NEW t \in Tasks, LoadRegistration(t) PROVE Types'
  BY <1>4 DEF LoadRegistration, Goto, Labels, Section
<1>5. ASSUME NEW t \in Tasks, Exchange(t) PROVE Types'
  <2>1. PICK r \in BOOLEAN :
          /\ minted' = [minted EXCEPT ![t] = [seen[t] EXCEPT
                          !.acc = issued', !.ref = IF r THEN issued' ELSE @]]
          /\ alive' = IF r THEN (alive \ {seen[t].ref}) \cup {issued'} ELSE alive
    BY <1>5 DEF Exchange
  <2>2. seen[t] \in Token /\ issued' \in Nat /\ seen[t].acc \in Nat /\ seen[t].ref \in Nat
    BY <1>5 DEF Exchange, Token
  <2>3. [seen[t] EXCEPT !.acc = issued', !.ref = IF r THEN issued' ELSE @] \in Token
    BY <2>2 DEF Token
  <2>4. minted' \in [Tasks -> Token] /\ alive' \subseteq Nat
    BY <2>1, <2>2, <2>3
  <2>5. spent' \subseteq Nat /\ pc' \in [Tasks -> Labels]
    BY <1>5, <2>2 DEF Exchange, Goto, Labels, Section
  <2>6. QED
    BY <1>5, <2>2, <2>4, <2>5 DEF Exchange
<1>6. ASSUME NEW t \in Tasks, Reject(t) PROVE Types'
  BY <1>6 DEF Reject, Goto, Labels, Section
<1>7. ASSUME NEW t \in Tasks, RequestFails(t) PROVE Types'
  BY <1>7 DEF RequestFails, Goto, Labels, Section
<1>8. ASSUME NEW t \in Tasks, Write(t) PROVE Types'
  <2>1. minted[t] \in Token /\ minted[t].grant \in Nat
    BY DEF Token
  <2>2. QED
    BY <1>8, <2>1 DEF Write, Goto, Labels, Section
<1>9. ASSUME NEW t \in Tasks, NotStored(t) PROVE Types'
  <2>1. seen[t].acc \in Nat
    BY DEF Token
  <2>2. QED
    BY <1>9, <2>1 DEF NotStored, Goto, Labels, Section
<1>10. ASSUME NEW t \in Tasks, Release(t) PROVE Types'
  BY <1>10 DEF Release, DropTaskLocks, Forget, Goto, Labels, Section, Token, NoToken, NoClient
<1>11. ASSUME NEW t \in Tasks, TakeProvider(t) PROVE Types'
  BY <1>11 DEF TakeProvider, Goto, Labels, Section
<1>12. ASSUME NEW t \in Tasks, TakeProcess(t) PROVE Types'
  BY <1>12 DEF TakeProcess, Goto, Labels, Section
<1>13. ASSUME NEW t \in Tasks, TakeFlock(t) PROVE Types'
  BY <1>13 DEF TakeFlock, Goto, Labels, Section
<1>14. ASSUME NEW t \in Tasks, FlockTimeout(t) PROVE Types'
  BY <1>14 DEF FlockTimeout, DropTaskLocks, Forget, Goto, Labels, Section, Token, NoToken, NoClient
<1>15. ASSUME NEW t \in Tasks, LookUp(t) PROVE Types'
  BY <1>15 DEF LookUp, Goto, Labels, Section
<1>16. ASSUME NEW t \in Tasks, Register(t) PROVE Types'
  BY <1>16 DEF Register, Goto, Labels, Section
<1>17. ASSUME NEW t \in Tasks, Keep(t) PROVE Types'
  BY <1>17 DEF Keep, Goto, Labels, Section
<1>18. ASSUME NEW t \in Tasks, Authorize(t) PROVE Types'
  BY <1>18 DEF Authorize, Goto, Labels, Section, Token, NoRefresh
<1>19. ASSUME NEW t \in Tasks, Abandon(t) PROVE Types'
  BY <1>19 DEF Abandon, Forget, Goto, Labels, Section, Token, NoToken, NoClient
<1>20. ASSUME NEW t \in Tasks, DeleteToken(t) PROVE Types'
  BY <1>20 DEF DeleteToken, Goto, Labels, Section, Token, NoToken
<1>21. ASSUME NEW t \in Tasks, DeleteRegistration(t) PROVE Types'
  BY <1>21 DEF DeleteRegistration, Goto, Labels, Section, NoClient
<1>22. ASSUME NEW t \in Tasks, StoreFault(t) PROVE Types'
  BY <1>22 DEF StoreFault, Forget, Goto, Labels, Section, Token, NoToken, NoClient
<1>23. ASSUME NEW a \in 1..issued, Expire(a) PROVE Types'
  <2>1. a \in Nat
    OBVIOUS
  <2>2. QED
    BY <1>23, <2>1 DEF Expire
<1>24. ASSUME NEW c \in 1..clients, Retire(c) PROVE Types'
  BY <1>24 DEF Retire
<1>25. ASSUME NEW b \in Brokers, Crash(b) PROVE Types'
  <2>1. NoToken \in Token /\ NoClient \in Nat /\ "idle" \in Labels
    BY DEF NoToken, NoClient, Token, Labels, Section
  <2>2. \A t \in Tasks : seen[t].acc \in Nat
    BY DEF Token
  <2>3. lost' \subseteq Nat
    <3> DEFINE writers == {u \in {t \in Tasks : BrokerOf[t] = b} \cap Readers : pc[u] = "write"}
    <3>1. lost' = lost \cup {seen[t].acc : t \in writers}
      BY <1>25 DEF Crash
    <3>2. \A t \in writers : seen[t].acc \in Nat
      BY <2>2
    <3>3. {seen[t].acc : t \in writers} \subseteq Nat
      BY <3>2
    <3> HIDE DEF writers
    <3>4. QED
      BY <3>1, <3>3
  <2>4. pc' \in [Tasks -> Labels]
    BY <1>25, <2>1 DEF Crash
  <2>5. seen' \in [Tasks -> Token] /\ minted' \in [Tasks -> Token]
    BY <1>25, <2>1 DEF Crash
  <2>6. client' \in [Tasks -> Nat]
    BY <1>25, <2>1 DEF Crash
  <2>7. /\ plock' \in [Brokers -> Tasks \cup {NoTask}]
        /\ slock' \in [Brokers -> Tasks \cup {NoTask}]
        /\ flock' \in Tasks \cup {NoTask}
    BY <1>25 DEF Crash
  <2>8. QED
    BY <1>25, <2>3, <2>4, <2>5, <2>6, <2>7 DEF Crash
<1>26. CASE UNCHANGED vars
  BY <1>26 DEF vars
<1>27. QED
  BY <1>1, <1>2, <1>3, <1>4, <1>5, <1>6, <1>7, <1>8, <1>9, <1>10, <1>11, <1>12,
     <1>13, <1>14, <1>15, <1>16, <1>17, <1>18, <1>19, <1>20, <1>21, <1>22, <1>23,
     <1>24, <1>25, <1>26
     DEF Next, Environment, Step, Reading, Locking, LoggingInOrOut

LEMMA Typing == Spec => []Types
<1>1. QED
  BY TypesInit, TypesStep, PTL DEF Spec

\* Which labels a task can be at follows from what it runs.
Roles ==
  \A t \in Tasks :
    /\ pc[t] \in {"call", "provider", "reread", "registration", "request", "refused"}
         => t \in Readers
    /\ pc[t] \in {"lookup", "register", "keep", "browser"} => t \in Logins
    /\ pc[t] \in {"delete", "deleteRegistration"} => t \in Logouts
    /\ pc[t] = "write" => t \in Readers \cup Logins

\* Each task runs one of the three workflows.
LEMMA RolesInit == Init => Roles
<1> USE TasksAssumption DEF Types, Roles, Labels, store, locks, locals, server, clock
<1>1. QED
  BY DEF Init

LEMMA RolesStep ==
  Types /\ Roles /\ [Next]_vars => Roles'
<1> USE TasksAssumption DEF Types, Roles, Labels, store, locks, locals, server, clock
<1> SUFFICES ASSUME Types, Roles, [Next]_vars
             PROVE  Roles'
  OBVIOUS
<1>1. ASSUME NEW t \in Tasks, Begin(t) PROVE Roles'
  BY <1>1 DEF Begin, Goto
<1>2. ASSUME NEW t \in Tasks, FastPath(t) PROVE Roles'
  BY <1>2 DEF FastPath, Goto
<1>3. ASSUME NEW t \in Tasks, Reread(t) PROVE Roles'
  BY <1>3 DEF Reread, Goto
<1>4. ASSUME NEW t \in Tasks, LoadRegistration(t) PROVE Roles'
  BY <1>4 DEF LoadRegistration, Goto
<1>5. ASSUME NEW t \in Tasks, Exchange(t) PROVE Roles'
  BY <1>5 DEF Exchange, Goto
<1>6. ASSUME NEW t \in Tasks, Reject(t) PROVE Roles'
  BY <1>6 DEF Reject, Goto
<1>7. ASSUME NEW t \in Tasks, RequestFails(t) PROVE Roles'
  BY <1>7 DEF RequestFails, Goto
<1>8. ASSUME NEW t \in Tasks, Write(t) PROVE Roles'
  BY <1>8 DEF Write, Goto
<1>9. ASSUME NEW t \in Tasks, NotStored(t) PROVE Roles'
  BY <1>9 DEF NotStored, Goto
<1>10. ASSUME NEW t \in Tasks, Release(t) PROVE Roles'
  BY <1>10 DEF Release, DropTaskLocks, Forget, Goto
<1>11. ASSUME NEW t \in Tasks, TakeProvider(t) PROVE Roles'
  BY <1>11 DEF TakeProvider, Goto
<1>12. ASSUME NEW t \in Tasks, TakeProcess(t) PROVE Roles'
  BY <1>12 DEF TakeProcess, Goto
<1>13. ASSUME NEW t \in Tasks, TakeFlock(t) PROVE Roles'
  BY <1>13 DEF TakeFlock, Goto
<1>14. ASSUME NEW t \in Tasks, FlockTimeout(t) PROVE Roles'
  BY <1>14 DEF FlockTimeout, DropTaskLocks, Forget, Goto
<1>15. ASSUME NEW t \in Tasks, LookUp(t) PROVE Roles'
  BY <1>15 DEF LookUp, Goto
<1>16. ASSUME NEW t \in Tasks, Register(t) PROVE Roles'
  BY <1>16 DEF Register, Goto
<1>17. ASSUME NEW t \in Tasks, Keep(t) PROVE Roles'
  BY <1>17 DEF Keep, Goto
<1>18. ASSUME NEW t \in Tasks, Authorize(t) PROVE Roles'
  BY <1>18 DEF Authorize, Goto
<1>19. ASSUME NEW t \in Tasks, Abandon(t) PROVE Roles'
  BY <1>19 DEF Abandon, Forget, Goto
<1>20. ASSUME NEW t \in Tasks, DeleteToken(t) PROVE Roles'
  BY <1>20 DEF DeleteToken, Goto
<1>21. ASSUME NEW t \in Tasks, DeleteRegistration(t) PROVE Roles'
  BY <1>21 DEF DeleteRegistration, Goto
<1>22. ASSUME NEW t \in Tasks, StoreFault(t) PROVE Roles'
  BY <1>22 DEF StoreFault, Forget, Goto
<1>23. ASSUME NEW a \in 1..issued, Expire(a) PROVE Roles'
  BY <1>23 DEF Expire
<1>24. ASSUME NEW c \in 1..clients, Retire(c) PROVE Roles'
  BY <1>24 DEF Retire
<1>25. ASSUME NEW b \in Brokers, Crash(b) PROVE Roles'
  BY <1>25 DEF Crash
<1>26. CASE UNCHANGED vars
  BY <1>26 DEF vars
<1>27. QED
  BY <1>1, <1>2, <1>3, <1>4, <1>5, <1>6, <1>7, <1>8, <1>9, <1>10, <1>11, <1>12,
     <1>13, <1>14, <1>15, <1>16, <1>17, <1>18, <1>19, <1>20, <1>21, <1>22, <1>23,
     <1>24, <1>25, <1>26
     DEF Next, Environment, Step, Reading, Locking, LoggingInOrOut

LEMMA RolesInvariant == Spec => []Roles
<1>1. QED
  BY RolesInit, RolesStep, Typing, PTL DEF Spec

\* Every lock that is taken has an owner between its acquisition and its
\* release, on every path out (credentials._exclusive).
LEMMA LocksHeldByTheirOwnersInit == Init => LocksHeldByTheirOwners
<1> USE TasksAssumption DEF Types, LocksHeldByTheirOwners, Section, Labels, store, locks, locals, server, clock
<1>1. QED
  BY DEF Init

LEMMA LocksHeldByTheirOwnersStep ==
  Types /\ Roles /\ LocksHeldByTheirOwners /\ [Next]_vars => LocksHeldByTheirOwners'
<1> USE TasksAssumption DEF Types, LocksHeldByTheirOwners, Section, Labels, store, locks, locals, server, clock
<1> SUFFICES ASSUME Types, Roles, LocksHeldByTheirOwners, [Next]_vars
             PROVE  LocksHeldByTheirOwners'
  OBVIOUS
<1>1. ASSUME NEW t \in Tasks, Begin(t) PROVE LocksHeldByTheirOwners'
  BY <1>1 DEF Begin, Goto
<1>2. ASSUME NEW t \in Tasks, FastPath(t) PROVE LocksHeldByTheirOwners'
  BY <1>2 DEF FastPath, Goto
<1>3. ASSUME NEW t \in Tasks, Reread(t) PROVE LocksHeldByTheirOwners'
  BY <1>3 DEF Reread, Goto
<1>4. ASSUME NEW t \in Tasks, LoadRegistration(t) PROVE LocksHeldByTheirOwners'
  BY <1>4 DEF LoadRegistration, Goto
<1>5. ASSUME NEW t \in Tasks, Exchange(t) PROVE LocksHeldByTheirOwners'
  BY <1>5 DEF Exchange, Goto
<1>6. ASSUME NEW t \in Tasks, Reject(t) PROVE LocksHeldByTheirOwners'
  BY <1>6 DEF Reject, Goto
<1>7. ASSUME NEW t \in Tasks, RequestFails(t) PROVE LocksHeldByTheirOwners'
  BY <1>7 DEF RequestFails, Goto
<1>8. ASSUME NEW t \in Tasks, Write(t) PROVE LocksHeldByTheirOwners'
  BY <1>8 DEF Write, Goto
<1>9. ASSUME NEW t \in Tasks, NotStored(t) PROVE LocksHeldByTheirOwners'
  BY <1>9 DEF NotStored, Goto
<1>10. ASSUME NEW t \in Tasks, Release(t) PROVE LocksHeldByTheirOwners'
  BY <1>10 DEF Release, DropTaskLocks, Forget, Goto
<1>11. ASSUME NEW t \in Tasks, TakeProvider(t) PROVE LocksHeldByTheirOwners'
  BY <1>11 DEF TakeProvider, Goto
<1>12. ASSUME NEW t \in Tasks, TakeProcess(t) PROVE LocksHeldByTheirOwners'
  BY <1>12 DEF TakeProcess, Goto
<1>13. ASSUME NEW t \in Tasks, TakeFlock(t) PROVE LocksHeldByTheirOwners'
  BY <1>13 DEF TakeFlock, Goto
<1>14. ASSUME NEW t \in Tasks, FlockTimeout(t) PROVE LocksHeldByTheirOwners'
  BY <1>14 DEF FlockTimeout, DropTaskLocks, Forget, Goto
<1>15. ASSUME NEW t \in Tasks, LookUp(t) PROVE LocksHeldByTheirOwners'
  BY <1>15 DEF LookUp, Goto
<1>16. ASSUME NEW t \in Tasks, Register(t) PROVE LocksHeldByTheirOwners'
  BY <1>16 DEF Register, Goto
<1>17. ASSUME NEW t \in Tasks, Keep(t) PROVE LocksHeldByTheirOwners'
  BY <1>17 DEF Keep, Goto
<1>18. ASSUME NEW t \in Tasks, Authorize(t) PROVE LocksHeldByTheirOwners'
  BY <1>18 DEF Authorize, Goto, Roles
<1>19. ASSUME NEW t \in Tasks, Abandon(t) PROVE LocksHeldByTheirOwners'
  BY <1>19 DEF Abandon, Forget, Goto
<1>20. ASSUME NEW t \in Tasks, DeleteToken(t) PROVE LocksHeldByTheirOwners'
  BY <1>20 DEF DeleteToken, Goto
<1>21. ASSUME NEW t \in Tasks, DeleteRegistration(t) PROVE LocksHeldByTheirOwners'
  BY <1>21 DEF DeleteRegistration, Goto
<1>22. ASSUME NEW t \in Tasks, StoreFault(t) PROVE LocksHeldByTheirOwners'
  BY <1>22 DEF StoreFault, Forget, Goto
<1>23. ASSUME NEW a \in 1..issued, Expire(a) PROVE LocksHeldByTheirOwners'
  BY <1>23 DEF Expire
<1>24. ASSUME NEW c \in 1..clients, Retire(c) PROVE LocksHeldByTheirOwners'
  BY <1>24 DEF Retire
<1>25. ASSUME NEW b \in Brokers, Crash(b) PROVE LocksHeldByTheirOwners'
  BY <1>25 DEF Crash
<1>26. CASE UNCHANGED vars
  BY <1>26 DEF vars
<1>27. QED
  BY <1>1, <1>2, <1>3, <1>4, <1>5, <1>6, <1>7, <1>8, <1>9, <1>10, <1>11, <1>12,
     <1>13, <1>14, <1>15, <1>16, <1>17, <1>18, <1>19, <1>20, <1>21, <1>22, <1>23,
     <1>24, <1>25, <1>26
     DEF Next, Environment, Step, Reading, Locking, LoggingInOrOut

LEMMA LocksInvariant == Spec => []LocksHeldByTheirOwners
<1>1. QED
  BY LocksHeldByTheirOwnersInit, LocksHeldByTheirOwnersStep, Typing, RolesInvariant, PTL DEF Spec
\* No login, logout or other refresh changes the stored token between the
\* re-read of a refresh and its write.
LEMMA RefreshIsCurrentInit == Init => RefreshIsCurrent
<1> USE TasksAssumption DEF Types, RefreshIsCurrent, Roles, LocksHeldByTheirOwners, Section, store, locks, locals, server, clock
<1>1. QED
  BY DEF Init

LEMMA RefreshIsCurrentStep ==
  Types /\ Roles /\ LocksHeldByTheirOwners /\ RefreshIsCurrent /\ [Next]_vars => RefreshIsCurrent'
<1> USE TasksAssumption DEF Types, RefreshIsCurrent, Roles, LocksHeldByTheirOwners, Section, store, locks, locals, server, clock
<1> SUFFICES ASSUME Types, Roles, LocksHeldByTheirOwners, RefreshIsCurrent, [Next]_vars
             PROVE  RefreshIsCurrent'
  OBVIOUS
<1>1. ASSUME NEW t \in Tasks, Begin(t) PROVE RefreshIsCurrent'
  BY <1>1 DEF Begin, Goto
<1>2. ASSUME NEW t \in Tasks, FastPath(t) PROVE RefreshIsCurrent'
  BY <1>2 DEF FastPath, Goto
<1>3. ASSUME NEW t \in Tasks, Reread(t) PROVE RefreshIsCurrent'
  BY <1>3 DEF Reread, Goto
<1>4. ASSUME NEW t \in Tasks, LoadRegistration(t) PROVE RefreshIsCurrent'
  BY <1>4 DEF LoadRegistration, Goto
<1>5. ASSUME NEW t \in Tasks, Exchange(t) PROVE RefreshIsCurrent'
  BY <1>5 DEF Exchange, Goto
<1>6. ASSUME NEW t \in Tasks, Reject(t) PROVE RefreshIsCurrent'
  BY <1>6 DEF Reject, Goto
<1>7. ASSUME NEW t \in Tasks, RequestFails(t) PROVE RefreshIsCurrent'
  BY <1>7 DEF RequestFails, Goto
<1>8. ASSUME NEW t \in Tasks, Write(t) PROVE RefreshIsCurrent'
  BY <1>8 DEF Write, Goto
<1>9. ASSUME NEW t \in Tasks, NotStored(t) PROVE RefreshIsCurrent'
  BY <1>9 DEF NotStored, Goto
<1>10. ASSUME NEW t \in Tasks, Release(t) PROVE RefreshIsCurrent'
  BY <1>10 DEF Release, DropTaskLocks, Forget, Goto
<1>11. ASSUME NEW t \in Tasks, TakeProvider(t) PROVE RefreshIsCurrent'
  BY <1>11 DEF TakeProvider, Goto
<1>12. ASSUME NEW t \in Tasks, TakeProcess(t) PROVE RefreshIsCurrent'
  BY <1>12 DEF TakeProcess, Goto
<1>13. ASSUME NEW t \in Tasks, TakeFlock(t) PROVE RefreshIsCurrent'
  BY <1>13 DEF TakeFlock, Goto
<1>14. ASSUME NEW t \in Tasks, FlockTimeout(t) PROVE RefreshIsCurrent'
  BY <1>14 DEF FlockTimeout, DropTaskLocks, Forget, Goto
<1>15. ASSUME NEW t \in Tasks, LookUp(t) PROVE RefreshIsCurrent'
  BY <1>15 DEF LookUp, Goto
<1>16. ASSUME NEW t \in Tasks, Register(t) PROVE RefreshIsCurrent'
  BY <1>16 DEF Register, Goto
<1>17. ASSUME NEW t \in Tasks, Keep(t) PROVE RefreshIsCurrent'
  BY <1>17 DEF Keep, Goto
<1>18. ASSUME NEW t \in Tasks, Authorize(t) PROVE RefreshIsCurrent'
  BY <1>18 DEF Authorize, Goto
<1>19. ASSUME NEW t \in Tasks, Abandon(t) PROVE RefreshIsCurrent'
  BY <1>19 DEF Abandon, Forget, Goto
<1>20. ASSUME NEW t \in Tasks, DeleteToken(t) PROVE RefreshIsCurrent'
  BY <1>20 DEF DeleteToken, Goto
<1>21. ASSUME NEW t \in Tasks, DeleteRegistration(t) PROVE RefreshIsCurrent'
  BY <1>21 DEF DeleteRegistration, Goto
<1>22. ASSUME NEW t \in Tasks, StoreFault(t) PROVE RefreshIsCurrent'
  BY <1>22 DEF StoreFault, Forget, Goto
<1>23. ASSUME NEW a \in 1..issued, Expire(a) PROVE RefreshIsCurrent'
  BY <1>23 DEF Expire
<1>24. ASSUME NEW c \in 1..clients, Retire(c) PROVE RefreshIsCurrent'
  BY <1>24 DEF Retire
<1>25. ASSUME NEW b \in Brokers, Crash(b) PROVE RefreshIsCurrent'
  BY <1>25 DEF Crash
<1>26. CASE UNCHANGED vars
  BY <1>26 DEF vars
<1>27. QED
  BY <1>1, <1>2, <1>3, <1>4, <1>5, <1>6, <1>7, <1>8, <1>9, <1>10, <1>11, <1>12,
     <1>13, <1>14, <1>15, <1>16, <1>17, <1>18, <1>19, <1>20, <1>21, <1>22, <1>23,
     <1>24, <1>25, <1>26
     DEF Next, Environment, Step, Reading, Locking, LoggingInOrOut

LEMMA CurrentInvariant == Spec => []RefreshIsCurrent
<1>1. QED
  BY RefreshIsCurrentInit, RefreshIsCurrentStep, Typing, RolesInvariant, LocksInvariant, PTL DEF Spec


\* The server numbers what it issues: nothing stored or in flight has a number
\* it has not reached, and each stored token belongs to a grant that was stored.
Numbered ==
  /\ token.acc <= issued /\ (token # NoToken => token.grant \in granted)
  /\ \A g \in granted : g <= issued
  /\ \A t \in Tasks : seen[t].acc <= issued

\* What a task is about to store: a refresh the successor of what it read, a
\* login a grant nobody else has.
Minted ==
  /\ \A t \in Tasks : minted[t].acc <= issued /\ minted[t].grant <= issued
  /\ \A t \in Readers : pc[t] = "write" =>
       seen[t].acc \in spent /\ Lineage!Successor(seen[t], minted[t])
  /\ \A t \in Logins : pc[t] \in {"process", "flock", "write"} =>
       /\ minted[t].acc # 0 /\ minted[t].grant \notin granted
       /\ \A u \in Logins \ {t} : pc[u] \in {"process", "flock", "write"} =>
            minted[u].grant # minted[t].grant


Provenance == Numbered /\ Minted

\* Tokens and grants are numbered in the order of issue, and what is about to be
\* stored descends from what is stored.
LEMMA ProvenanceInit == Init => Provenance
<1> USE TasksAssumption DEF Types, Provenance, Numbered, Minted, Roles, Lineage!Successor, store, locks, locals, server, clock
<1>1. QED
  BY DEF Init, NoToken

LEMMA ProvenanceStep ==
  Types /\ Roles /\ RefreshIsCurrent /\ Provenance /\ [Next]_vars => Provenance'
<1> USE TasksAssumption DEF Types, Provenance, Numbered, Minted, Roles, Lineage!Successor, store, locks, locals, server, clock
<1> SUFFICES ASSUME Types, Roles, RefreshIsCurrent, Provenance, [Next]_vars
             PROVE  Provenance'
  OBVIOUS
<1>1. ASSUME NEW t \in Tasks, Begin(t) PROVE Provenance'
  BY <1>1 DEF Begin, Goto, Token, NoToken
<1>2. ASSUME NEW t \in Tasks, FastPath(t) PROVE Provenance'
  BY <1>2 DEF FastPath, Goto, Token, NoToken
<1>3. ASSUME NEW t \in Tasks, Reread(t) PROVE Provenance'
  BY <1>3 DEF Reread, Goto, Token, NoToken
<1>4. ASSUME NEW t \in Tasks, LoadRegistration(t) PROVE Provenance'
  BY <1>4 DEF LoadRegistration, Goto, Token, NoToken
<1>5. ASSUME NEW t \in Tasks, Exchange(t) PROVE Provenance'
  <2> DEFINE new == minted'[t]
  <2>1. t \in Readers /\ token = seen[t] /\ token # NoToken
    BY <1>5 DEF Exchange, RefreshIsCurrent
  <2>2. seen[t] \in Token /\ seen[t].acc <= issued /\ seen[t].grant <= issued
    BY <2>1 DEF Token
  <2>3. PICK r \in BOOLEAN : minted' = [minted EXCEPT ![t] = [seen[t] EXCEPT
          !.acc = issued', !.ref = IF r THEN issued' ELSE @]]
    BY <1>5 DEF Exchange
  <2>4. new = [seen[t] EXCEPT !.acc = issued', !.ref = IF r THEN issued' ELSE @]
    BY <2>3
  <2>5. /\ new.acc = issued' /\ new.ref \in {seen[t].ref, issued'}
        /\ new.client = seen[t].client /\ new.grant = seen[t].grant
    <3> HIDE DEF new
    <3>1. CASE r
      BY <2>2, <2>4, <3>1 DEF Token
    <3>2. CASE ~r
      BY <2>2, <2>4, <3>2 DEF Token
    <3>3. QED
      BY <3>1, <3>2
  <2>6. issued' = issued + 1 /\ \A u \in Tasks \ {t} : minted'[u] = minted[u] /\ pc'[u] = pc[u]
    BY <1>5, <2>3 DEF Exchange, Goto
  <2>7. Lineage!Successor(seen[t], new) /\ seen[t].acc \in spent'
    <3> HIDE DEF new
    <3>1. seen[t].acc \in Nat /\ issued \in Nat
      BY <2>2 DEF Token
    <3>2. new.acc > seen[t].acc
      BY <2>2, <2>5, <2>6, <3>1
    <3>3. spent' = spent \cup {seen[t].acc}
      BY <1>5 DEF Exchange
    <3>4. QED
      BY <2>5, <3>2, <3>3
  <2>8. Numbered'
    BY <1>5, <2>6 DEF Exchange, Token
  <2>9. \A u \in Tasks : minted'[u].acc <= issued' /\ minted'[u].grant <= issued'
    BY <2>2, <2>5, <2>6 DEF Token
  <2>10. \A u \in Readers : pc'[u] = "write" =>
           seen'[u].acc \in spent' /\ Lineage!Successor(seen'[u], minted'[u])
    BY <1>5, <2>6, <2>7 DEF Exchange
  <2>11. t \notin Logins
    BY <2>1
  <2>12. QED
    BY <1>5, <2>6, <2>8, <2>9, <2>10, <2>11 DEF Exchange
<1>6. ASSUME NEW t \in Tasks, Reject(t) PROVE Provenance'
  BY <1>6 DEF Reject, Goto, Token, NoToken
<1>7. ASSUME NEW t \in Tasks, RequestFails(t) PROVE Provenance'
  BY <1>7 DEF RequestFails, Goto, Token, NoToken
<1>8. ASSUME NEW t \in Tasks, Write(t) PROVE Provenance'
  <2>1. minted[t] \in Token /\ minted[t].acc <= issued /\ minted[t].grant <= issued
    OBVIOUS
  <2>2. Numbered'
    BY <1>8, <2>1 DEF Write, Token
  <2>3. CASE t \in Readers
    <3>1. minted[t].grant = token.grant /\ token # NoToken
      BY <1>8, <2>3 DEF Write, RefreshIsCurrent
    <3>2. granted' = granted
      BY <1>8, <3>1 DEF Write
    <3>3. QED
      BY <1>8, <2>2, <2>3, <3>2 DEF Write, Goto
  <2>4. CASE t \in Logins
    BY <1>8, <2>2, <2>4 DEF Write, Goto
  <2>5. QED
    BY <1>8, <2>3, <2>4 DEF Write
<1>9. ASSUME NEW t \in Tasks, NotStored(t) PROVE Provenance'
  BY <1>9 DEF NotStored, Goto, Token, NoToken
<1>10. ASSUME NEW t \in Tasks, Release(t) PROVE Provenance'
  BY <1>10 DEF Release, DropTaskLocks, Forget, Goto, Token, NoToken
<1>11. ASSUME NEW t \in Tasks, TakeProvider(t) PROVE Provenance'
  BY <1>11 DEF TakeProvider, Goto, Token, NoToken
<1>12. ASSUME NEW t \in Tasks, TakeProcess(t) PROVE Provenance'
  BY <1>12 DEF TakeProcess, Goto, Token, NoToken
<1>13. ASSUME NEW t \in Tasks, TakeFlock(t) PROVE Provenance'
  BY <1>13 DEF TakeFlock, Goto, Token, NoToken
<1>14. ASSUME NEW t \in Tasks, FlockTimeout(t) PROVE Provenance'
  BY <1>14 DEF FlockTimeout, DropTaskLocks, Forget, Goto, Token, NoToken
<1>15. ASSUME NEW t \in Tasks, LookUp(t) PROVE Provenance'
  BY <1>15 DEF LookUp, Goto, Token, NoToken
<1>16. ASSUME NEW t \in Tasks, Register(t) PROVE Provenance'
  BY <1>16 DEF Register, Goto, Token, NoToken
<1>17. ASSUME NEW t \in Tasks, Keep(t) PROVE Provenance'
  BY <1>17 DEF Keep, Goto, Token, NoToken
<1>18. ASSUME NEW t \in Tasks, Authorize(t) PROVE Provenance'
  BY <1>18 DEF Authorize, Goto, Token, NoToken
<1>19. ASSUME NEW t \in Tasks, Abandon(t) PROVE Provenance'
  BY <1>19 DEF Abandon, Forget, Goto, Token, NoToken
<1>20. ASSUME NEW t \in Tasks, DeleteToken(t) PROVE Provenance'
  BY <1>20 DEF DeleteToken, Goto, Token, NoToken
<1>21. ASSUME NEW t \in Tasks, DeleteRegistration(t) PROVE Provenance'
  BY <1>21 DEF DeleteRegistration, Goto, Token, NoToken
<1>22. ASSUME NEW t \in Tasks, StoreFault(t) PROVE Provenance'
  BY <1>22 DEF StoreFault, Forget, Goto, Token, NoToken
<1>23. ASSUME NEW a \in 1..issued, Expire(a) PROVE Provenance'
  BY <1>23 DEF Expire
<1>24. ASSUME NEW c \in 1..clients, Retire(c) PROVE Provenance'
  BY <1>24 DEF Retire
<1>25. ASSUME NEW b \in Brokers, Crash(b) PROVE Provenance'
  BY <1>25 DEF Crash, Token, NoToken
<1>26. CASE UNCHANGED vars
  BY <1>26 DEF vars
<1>27. QED
  BY <1>1, <1>2, <1>3, <1>4, <1>5, <1>6, <1>7, <1>8, <1>9, <1>10, <1>11, <1>12,
     <1>13, <1>14, <1>15, <1>16, <1>17, <1>18, <1>19, <1>20, <1>21, <1>22, <1>23,
     <1>24, <1>25, <1>26
     DEF Next, Environment, Step, Reading, Locking, LoggingInOrOut

LEMMA ProvenanceInvariant == Spec => []Provenance
<1>1. QED
  BY ProvenanceInit, ProvenanceStep, Typing, RolesInvariant, CurrentInvariant, PTL DEF Spec

LostWereSpent == lost \subseteq spent

\* Only a token the server exchanged can be recorded as lost.
LEMMA LostWereSpentInit == Init => LostWereSpent
<1> USE TasksAssumption DEF Types, LostWereSpent, Minted, Roles, store, locks, locals, server, clock
<1>1. QED
  BY DEF Init

LEMMA LostWereSpentStep ==
  Types /\ Roles /\ Minted /\ LostWereSpent /\ [Next]_vars => LostWereSpent'
<1> USE TasksAssumption DEF Types, LostWereSpent, Minted, Roles, store, locks, locals, server, clock
<1> SUFFICES ASSUME Types, Roles, Minted, LostWereSpent, [Next]_vars
             PROVE  LostWereSpent'
  OBVIOUS
<1>1. ASSUME NEW t \in Tasks, Begin(t) PROVE LostWereSpent'
  BY <1>1 DEF Begin, Goto
<1>2. ASSUME NEW t \in Tasks, FastPath(t) PROVE LostWereSpent'
  BY <1>2 DEF FastPath, Goto
<1>3. ASSUME NEW t \in Tasks, Reread(t) PROVE LostWereSpent'
  BY <1>3 DEF Reread, Goto
<1>4. ASSUME NEW t \in Tasks, LoadRegistration(t) PROVE LostWereSpent'
  BY <1>4 DEF LoadRegistration, Goto
<1>5. ASSUME NEW t \in Tasks, Exchange(t) PROVE LostWereSpent'
  BY <1>5 DEF Exchange, Goto
<1>6. ASSUME NEW t \in Tasks, Reject(t) PROVE LostWereSpent'
  BY <1>6 DEF Reject, Goto
<1>7. ASSUME NEW t \in Tasks, RequestFails(t) PROVE LostWereSpent'
  BY <1>7 DEF RequestFails, Goto
<1>8. ASSUME NEW t \in Tasks, Write(t) PROVE LostWereSpent'
  BY <1>8 DEF Write, Goto
<1>9. ASSUME NEW t \in Tasks, NotStored(t) PROVE LostWereSpent'
  BY <1>9 DEF NotStored, Goto
<1>10. ASSUME NEW t \in Tasks, Release(t) PROVE LostWereSpent'
  BY <1>10 DEF Release, DropTaskLocks, Forget, Goto
<1>11. ASSUME NEW t \in Tasks, TakeProvider(t) PROVE LostWereSpent'
  BY <1>11 DEF TakeProvider, Goto
<1>12. ASSUME NEW t \in Tasks, TakeProcess(t) PROVE LostWereSpent'
  BY <1>12 DEF TakeProcess, Goto
<1>13. ASSUME NEW t \in Tasks, TakeFlock(t) PROVE LostWereSpent'
  BY <1>13 DEF TakeFlock, Goto
<1>14. ASSUME NEW t \in Tasks, FlockTimeout(t) PROVE LostWereSpent'
  BY <1>14 DEF FlockTimeout, DropTaskLocks, Forget, Goto
<1>15. ASSUME NEW t \in Tasks, LookUp(t) PROVE LostWereSpent'
  BY <1>15 DEF LookUp, Goto
<1>16. ASSUME NEW t \in Tasks, Register(t) PROVE LostWereSpent'
  BY <1>16 DEF Register, Goto
<1>17. ASSUME NEW t \in Tasks, Keep(t) PROVE LostWereSpent'
  BY <1>17 DEF Keep, Goto
<1>18. ASSUME NEW t \in Tasks, Authorize(t) PROVE LostWereSpent'
  BY <1>18 DEF Authorize, Goto
<1>19. ASSUME NEW t \in Tasks, Abandon(t) PROVE LostWereSpent'
  BY <1>19 DEF Abandon, Forget, Goto
<1>20. ASSUME NEW t \in Tasks, DeleteToken(t) PROVE LostWereSpent'
  BY <1>20 DEF DeleteToken, Goto
<1>21. ASSUME NEW t \in Tasks, DeleteRegistration(t) PROVE LostWereSpent'
  BY <1>21 DEF DeleteRegistration, Goto
<1>22. ASSUME NEW t \in Tasks, StoreFault(t) PROVE LostWereSpent'
  BY <1>22 DEF StoreFault, Forget, Goto
<1>23. ASSUME NEW a \in 1..issued, Expire(a) PROVE LostWereSpent'
  BY <1>23 DEF Expire
<1>24. ASSUME NEW c \in 1..clients, Retire(c) PROVE LostWereSpent'
  BY <1>24 DEF Retire
<1>25. ASSUME NEW b \in Brokers, Crash(b) PROVE LostWereSpent'
  <2> DEFINE writers == {u \in {t \in Tasks : BrokerOf[t] = b} \cap Readers : pc[u] = "write"}
  <2>1. lost' = lost \cup {seen[t].acc : t \in writers} /\ spent' = spent
    BY <1>25 DEF Crash
  <2>2. {seen[t].acc : t \in writers} \subseteq spent
    OBVIOUS
  <2> HIDE DEF writers
  <2>3. QED
    BY <2>1, <2>2
<1>26. CASE UNCHANGED vars
  BY <1>26 DEF vars
<1>27. QED
  BY <1>1, <1>2, <1>3, <1>4, <1>5, <1>6, <1>7, <1>8, <1>9, <1>10, <1>11, <1>12,
     <1>13, <1>14, <1>15, <1>16, <1>17, <1>18, <1>19, <1>20, <1>21, <1>22, <1>23,
     <1>24, <1>25, <1>26
     DEF Next, Environment, Step, Reading, Locking, LoggingInOrOut

LEMMA LostInvariant == Spec => []LostWereSpent
<1>1. QED
  BY LostWereSpentInit, LostWereSpentStep, Typing, RolesInvariant, ProvenanceInvariant, PTL DEF Spec, Provenance

\* Every variable has its type and a lost answer is one the server gave, in
\* every reachable state of every instance.
THEOREM TypeCorrectness == Spec => []TypeOK
<1>1. Types /\ LostWereSpent => TypeOK
  BY DEF Types, LostWereSpent, TypeOK
<1>2. QED
  BY <1>1, Typing, LostInvariant, PTL

\* exclusive() admits one task over all processes and no lock is leaked
\* (credentials._exclusive, StoredTokenProvider._refresh).
THEOREM LocksAreHeldByTheirOwners == Spec => []LocksHeldByTheirOwners
BY LocksInvariant

\* No write slips between the re-read and the write of a refresh
\* (StoredTokenProvider._refresh, step 4).
THEOREM RefreshStaysCurrent == Spec => []RefreshIsCurrent
BY CurrentInvariant

\* The detailed protocol implements CredentialLineage: a stored token is only
\* ever replaced by its successor or by a grant never stored before, or removed.
THEOREM ImplementsLineage == Spec => StoreKeepsLineage
<1> USE TasksAssumption DEF Types, store, locks, locals, server, clock
<1>1. Init => Lineage!Init
  BY DEF Init, Lineage!Init, Lineage!Token, Lineage!NoToken, NoToken
<1>2. Types /\ Roles /\ RefreshIsCurrent /\ Provenance /\ [Next]_vars
        => [Lineage!Next]_(Lineage!vars)
  <2> SUFFICES ASSUME Types, Roles, RefreshIsCurrent, Provenance, [Next]_vars
               PROVE  [Lineage!Next]_(Lineage!vars)
    OBVIOUS
  <2> USE DEF Lineage!vars

  <2>1. ASSUME NEW t \in Tasks, Begin(t) PROVE [Lineage!Next]_(Lineage!vars)
    BY <2>1 DEF Begin
  <2>2. ASSUME NEW t \in Tasks, FastPath(t) PROVE [Lineage!Next]_(Lineage!vars)
    BY <2>2 DEF FastPath
  <2>3. ASSUME NEW t \in Tasks, Reread(t) PROVE [Lineage!Next]_(Lineage!vars)
    BY <2>3 DEF Reread
  <2>4. ASSUME NEW t \in Tasks, LoadRegistration(t) PROVE [Lineage!Next]_(Lineage!vars)
    BY <2>4 DEF LoadRegistration
  <2>5. ASSUME NEW t \in Tasks, Exchange(t) PROVE [Lineage!Next]_(Lineage!vars)
    BY <2>5 DEF Exchange
  <2>6. ASSUME NEW t \in Tasks, Reject(t) PROVE [Lineage!Next]_(Lineage!vars)
    BY <2>6 DEF Reject
  <2>7. ASSUME NEW t \in Tasks, RequestFails(t) PROVE [Lineage!Next]_(Lineage!vars)
    BY <2>7 DEF RequestFails
  <2>8. ASSUME NEW t \in Tasks, Write(t) PROVE [Lineage!Next]_(Lineage!vars)
    <3>1. token' = minted[t] /\ granted' = granted \cup {minted[t].grant}
      BY <2>8 DEF Write
    <3>2. token' \in Lineage!Token
      BY <3>1 DEF Lineage!Token, Token
    <3>3. CASE t \in Readers
      <4>1. token = seen[t] /\ token # NoToken /\ Lineage!Successor(token, token')
        BY <2>8, <3>1, <3>3 DEF Write, RefreshIsCurrent, Provenance, Minted
      <4>2. granted' = granted
        BY <3>1, <4>1 DEF Provenance, Numbered, Lineage!Successor
      <4>3. QED
        BY <3>2, <4>1, <4>2 DEF Lineage!Next, Lineage!Refresh, Lineage!NoToken, NoToken
    <3>4. CASE t \in Logins
      <4>1. minted[t].acc # 0 /\ minted[t].grant \notin granted
        BY <2>8, <3>4 DEF Write, Provenance, Minted
      <4>2. QED
        BY <3>1, <3>2, <4>1 DEF Lineage!Next, Lineage!Login, Lineage!NoToken
    <3>5. QED
      BY <2>8, <3>3, <3>4 DEF Write, Roles
  <2>9. ASSUME NEW t \in Tasks, NotStored(t) PROVE [Lineage!Next]_(Lineage!vars)
    BY <2>9 DEF NotStored
  <2>10. ASSUME NEW t \in Tasks, Release(t) PROVE [Lineage!Next]_(Lineage!vars)
    BY <2>10 DEF Release
  <2>11. ASSUME NEW t \in Tasks, TakeProvider(t) PROVE [Lineage!Next]_(Lineage!vars)
    BY <2>11 DEF TakeProvider
  <2>12. ASSUME NEW t \in Tasks, TakeProcess(t) PROVE [Lineage!Next]_(Lineage!vars)
    BY <2>12 DEF TakeProcess
  <2>13. ASSUME NEW t \in Tasks, TakeFlock(t) PROVE [Lineage!Next]_(Lineage!vars)
    BY <2>13 DEF TakeFlock
  <2>14. ASSUME NEW t \in Tasks, FlockTimeout(t) PROVE [Lineage!Next]_(Lineage!vars)
    BY <2>14 DEF FlockTimeout
  <2>15. ASSUME NEW t \in Tasks, LookUp(t) PROVE [Lineage!Next]_(Lineage!vars)
    BY <2>15 DEF LookUp
  <2>16. ASSUME NEW t \in Tasks, Register(t) PROVE [Lineage!Next]_(Lineage!vars)
    BY <2>16 DEF Register
  <2>17. ASSUME NEW t \in Tasks, Keep(t) PROVE [Lineage!Next]_(Lineage!vars)
    BY <2>17 DEF Keep
  <2>18. ASSUME NEW t \in Tasks, Authorize(t) PROVE [Lineage!Next]_(Lineage!vars)
    BY <2>18 DEF Authorize
  <2>19. ASSUME NEW t \in Tasks, Abandon(t) PROVE [Lineage!Next]_(Lineage!vars)
    BY <2>19 DEF Abandon
  <2>20. ASSUME NEW t \in Tasks, DeleteToken(t) PROVE [Lineage!Next]_(Lineage!vars)
    BY <2>20 DEF DeleteToken, Lineage!Next, Lineage!Logout, Lineage!NoToken, NoToken
  <2>21. ASSUME NEW t \in Tasks, DeleteRegistration(t) PROVE [Lineage!Next]_(Lineage!vars)
    BY <2>21 DEF DeleteRegistration
  <2>22. ASSUME NEW t \in Tasks, StoreFault(t) PROVE [Lineage!Next]_(Lineage!vars)
    BY <2>22 DEF StoreFault
  <2>23. ASSUME NEW a \in 1..issued, Expire(a) PROVE [Lineage!Next]_(Lineage!vars)
    BY <2>23 DEF Expire
  <2>24. ASSUME NEW c \in 1..clients, Retire(c) PROVE [Lineage!Next]_(Lineage!vars)
    BY <2>24 DEF Retire
  <2>25. ASSUME NEW b \in Brokers, Crash(b) PROVE [Lineage!Next]_(Lineage!vars)
    BY <2>25 DEF Crash
  <2>26. CASE UNCHANGED vars
    BY <2>26 DEF vars
  <2>27. QED
    BY <2>1, <2>2, <2>3, <2>4, <2>5, <2>6, <2>7, <2>8, <2>9, <2>10, <2>11, <2>12,
       <2>13, <2>14, <2>15, <2>16, <2>17, <2>18, <2>19, <2>20, <2>21, <2>22, <2>23,
       <2>24, <2>25, <2>26
       DEF Next, Environment, Step, Reading, Locking, LoggingInOrOut
<1>3. QED
  BY <1>1, <1>2, Typing, RolesInvariant, CurrentInvariant, ProvenanceInvariant, PTL
     DEF Spec, StoreKeepsLineage, Lineage!Spec

\* A token the server has issued and nobody has stored yet.
Pending(t) ==
  \/ t \in Readers /\ pc[t] = "write"
  \/ t \in Logins /\ pc[t] \in {"process", "flock", "write"}

\* The stored token was exchanged only if its successor is lost or about to be
\* written; while it was not, its refresh token is alive at the server.
StoredUnspent ==
  /\ (\A a \in spent : a <= issued) /\ (\A r \in alive : r <= issued)
  /\ token.ref <= issued
  /\ token # NoToken /\ token.acc \in spent =>
       token.acc \in lost \/ \E r \in Readers : pc[r] = "write" /\ seen[r] = token
  /\ token # NoToken /\ token.ref # NoRefresh => token.ref \in alive \/ token.acc \in spent

\* Pending tokens are new, their refresh tokens alive and their own.
PendingUnspent ==
  \A t \in Tasks : Pending(t) =>
    /\ minted[t].acc \notin spent \cup {token.acc, token.ref}
    /\ minted[t].ref \in alive \cup {NoRefresh}
    /\ t \in Logins => minted[t].ref \in {NoRefresh, minted[t].acc}
    /\ \A u \in Tasks \ {t} : Pending(u) =>
         minted[u].acc # minted[t].acc /\ minted[u].acc # minted[t].ref

Unspent ==
  /\ StoredUnspent
  /\ PendingUnspent
  /\ \A t \in Readers : pc[t] = "request" => seen[t].ref # NoRefresh
  /\ RefusalExplained

\* What the server has exchanged, what is stored and what is about to be stored
\* stay apart, except after a lost answer.
LEMMA UnspentInit == Init => Unspent
<1> USE TasksAssumption DEF Types, Unspent, StoredUnspent, PendingUnspent, Pending, RefusalExplained, NoRefresh,
           store, locks, locals, server, clock
<1>1. QED
  BY DEF Init, NoToken

LEMMA UnspentStep ==
  Types /\ Roles /\ LocksHeldByTheirOwners /\ RefreshIsCurrent /\ Provenance /\ Unspent /\ [Next]_vars => Unspent'
<1> USE TasksAssumption DEF Types, Unspent, StoredUnspent, PendingUnspent, Pending, RefusalExplained, NoRefresh,
           store, locks, locals, server, clock
<1> SUFFICES ASSUME Types, Roles, LocksHeldByTheirOwners, RefreshIsCurrent, Provenance, Unspent, [Next]_vars
             PROVE  Unspent'
  OBVIOUS
<1>1. ASSUME NEW t \in Tasks, Begin(t) PROVE Unspent'
  BY <1>1 DEF Begin, Goto, Token, NoToken, Roles
<1>2. ASSUME NEW t \in Tasks, FastPath(t) PROVE Unspent'
  BY <1>2 DEF FastPath, Goto, Token, NoToken, Roles
<1>3. ASSUME NEW t \in Tasks, Reread(t) PROVE Unspent'
  BY <1>3 DEF Reread, Goto, Token, NoToken, Roles
<1>4. ASSUME NEW t \in Tasks, LoadRegistration(t) PROVE Unspent'
  BY <1>4 DEF LoadRegistration, Goto, Token, NoToken, Roles
<1>5. ASSUME NEW t \in Tasks, Exchange(t) PROVE Unspent'
  <2>1. PICK r \in BOOLEAN :
          /\ minted' = [minted EXCEPT ![t] = [seen[t] EXCEPT
                          !.acc = issued', !.ref = IF r THEN issued' ELSE @]]
          /\ alive' = IF r THEN (alive \ {seen[t].ref}) \cup {issued'} ELSE alive
    BY <1>5 DEF Exchange
  <2>2. /\ t \in Readers /\ issued' = issued + 1 /\ issued \in Nat
        /\ UNCHANGED <<token, seen, client, lost>> /\ spent' = spent \cup {token.acc}
        /\ pc' = [pc EXCEPT ![t] = "write"] /\ token = seen[t] /\ token # NoToken
        /\ token.ref \in alive /\ token.ref # NoRefresh /\ pc[t] = "request"
    BY <1>5 DEF Exchange, Goto, Roles, RefreshIsCurrent, Accepts
  <2>3. minted'[t].acc = issued + 1 /\ minted'[t].ref = IF r THEN issued + 1 ELSE token.ref
    <3>1. seen[t] \in Token
      OBVIOUS
    <3>2. CASE r
      BY <2>1, <2>2, <3>1, <3>2 DEF Token
    <3>3. CASE ~r
      BY <2>1, <2>2, <3>1, <3>3 DEF Token
    <3>4. QED
      BY <3>2, <3>3
  <2>4. \A u \in Tasks \ {t} : minted'[u] = minted[u] /\ pc'[u] = pc[u]
    BY <2>1, <2>2
  <2>5. \A u \in Tasks : minted[u].acc \in Nat /\ minted[u].acc <= issued
    BY DEF Token, Provenance, Minted
  <2>6. \A u \in Tasks : Pending(u) => minted[u].ref <= issued
    <3>1. \A u \in Tasks : Pending(u) => minted[u].ref \in alive \cup {NoRefresh}
      OBVIOUS
    <3>2. (\A x \in alive : x <= issued) /\ 0 <= issued
      BY <2>2
    <3>3. QED
      BY ONLY <3>1, <3>2 DEF NoRefresh
  <2>7. token.acc <= issued /\ token.ref <= issued /\ token.acc \in Nat /\ token.ref \in Nat
    BY DEF Provenance, Numbered, Token
  <2>8. \A u \in Tasks \ {t} : Pending(u) => u \in Logins
    BY <2>2 DEF LocksHeldByTheirOwners, Section
  <2>9. StoredUnspent'
    <3>1. (\A a \in spent' : a <= issued') /\ (\A x \in alive' : x <= issued')
      BY <2>1, <2>2, <2>7
    <3>2. pc'[t] = "write" /\ seen'[t] = token'
      BY <2>2
    <3>3. token'.ref <= issued'
      BY <2>2, <2>7
    <3>4. \E x \in Readers : pc'[x] = "write" /\ seen'[x] = token'
      BY <2>2, <3>2
    <3>5. token'.acc \in spent'
      BY <2>2
    <3>6. QED
      BY <3>1, <3>3, <3>4, <3>5
  <2>10. PendingUnspent'
    <3>1. ASSUME NEW u \in Tasks, Pending(u)'
          PROVE  /\ minted'[u].acc \notin spent' \cup {token.acc, token.ref}
                 /\ minted'[u].ref \in alive' \cup {NoRefresh}
                 /\ u \in Logins => minted'[u].ref \in {NoRefresh, minted'[u].acc}
      <4>1. CASE u = t
        BY <2>1, <2>2, <2>3, <2>7, <4>1
      <4>2. CASE u # t
        BY <2>1, <2>2, <2>4, <2>7, <2>8, <3>1, <4>2
      <4>3. QED
        BY <4>1, <4>2
    <3>2. ASSUME NEW u \in Tasks, Pending(u)', NEW v \in Tasks \ {u}, Pending(v)'
          PROVE  minted'[v].acc # minted'[u].acc /\ minted'[v].acc # minted'[u].ref
      <4>1. CASE u = t
        BY <2>2, <2>3, <2>4, <2>5, <2>7, <3>2, <4>1
      <4>2. CASE v = t
        BY <2>2, <2>3, <2>4, <2>5, <2>6, <3>2, <4>2
      <4>3. CASE u # t /\ v # t
        BY <2>4, <3>2, <4>3
      <4>4. QED
        BY <4>1, <4>2, <4>3
    <3>3. QED
      BY <2>2, <3>1, <3>2
  <2>11. QED
    BY <2>2, <2>9, <2>10
<1>6. ASSUME NEW t \in Tasks, Reject(t) PROVE Unspent'
  <2>1. t \in Readers /\ token = seen[t] /\ token # NoToken /\ seen[t].ref # NoRefresh
    BY <1>6 DEF Reject, RefreshIsCurrent, Roles
  <2>2. \A r \in Readers : pc[r] # "write"
    BY <1>6 DEF Reject, LocksHeldByTheirOwners, Section
  <2>3. seen[t].acc \in lost \/ seen[t].client # client[t]
    BY <1>6, <2>1, <2>2 DEF Reject, Accepts
  <2>4. QED
    BY <1>6, <2>3 DEF Reject, Goto
<1>7. ASSUME NEW t \in Tasks, RequestFails(t) PROVE Unspent'
  BY <1>7 DEF RequestFails, Goto, Token, NoToken, Roles
<1>8. ASSUME NEW t \in Tasks, Write(t) PROVE Unspent'
  BY <1>8 DEF Write, Goto, Token, NoToken, Roles
<1>9. ASSUME NEW t \in Tasks, NotStored(t) PROVE Unspent'
  BY <1>9 DEF NotStored, Goto, Token, NoToken, Roles
<1>10. ASSUME NEW t \in Tasks, Release(t) PROVE Unspent'
  BY <1>10 DEF Release, DropTaskLocks, Forget, Goto, Token, NoToken, Roles
<1>11. ASSUME NEW t \in Tasks, TakeProvider(t) PROVE Unspent'
  BY <1>11 DEF TakeProvider, Goto, Token, NoToken, Roles
<1>12. ASSUME NEW t \in Tasks, TakeProcess(t) PROVE Unspent'
  BY <1>12 DEF TakeProcess, Goto, Token, NoToken, Roles
<1>13. ASSUME NEW t \in Tasks, TakeFlock(t) PROVE Unspent'
  BY <1>13 DEF TakeFlock, Goto, Token, NoToken, Roles
<1>14. ASSUME NEW t \in Tasks, FlockTimeout(t) PROVE Unspent'
  BY <1>14 DEF FlockTimeout, DropTaskLocks, Forget, Goto, Token, NoToken, Roles
<1>15. ASSUME NEW t \in Tasks, LookUp(t) PROVE Unspent'
  BY <1>15 DEF LookUp, Goto, Token, NoToken, Roles
<1>16. ASSUME NEW t \in Tasks, Register(t) PROVE Unspent'
  BY <1>16 DEF Register, Goto, Token, NoToken, Roles
<1>17. ASSUME NEW t \in Tasks, Keep(t) PROVE Unspent'
  BY <1>17 DEF Keep, Goto, Token, NoToken, Roles
<1>18. ASSUME NEW t \in Tasks, Authorize(t) PROVE Unspent'
  <2>1. PICK r \in {NoRefresh, issued'} :
          /\ minted' = [minted EXCEPT ![t] =
               [acc |-> issued', ref |-> r, client |-> client[t], grant |-> issued']]
          /\ alive' = alive \cup ({r} \ {NoRefresh})
    BY <1>18 DEF Authorize
  <2>2. /\ t \in Logins /\ issued' = issued + 1 /\ issued \in Nat
        /\ UNCHANGED <<token, seen, client, spent, lost>>
        /\ pc' = [pc EXCEPT ![t] = "process"] /\ pc[t] = "browser"
    BY <1>18 DEF Authorize, Goto, Roles
  <2>3. minted'[t].acc = issued + 1 /\ minted'[t].ref = r
    BY <2>1, <2>2
  <2>4. \A u \in Tasks \ {t} : minted'[u] = minted[u] /\ pc'[u] = pc[u]
    BY <2>1, <2>2
  <2>5. \A u \in Tasks : minted[u].acc \in Nat /\ minted[u].acc <= issued
    BY DEF Token, Provenance, Minted
  <2>6. \A u \in Tasks : Pending(u) => minted[u].ref <= issued
    <3>1. \A u \in Tasks : Pending(u) => minted[u].ref \in alive \cup {NoRefresh}
      OBVIOUS
    <3>2. (\A x \in alive : x <= issued) /\ 0 <= issued
      BY <2>2
    <3>3. QED
      BY ONLY <3>1, <3>2 DEF NoRefresh
  <2>7. token.acc <= issued /\ token.ref <= issued /\ token.acc \in Nat /\ token.ref \in Nat
    BY DEF Provenance, Numbered, Token
  <2>8. t \notin Readers
    BY <2>2
  <2>a. \A u \in Tasks : Pending(u) => minted[u].acc # NoRefresh
    BY DEF Provenance, Minted, Lineage!Successor, Token
  <2>9. StoredUnspent'
    <3>1. (\A a \in spent' : a <= issued') /\ token'.ref <= issued'
      BY <2>2, <2>7
    <3>2. \A x \in alive' : x <= issued'
      BY <2>1, <2>2
    <3>3. alive \subseteq alive'
      BY <2>1
    <3>4. \A x \in Readers : pc'[x] = pc[x]
      BY <2>4, <2>8
    <3>5. token # NoToken /\ token.acc \in spent =>
            token.acc \in lost \/ \E x \in Readers : pc'[x] = "write" /\ seen[x] = token
      BY <3>4
    <3>6. QED
      BY <2>2, <3>1, <3>2, <3>3, <3>5
  <2>10. PendingUnspent'
    <3>1. ASSUME NEW u \in Tasks, Pending(u)'
          PROVE  /\ minted'[u].acc \notin spent \cup {token.acc, token.ref}
                 /\ minted'[u].ref \in alive' \cup {NoRefresh}
                 /\ u \in Logins => minted'[u].ref \in {NoRefresh, minted'[u].acc}
      BY <2>1, <2>2, <2>3, <2>4, <2>7, <3>1
    <3>2. ASSUME NEW u \in Tasks, Pending(u)', NEW v \in Tasks \ {u}, Pending(v)'
          PROVE  minted'[v].acc # minted'[u].acc /\ minted'[v].acc # minted'[u].ref
      <4>1. CASE u = t
        BY <2>a, <2>1, <2>2, <2>3, <2>4, <2>5, <3>2, <4>1
      <4>2. CASE v = t
        BY <2>2, <2>3, <2>4, <2>5, <2>6, <3>2, <4>2
      <4>3. CASE u # t /\ v # t
        BY <2>4, <3>2, <4>3
      <4>4. QED
        BY <4>1, <4>2, <4>3
    <3>3. QED
      BY <2>2, <3>1, <3>2
  <2>11. QED
    BY <2>2, <2>9, <2>10
<1>19. ASSUME NEW t \in Tasks, Abandon(t) PROVE Unspent'
  BY <1>19 DEF Abandon, Forget, Goto, Token, NoToken, Roles
<1>20. ASSUME NEW t \in Tasks, DeleteToken(t) PROVE Unspent'
  <2>1. \A u \in Tasks : Pending(u) => minted[u].acc # 0
    BY DEF Provenance, Minted, Lineage!Successor, Token
  <2>2. PendingUnspent'
    BY <1>20, <2>1 DEF DeleteToken, Goto, NoToken
  <2>3. StoredUnspent'
    BY <1>20 DEF DeleteToken, Goto, NoToken
  <2>4. QED
    BY <1>20, <2>2, <2>3 DEF DeleteToken, Goto
<1>21. ASSUME NEW t \in Tasks, DeleteRegistration(t) PROVE Unspent'
  BY <1>21 DEF DeleteRegistration, Goto, Token, NoToken, Roles
<1>22. ASSUME NEW t \in Tasks, StoreFault(t) PROVE Unspent'
  <2>1. /\ UNCHANGED <<token, alive, issued, spent, lost>>
        /\ \A u \in Tasks \ {t} : /\ pc'[u] = pc[u] /\ seen'[u] = seen[u]
                                  /\ client'[u] = client[u] /\ minted'[u] = minted[u]
        /\ pc'[t] \in {"idle", "release"} /\ pc[t] # "write"
    BY <1>22 DEF StoreFault, Forget, Goto
  <2>2. StoredUnspent'
    BY <2>1
  <2>3. PendingUnspent'
    BY <2>1
  <2>4. QED
    BY <2>1, <2>2, <2>3
<1>23. ASSUME NEW a \in 1..issued, Expire(a) PROVE Unspent'
  BY <1>23 DEF Expire
<1>24. ASSUME NEW c \in 1..clients, Retire(c) PROVE Unspent'
  BY <1>24 DEF Retire
<1>25. ASSUME NEW b \in Brokers, Crash(b) PROVE Unspent'
  BY <1>25 DEF Crash, Token, NoToken, Roles
<1>26. CASE UNCHANGED vars
  BY <1>26 DEF vars
<1>27. QED
  BY <1>1, <1>2, <1>3, <1>4, <1>5, <1>6, <1>7, <1>8, <1>9, <1>10, <1>11, <1>12,
     <1>13, <1>14, <1>15, <1>16, <1>17, <1>18, <1>19, <1>20, <1>21, <1>22, <1>23,
     <1>24, <1>25, <1>26
     DEF Next, Environment, Step, Reading, Locking, LoggingInOrOut

LEMMA UnspentInvariant == Spec => []Unspent
<1>1. QED
  BY UnspentInit, UnspentStep, Typing, RolesInvariant, LocksInvariant, CurrentInvariant,
     ProvenanceInvariant, PTL DEF Spec

-----------------------------------------------------------------------------
LEMMA UnspentMeansNoReplay ==
  LocksHeldByTheirOwners /\ RefreshIsCurrent /\ Unspent /\ Roles => NoReplay
<1> SUFFICES ASSUME LocksHeldByTheirOwners, RefreshIsCurrent, Unspent, Roles,
                    NEW t \in Readers, pc[t] = "request", seen[t].acc \in spent
             PROVE  seen[t].acc \in lost
  BY DEF NoReplay
<1>1. token = seen[t] /\ token # NoToken
  BY DEF RefreshIsCurrent
<1>2. \A r \in Readers : pc[r] # "write"
  BY TasksAssumption DEF LocksHeldByTheirOwners, Section
<1>3. QED
  BY <1>1, <1>2 DEF Unspent, StoredUnspent

LEMMA UnspentMeansExplained == Unspent => RefusalExplained
BY DEF Unspent

\* A refresh token is spent twice only after a lost answer (NoReplay).
THEOREM NoTokenIsSpentTwice == Spec => []NoReplay
<1>1. QED
  BY UnspentMeansNoReplay, LocksInvariant, CurrentInvariant, UnspentInvariant, RolesInvariant, PTL

\* The server refuses a refresh only for one of the two reasons RefusalExplained
\* gives: no retry, second task or second process can make it refuse.
THEOREM RefusalsAreExplained == Spec => []RefusalExplained
<1>1. QED
  BY UnspentMeansExplained, UnspentInvariant, PTL

-----------------------------------------------------------------------------
(* With cancellation *)

\* A step that cancels nothing and lands nothing is a step of TokenRefresh.
LEMMA OtherStepsAreSteps ==
  ASSUME [CNext]_cvars,
         ~(\E t \in Tasks : Cancel(t)), ~(\E b \in Brokers : Land(b))
  PROVE  [Next]_vars
<1>1. CASE \E b \in Brokers : CrashThreads(b)
  BY <1>1 DEF CrashThreads, Next, Environment
<1>2. CASE UNCHANGED cvars
  BY <1>2 DEF cvars
<1>3. CASE \/ \E t \in Tasks : Begin(t) \/ Step(t)
           \/ \E a \in 1..issued : Expire(a)
           \/ \E c \in 1..clients : Retire(c)
  BY <1>3 DEF Next, Environment
<1>4. QED
  BY <1>1, <1>2, <1>3 DEF CNext

\* The tokens of abandoned writes.
AbandonedTypes == writing \in [Brokers -> SUBSET Token]

LEMMA AbandonedTypesStep ==
  ASSUME Types, AbandonedTypes, [CNext]_cvars
  PROVE  AbandonedTypes'
<1> USE TasksAssumption DEF AbandonedTypes
<1>1. CASE \E t \in Tasks : Cancel(t)
  <2>1. PICK t \in Tasks : Cancel(t)
    BY <1>1
  <2>2. BrokerOf[t] \in Brokers /\ minted[t] \in Token
    BY DEF Types
  <2>3. \/ writing' = writing
        \/ writing' = [writing EXCEPT ![BrokerOf[t]] = @ \cup {minted[t]}]
    BY <2>1 DEF Cancel
  <2>4. QED
    BY <2>2, <2>3
<1>2. CASE \E b \in Brokers : Land(b)
  BY <1>2 DEF Land
<1>3. CASE \E b \in Brokers : CrashThreads(b)
  BY <1>3 DEF CrashThreads
<1>4. CASE writing' = writing
  BY <1>4
<1>5. QED
  BY <1>1, <1>2, <1>3, <1>4 DEF CNext, cvars

LEMMA CancelKeepsLocks ==
  ASSUME Types, Roles, LocksHeldByTheirOwners, NEW t \in Tasks, Cancel(t)
  PROVE  Types' /\ Roles' /\ LocksHeldByTheirOwners'
<1> USE TasksAssumption DEF store, server, clock
<1>1. Types'
  <2>1. seen[t].acc \in Nat
    BY DEF Types, Token
  <2>2. lost' \subseteq Nat
    BY <2>1 DEF Cancel, Types
  <2>3. NoToken \in Token /\ NoClient \in Nat /\ "idle" \in Labels
    BY DEF Token, NoToken, NoClient, Labels
  <2>4. QED
    BY <2>2, <2>3 DEF Types, Cancel, DropTaskLocks, Forget, Goto
<1>2. Roles'
  BY DEF Types, Roles, Cancel, Goto
<1>3. LocksHeldByTheirOwners'
  BY DEF Types, LocksHeldByTheirOwners, Section, Labels, Cancel, DropTaskLocks, Forget, Goto
<1>4. QED
  BY <1>1, <1>2, <1>3

LEMMA LandKeepsLocks ==
  ASSUME Types, AbandonedTypes, Roles, LocksHeldByTheirOwners, NEW b \in Brokers, Land(b)
  PROVE  Types' /\ Roles' /\ LocksHeldByTheirOwners'
<1>1. PICK w \in writing[b] : token' = w /\ granted' = granted \cup {w.grant}
  BY DEF Land
<1>2. w \in Token /\ w.grant \in Nat
  BY <1>1 DEF AbandonedTypes, Token
<1>3. UNCHANGED <<registration, locks, pc, locals, clock, server, crashes, lost>>
  BY DEF Land
<1>4. QED
  BY <1>1, <1>2, <1>3 DEF Types, Roles, LocksHeldByTheirOwners, locks, locals, clock, server

CInv == Types /\ AbandonedTypes /\ Roles /\ LocksHeldByTheirOwners

LEMMA CInvStep == CInv /\ [CNext]_cvars => CInv'
<1> SUFFICES ASSUME CInv, [CNext]_cvars PROVE CInv'
  OBVIOUS
<1>1. AbandonedTypes'
  BY AbandonedTypesStep DEF CInv
<1>2. Types' /\ Roles' /\ LocksHeldByTheirOwners'
  <2>1. CASE \E t \in Tasks : Cancel(t)
    BY <2>1, CancelKeepsLocks DEF CInv
  <2>2. CASE \E b \in Brokers : Land(b)
    BY <2>2, LandKeepsLocks DEF CInv
  <2>3. CASE ~(\E t \in Tasks : Cancel(t)) /\ ~(\E b \in Brokers : Land(b))
    <3>1. [Next]_vars
      BY <2>3, OtherStepsAreSteps
    <3>2. QED
      BY <3>1, TypesStep, RolesStep, LocksHeldByTheirOwnersStep DEF CInv
  <2>4. QED
    BY <2>1, <2>2, <2>3
<1>3. QED
  BY <1>1, <1>2 DEF CInv

LEMMA CInvInvariant == CSpec => []CInv
<1>1. CInit => CInv
  BY TypesInit, RolesInit, LocksHeldByTheirOwnersInit DEF CInit, CInv, AbandonedTypes
<1>2. QED
  BY <1>1, CInvStep, PTL DEF CSpec

\* Whatever the number of tasks and processes and wherever a call is cancelled,
\* exclusive() admits one task and no lock stays with a call that is over.
THEOREM LocksSurviveCancellation == CSpec => []LocksHeldByTheirOwners
<1>1. CInv => LocksHeldByTheirOwners
  BY DEF CInv
<1>2. QED
  BY <1>1, CInvInvariant, PTL

-----------------------------------------------------------------------------
(* Without a cancelled call *)

Uncancelled == cancels = 0

\* As long as nothing was cancelled no write is abandoned.
NothingAbandoned == cancels \in Nat /\ (Uncancelled => \A b \in Brokers : writing[b] = {})

LEMMA NothingAbandonedStep ==
  NothingAbandoned /\ AbandonedTypes /\ [CNext]_cvars => NothingAbandoned'
<1> SUFFICES ASSUME NothingAbandoned, AbandonedTypes, [CNext]_cvars PROVE NothingAbandoned'
  OBVIOUS
<1> USE DEF NothingAbandoned, Uncancelled
<1>1. CASE \E t \in Tasks : Cancel(t)
  BY <1>1 DEF Cancel
<1>2. CASE \E b \in Brokers : Land(b)
  BY <1>2 DEF Land, AbandonedTypes
<1>3. CASE \E b \in Brokers : CrashThreads(b)
  BY <1>3 DEF CrashThreads, AbandonedTypes
<1>4. CASE UNCHANGED <<writing, cancels>>
  BY <1>4
<1>5. QED
  BY <1>1, <1>2, <1>3, <1>4 DEF CNext, cvars

LEMMA NothingAbandonedInvariant == CSpec => []NothingAbandoned
<1>1. CInit => NothingAbandoned
  BY DEF CInit, NothingAbandoned
<1>2. CInv => AbandonedTypes
  BY DEF CInv
<1>3. QED
  BY <1>1, <1>2, NothingAbandonedStep, CInvInvariant, PTL DEF CSpec

LEMMA UncancelledSteps ==
  NothingAbandoned /\ Uncancelled /\ Uncancelled' /\ [CNext]_cvars => [Next]_vars
<1> SUFFICES ASSUME NothingAbandoned, Uncancelled, Uncancelled', [CNext]_cvars
             PROVE  [Next]_vars
  OBVIOUS
<1>1. ~(\E t \in Tasks : Cancel(t))
  BY DEF Cancel, Uncancelled
<1>2. ~(\E b \in Brokers : Land(b))
  BY DEF Land, NothingAbandoned
<1>3. QED
  BY <1>1, <1>2, OtherStepsAreSteps

\* A run in which no call is cancelled is a run of TokenRefresh, so that all its
\* theorems hold of it.
THEOREM UncancelledIsTokenRefresh == CSpec /\ []Uncancelled => Spec
<1>1. CInit => Init
  BY DEF CInit
<1>2. QED
  BY <1>1, UncancelledSteps, NothingAbandonedInvariant, PTL DEF CSpec, Spec

\* What TokenRefresh knows of the stored token, until the first cancellation.
Undisturbed ==
  Uncancelled => Types /\ Roles /\ LocksHeldByTheirOwners /\ RefreshIsCurrent /\ Provenance /\ Unspent

LEMMA UndisturbedStep ==
  Undisturbed /\ NothingAbandoned /\ [CNext]_cvars => Undisturbed'
<1> SUFFICES ASSUME Undisturbed, NothingAbandoned, [CNext]_cvars, Uncancelled'
             PROVE  Undisturbed'
  BY DEF Undisturbed
<1>1. Uncancelled
  BY DEF CNext, cvars, Cancel, Land, CrashThreads, Uncancelled, NothingAbandoned
<1>2. [Next]_vars
  BY <1>1, UncancelledSteps
<1>3. QED
  BY <1>1, <1>2, TypesStep, RolesStep, LocksHeldByTheirOwnersStep, RefreshIsCurrentStep,
     ProvenanceStep, UnspentStep
     DEF Undisturbed

\* A token is spent twice, or a refresh refused for no reason the code knows,
\* only after a call was cancelled: the write a cancellation leaves behind
\* is the one way around the re-read under the locks.
THEOREM OnlyCancellationReplays == CSpec => [](Uncancelled => NoReplay /\ RefusalExplained)
<1>1. CInit => Undisturbed
  BY TypesInit, RolesInit, LocksHeldByTheirOwnersInit, RefreshIsCurrentInit, ProvenanceInit,
     UnspentInit
     DEF CInit, Undisturbed
<1>2. CSpec => []Undisturbed
  BY <1>1, UndisturbedStep, NothingAbandonedInvariant, PTL DEF CSpec
<1>3. Undisturbed => (Uncancelled => NoReplay /\ RefusalExplained)
  BY UnspentMeansNoReplay, UnspentMeansExplained DEF Undisturbed
<1>4. QED
  BY <1>2, <1>3, PTL
=============================================================================
