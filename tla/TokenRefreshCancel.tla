------------------------- MODULE TokenRefreshCancel -------------------------
(****************************************************************************)
(* TokenRefresh with asyncio cancellation of access_token() calls: a        *)
(* gateway that closes, or a caller's cancel scope, cancels the task at the *)
(* await it is in.  The store's file operations run in worker threads       *)
(* (asyncio.to_thread), which a cancellation does not stop: a write whose   *)
(* thread has started still lands, after the context managers have given    *)
(* the locks back.                                                          *)
(****************************************************************************)
EXTENDS TokenRefresh

CONSTANT MaxCancels   \* bound: cancelled calls

ASSUME CancelsAssumption == MaxCancels \in Nat

VARIABLES
  writing,   \* per broker: tokens whose write outlives its cancelled task
  cancels    \* cancelled calls so far

cvars == <<vars, writing, cancels>>

CInit ==
  /\ Init
  /\ writing = [b \in Brokers |-> {}]
  /\ cancels = 0

\* Faulty: the lock file is released on return only, not in a finally.
CancelKeepsFlock(t) ==
  /\ t \in Readers /\ pc[t] # "idle"
  /\ cancels < MaxCancels
  /\ cancels' = cancels + 1
  /\ DropTaskLocks(t)
  /\ Forget(t)
  /\ Goto(t, "idle")
  /\ UNCHANGED <<store, flock, clock, server, crashes, lost, writing>>

\* Faulty: the asyncio locks are taken without a context manager.
CancelKeepsTaskLocks(t) ==
  /\ t \in Readers /\ pc[t] # "idle"
  /\ cancels < MaxCancels
  /\ cancels' = cancels + 1
  /\ flock' = IF flock = t THEN NoTask ELSE flock
  /\ Forget(t)
  /\ Goto(t, "idle")
  /\ UNCHANGED <<store, plock, slock, clock, server, crashes, lost, writing>>

\* The await raises CancelledError and every context manager that was entered
\* exits.  A token already issued is lost, unless its write has a thread.
Cancel(t) ==
  /\ t \in Readers /\ pc[t] # "idle"
  /\ cancels < MaxCancels
  /\ cancels' = cancels + 1
  /\ flock' = IF flock = t THEN NoTask ELSE flock
  /\ DropTaskLocks(t)
  /\ Forget(t)
  /\ Goto(t, "idle")
  /\ \/ /\ pc[t] = "write"
        /\ writing' = [writing EXCEPT ![BrokerOf[t]] = @ \cup {minted[t]}]
        /\ UNCHANGED lost
     \/ /\ lost' = IF pc[t] = "write" THEN lost \cup {seen[t].acc} ELSE lost
        /\ UNCHANGED writing
  /\ UNCHANGED <<store, clock, server, crashes>>

\* os.replace of a write nobody awaits any more.
Land(b) ==
  \E w \in writing[b] :
    /\ writing' = [writing EXCEPT ![b] = @ \ {w}]
    /\ token' = w
    /\ granted' = granted \cup {w.grant}
    /\ UNCHANGED <<registration, locks, pc, locals, clock, server, crashes, lost, cancels>>

\* A crash takes the threads of the process with it.
CrashThreads(b) ==
  /\ Crash(b)
  /\ writing' = [writing EXCEPT ![b] = {}]
  /\ UNCHANGED cancels

CNext ==
  \/ \E t \in Tasks : Begin(t) /\ UNCHANGED <<writing, cancels>>
  \/ \E t \in Tasks : Step(t) /\ UNCHANGED <<writing, cancels>>
  \/ \E a \in 1..issued : Expire(a) /\ UNCHANGED <<writing, cancels>>
  \/ \E c \in 1..clients : Retire(c) /\ UNCHANGED <<writing, cancels>>
  \/ \E b \in Brokers : CrashThreads(b)
  \/ \E t \in Tasks : Cancel(t)
  \/ \E b \in Brokers : Land(b)

CSpec == CInit /\ [][CNext]_cvars

\* Every await of a call is bounded by a timeout (HTTP, callback, lock poll) or
\* by the holder of an asyncio.Lock, whose waiters are served in FIFO order.
CFairness ==
  \A t \in Tasks :
    /\ WF_cvars(Step(t) /\ UNCHANGED <<writing, cancels>>)
    /\ SF_cvars(TakeProvider(t) /\ UNCHANGED <<writing, cancels>>)
    /\ SF_cvars(TakeProcess(t) /\ UNCHANGED <<writing, cancels>>)

CFairSpec == CSpec /\ CFairness
=============================================================================
