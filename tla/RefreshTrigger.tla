--------------------------- MODULE RefreshTrigger ---------------------------
(****************************************************************************)
(* local_refresh_trigger.sh, which launchd starts every hour and never      *)
(* twice at once: it asks GitHub for today's runs, dispatches a run of the  *)
(* workflow, looks for it in the list, and keeps the machine awake until it *)
(* has completed.  The owner dispatches runs as well.  GitHub's list lags   *)
(* behind the dispatches, and the script is shown only its newest entries.  *)
(****************************************************************************)
EXTENDS WorkflowRuns, FiniteSets

CONSTANTS
  MaxDailyAttempts,
  ListLimit           \* --limit 20

ASSUME TriggerAssumption == MaxDailyAttempts \in Nat \ {0} /\ ListLimit \in Nat

VARIABLES
  listed,    \* GitHub lists the runs up to this one
  trigger,   \* the running script: [pc, today], and its run once it is dispatched
  late       \* history: the script has started before all its runs were listed

vars == <<runVars, listed, trigger, late>>

TriggerInit == Init /\ listed = 0 /\ trigger = [pc |-> "off"] /\ late = FALSE

ByTrigger == {i \in DOMAIN runs : runs[i].by = "trigger"}

RunsOn(d) == {i \in DOMAIN runs : runs[i].day = d}

\* What `gh run list` shows: the newest of the runs listed by now.
Shown == {i \in 1..listed : i + ListLimit > listed}

\* Faulty: a run that has not ended does not count.
SuccessOnly(d) == {i \in RunsOn(d) \cap Shown : runs[i].status = "success"}

ActiveOrSuccess(d) == {i \in RunsOn(d) \cap Shown : runs[i].status # "failure"}

\* Faulty: -gt for -ge.
AttemptsLeftOffByOne(d) == Cardinality(RunsOn(d) \cap Shown) <= MaxDailyAttempts

AttemptsLeft(d) == Cardinality(RunsOn(d) \cap Shown) < MaxDailyAttempts

\* `today` is read once, before the questions, and in UTC as GitHub's dates are.
Wake ==
  /\ trigger.pc = "off"
  /\ trigger' = [pc |-> "history", today |-> day]
  /\ late' = (late \/ \E i \in ByTrigger : i > listed)
  /\ UNCHANGED <<runVars, listed>>

AskForRuns ==
  /\ trigger.pc = "history" /\ ActiveOrSuccess(trigger.today) = {}
  /\ trigger' = [trigger EXCEPT !.pc = "attempts"]
  /\ UNCHANGED <<runVars, listed, late>>

AskForAttempts ==
  /\ trigger.pc = "attempts" /\ AttemptsLeft(trigger.today)
  /\ trigger' = [trigger EXCEPT !.pc = "dispatch"]
  /\ UNCHANGED <<runVars, listed, late>>

DispatchOne ==
  /\ trigger.pc = "dispatch"
  /\ Dispatch("trigger")
  /\ trigger' = [pc |-> "find", id |-> Len(runs')]
  /\ UNCHANGED <<listed, late>>

\* The run is found by the title that the dispatch gave it.
FindRun ==
  /\ trigger.pc = "find" /\ trigger.id \in Shown
  /\ trigger' = [trigger EXCEPT !.pc = "watch"]
  /\ UNCHANGED <<runVars, listed, late>>

RunCompleted ==
  /\ trigger.pc = "watch" /\ runs[trigger.id].status # "active"
  /\ trigger' = [pc |-> "off"]
  /\ UNCHANGED <<runVars, listed, late>>

\* Nothing to do, no answer from GitHub, a dispatch that failed or whose answer
\* did, a run not found or not awaited to its end, a crash.
Stop ==
  /\ trigger.pc # "off"
  /\ trigger' = [pc |-> "off"]
  /\ UNCHANGED <<runVars, listed, late>>

ListRun ==
  /\ listed < Len(runs)
  /\ listed' = listed + 1
  /\ UNCHANGED runVars

GitHub ==
  /\ UNCHANGED <<trigger, late>>
  /\ \/ ListRun
     \/ UNCHANGED listed /\ Dispatch("owner")
     \/ UNCHANGED listed /\ NextDay
     \/ UNCHANGED listed /\ \E status \in {"success", "failure"} : End(status)

TriggerNext ==
  \/ Wake \/ AskForRuns \/ AskForAttempts \/ DispatchOne \/ FindRun \/ RunCompleted
  \/ Stop \/ GitHub

TriggerSpec == TriggerInit /\ [][TriggerNext]_vars

-----------------------------------------------------------------------------

TypeOK ==
  /\ day \in 1..MaxDay
  /\ runs \in Seq([day : 1..MaxDay, by : {"owner", "trigger"},
                   status : {"active", "success", "failure"}])
  /\ active \in 0..Len(runs) /\ waiting \in 0..Len(runs)
  /\ listed \in 0..Len(runs) /\ late \in BOOLEAN
  /\ trigger \in [pc : {"off"}] \cup [pc : {"find", "watch"}, id : 1..Len(runs)]
                 \cup [pc : {"history", "attempts", "dispatch"}, today : 1..MaxDay]

\* "Never more than MAX_DAILY_ATTEMPTS": as many runs of the trigger as that
\* carry the date of one day, also when the script started before midnight,
\* stopped looking for a run or watching it, the owner dispatches runs in
\* between, or today's runs are more than the list shows.  It takes a list that
\* shows MaxDailyAttempts runs, and that the script never started again before
\* a run of its own was listed.
DailyAttemptsBounded ==
  ~late => \A d \in 1..MaxDay : Cardinality(ByTrigger \cap RunsOn(d)) <= MaxDailyAttempts

\* Under the same conditions, of the runs the trigger dispatched for one day only
\* the last may be active or successful: it neither overtakes a run of its own
\* nor repeats a success.
OneSuccessADay ==
  ~late => \A i, j \in ByTrigger :
             i < j /\ runs[i].day = runs[j].day => runs[i].status = "failure"
=============================================================================
