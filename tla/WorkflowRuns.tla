---------------------------- MODULE WorkflowRuns ----------------------------
(****************************************************************************)
(* What the rest of the project may rely on about the runs of               *)
(* manifest-refresh.yml: its concurrency group keeps one run at a time and  *)
(* one waiting, and GitHub remembers the day, the dispatcher and the        *)
(* conclusion of each.                                                      *)
(****************************************************************************)
EXTENDS Naturals, Sequences

CONSTANTS
  Dispatchers,
  MaxRuns,      \* bound: runs
  MaxDay        \* bound: days

ASSUME RunsAssumption == MaxRuns \in Nat /\ MaxDay \in Nat \ {0}

VARIABLES
  day,
  runs,       \* the runs in the order of their dispatch: [day, by, status]
  active,     \* the number of the active run, or 0
  waiting     \* the number of the run waiting for it to end, or 0

runVars == <<day, runs, active, waiting>>

Init == day = 1 /\ runs = <<>> /\ active = 0 /\ waiting = 0

\* A run that finds another waiting cancels it: cancel-in-progress spares only
\* the active one.
Dispatched(by) ==
  LET new == Append(runs, [day |-> day, by |-> by, status |-> "active"])
  IN  IF waiting = 0 THEN new ELSE [new EXCEPT ![waiting].status = "failure"]

Dispatch(by) ==
  /\ Len(runs) < MaxRuns
  /\ runs' = Dispatched(by)
  /\ IF active = 0 THEN active' = Len(runs') /\ UNCHANGED waiting
                   ELSE waiting' = Len(runs') /\ UNCHANGED active
  /\ UNCHANGED day

\* The run that waits starts.
End(status) ==
  /\ active # 0
  /\ runs' = [runs EXCEPT ![active].status = status]
  /\ active' = waiting /\ waiting' = 0
  /\ UNCHANGED day

NextDay == day < MaxDay /\ day' = day + 1 /\ UNCHANGED <<runs, active, waiting>>

Next ==
  \/ \E by \in Dispatchers : Dispatch(by)
  \/ \E status \in {"success", "failure"} : End(status)
  \/ NextDay

Spec == Init /\ [][Next]_runVars
=============================================================================
