------------------------ MODULE RefreshTriggerProofs ------------------------
(* Theorems about RefreshTrigger, for any number of runs, days and attempts. *)
EXTENDS RefreshTrigger, FiniteSetTheorems, SequenceTheorems, TLAPS

Run == [day : 1..MaxDay, by : {"owner", "trigger"}, status : {"active", "success", "failure"}]

Asking == trigger.pc \in {"history", "attempts", "dispatch"}

\* GitHub dates a run when it is dispatched, so no run is later than today's
\* date; and the day the script asks about is not later either.
NoLaterRun ==
  /\ \A i \in 1..Len(runs) : runs[i].day <= day
  /\ Asking => trigger.today <= day

\* While the script asks it dispatches nothing: midnight may have passed, but
\* its own runs carry no date after the one it asks about.
NoneSinceToday == Asking => \A i \in ByTrigger : runs[i].day <= trigger.today

\* Every run without a conclusion is the active or the waiting one, and the
\* one waiting was dispatched after the active one.
EveryRunIsKnown ==
  /\ {i \in DOMAIN runs : runs[i].status = "active"} = {active, waiting} \ {0}
  /\ waiting # 0 => active # 0 /\ active < waiting

\* The runs are dated in their order.
InOrderOfDays == \A i, j \in 1..Len(runs) : i < j => runs[i].day <= runs[j].day

\* While the script asks, its own runs are listed, unless it started too early.
OwnRunsListed == ~late /\ Asking => \A i \in ByTrigger : i <= listed

\* A run of the day is listed and no longer shown, so that all that is shown is
\* of that day or of a later one.
Beyond(d) == \E i \in 1..listed : runs[i].day = d /\ i + ListLimit <= listed

AllFailed(d) == \A i \in ByTrigger : runs[i].day = d => runs[i].status = "failure"

\* What the answers said of the trigger's own runs remains so, until a day
\* begins on which it has none: only an active run may still succeed.
OwnRunsFailed ==
  ~late /\ trigger.pc \in {"attempts", "dispatch"} /\ trigger.today = day =>
    AllFailed(day) \/ (trigger.pc = "attempts" /\ Beyond(day))

\* So does what the second said of their number.
OneMoreAllowed ==
  ~late /\ trigger.pc = "dispatch" /\ trigger.today = day =>
    Cardinality(ByTrigger \cap RunsOn(day)) < MaxDailyAttempts

Order ==
  /\ TypeOK /\ EveryRunIsKnown /\ NoLaterRun /\ InOrderOfDays /\ NoneSinceToday
  /\ OwnRunsListed /\ OwnRunsFailed /\ OneSuccessADay

\* Appending to a sequence, element by element.
LEMMA AppendElements ==
  ASSUME NEW S, NEW s \in Seq(S), NEW e \in S
  PROVE  /\ Append(s, e) \in Seq(S)
         /\ Len(Append(s, e)) = Len(s) + 1
         /\ Append(s, e)[Len(s) + 1] = e
         /\ \A i \in 1..Len(s) : Append(s, e)[i] = s[i]
OBVIOUS

\* The list of runs, element by element.
LEMMA RunsFacts ==
  ASSUME TypeOK
  PROVE  /\ runs \in Seq(Run) /\ Len(runs) \in Nat /\ DOMAIN runs = 1..Len(runs)
         /\ \A i \in 1..Len(runs) : runs[i] \in Run
         /\ active \in 0..Len(runs) /\ waiting \in 0..Len(runs) /\ listed \in 0..Len(runs)
<1>1. runs \in Seq(Run)
  BY DEF TypeOK, Run
<1>2. QED
  BY <1>1, LenProperties, ElementOfSeq DEF TypeOK

\* What a dispatch does to the list of runs.
LEMMA DispatchFacts ==
  ASSUME TypeOK, NEW by \in {"owner", "trigger"}, Dispatch(by)
  PROVE  /\ runs' \in Seq(Run) /\ Len(runs') = Len(runs) + 1
         /\ runs'[Len(runs) + 1] = [day |-> day, by |-> by, status |-> "active"]
         /\ \A i \in 1..Len(runs) :
              /\ runs'[i].day = runs[i].day /\ runs'[i].by = runs[i].by
              /\ runs'[i].status = IF i = waiting THEN "failure" ELSE runs[i].status
<1> DEFINE new == [day |-> day, by |-> by, status |-> "active"]
           all == Append(runs, new)
           cancelled == [all[waiting] EXCEPT !.status = "failure"]
<1>1. new \in Run
  BY DEF TypeOK, Run
<1>2. /\ all \in Seq(Run) /\ Len(all) = Len(runs) + 1 /\ all[Len(runs) + 1] = new
      /\ \A i \in 1..Len(runs) : all[i] = runs[i]
  <2> HIDE DEF new
  <2> QED BY <1>1, RunsFacts, AppendElements
<1>3. CASE waiting = 0
  <2>1. runs' = all
    BY <1>3 DEF Dispatch, Dispatched
  <2>2. QED
    BY <1>2, <1>3, <2>1, RunsFacts
<1>4. CASE waiting # 0
  <2>1. runs' = [all EXCEPT ![waiting] = cancelled]
    BY <1>4 DEF Dispatch, Dispatched
  <2>2. waiting \in 1..Len(runs) /\ waiting \in 1..Len(all) /\ all[waiting] \in Run
    BY <1>2, <1>4, RunsFacts
  <2>3. cancelled \in Run
    BY <2>2 DEF Run
  <2>4. /\ runs' \in Seq(Run) /\ Len(runs') = Len(all)
        /\ \A i \in 1..Len(all) : runs'[i] = IF i = waiting THEN cancelled ELSE all[i]
    <3> HIDE DEF all, cancelled
    <3> QED BY <1>2, <2>1, <2>2, <2>3, ExceptSeq
  <2>5. runs'[Len(runs) + 1] = new
    BY <1>2, <2>2, <2>4, RunsFacts
  <2>6. ASSUME NEW i \in 1..Len(runs)
        PROVE  /\ runs'[i].day = runs[i].day /\ runs'[i].by = runs[i].by
               /\ runs'[i].status = IF i = waiting THEN "failure" ELSE runs[i].status
    <3>1. i \in 1..Len(all) /\ all[i] = runs[i] /\ runs[i] \in Run
      BY <1>2, RunsFacts
    <3>2. CASE i = waiting
      BY <2>4, <3>1, <3>2 DEF Run
    <3>3. CASE i # waiting
      BY <2>4, <3>1, <3>3
    <3>4. QED
      BY <3>2, <3>3
  <2>7. QED
    BY <1>2, <2>4, <2>5, <2>6
<1>5. QED
  BY <1>3, <1>4

\* What the end of a run does to the list of runs.
LEMMA EndFacts ==
  ASSUME TypeOK, NEW status \in {"success", "failure"}, End(status)
  PROVE  /\ runs' \in Seq(Run) /\ Len(runs') = Len(runs)
         /\ \A i \in 1..Len(runs) :
              /\ runs'[i].day = runs[i].day /\ runs'[i].by = runs[i].by
              /\ runs'[i].status = IF i = active THEN status ELSE runs[i].status
<1> DEFINE ended == [runs[active] EXCEPT !.status = status]
<1>1. active \in 1..Len(runs) /\ runs[active] \in Run /\ runs' = [runs EXCEPT ![active] = ended]
  BY RunsFacts DEF End
<1>2. ended \in Run
  BY <1>1 DEF Run
<1>3. /\ runs' \in Seq(Run) /\ Len(runs') = Len(runs)
      /\ \A i \in 1..Len(runs) : runs'[i] = IF i = active THEN ended ELSE runs[i]
  <2> HIDE DEF ended
  <2> QED BY <1>1, <1>2, RunsFacts, ExceptSeq
<1>4. ASSUME NEW i \in 1..Len(runs)
      PROVE  /\ runs'[i].day = runs[i].day /\ runs'[i].by = runs[i].by
             /\ runs'[i].status = IF i = active THEN status ELSE runs[i].status
  <2>1. runs[i] \in Run
    BY RunsFacts
  <2>2. CASE i = active
    BY <1>3, <2>1, <2>2 DEF Run
  <2>3. CASE i # active
    BY <1>3, <2>3
  <2>4. QED
    BY <2>2, <2>3
<1>5. QED
  BY <1>3, <1>4

\* If one of today's runs is no longer shown, then the list shows only today's.
LEMMA BeyondIsFull ==
  ASSUME TypeOK, NoLaterRun, InOrderOfDays, Beyond(day)
  PROVE  Cardinality(RunsOn(day) \cap Shown) >= ListLimit
<1> USE RunsAssumption, TriggerAssumption
<1>1. /\ Len(runs) \in Nat /\ DOMAIN runs = 1..Len(runs) /\ listed \in 0..Len(runs)
      /\ \A i \in 1..Len(runs) : runs[i].day \in Nat
      /\ day \in Nat
  BY RunsFacts DEF Run, TypeOK
<1>2. PICK i \in 1..listed : runs[i].day = day /\ i + ListLimit <= listed
  BY DEF Beyond
<1> DEFINE newest == (listed - ListLimit + 1)..listed
<1>3. newest \subseteq 1..listed /\ newest \subseteq 1..Len(runs)
  BY <1>1, <1>2
<1>4. \A j \in newest : runs[j].day = day /\ j + ListLimit > listed
  <2> SUFFICES ASSUME NEW j \in newest PROVE runs[j].day = day /\ j + ListLimit > listed
    OBVIOUS
  <2>1. j \in Nat /\ i < j /\ j \in 1..Len(runs) /\ i \in 1..Len(runs)
    BY <1>1, <1>2, <1>3
  <2>2. runs[i].day <= runs[j].day /\ runs[j].day <= day /\ runs[j].day \in Nat
    BY <1>1, <2>1 DEF InOrderOfDays, NoLaterRun
  <2>3. QED
    BY <1>1, <1>2, <2>1, <2>2
<1>5. newest \subseteq RunsOn(day) \cap Shown
  BY <1>1, <1>3, <1>4 DEF RunsOn, Shown
<1>6. IsFiniteSet(RunsOn(day) \cap Shown)
  <2>1. RunsOn(day) \cap Shown \subseteq 1..Len(runs) /\ IsFiniteSet(1..Len(runs))
    BY <1>1, FS_Interval DEF RunsOn
  <2>2. QED
    BY <2>1, FS_Subset
<1>7. Cardinality(newest) = ListLimit
  <2>1. listed - ListLimit + 1 \in Int /\ listed \in Int
    BY <1>1
  <2>2. Cardinality(newest) = IF listed - ListLimit + 1 > listed
                                THEN 0 ELSE listed - (listed - ListLimit + 1) + 1
    BY <2>1, FS_Interval
  <2>3. QED
    BY <1>1, <2>2
<1>8. Cardinality(newest) <= Cardinality(RunsOn(day) \cap Shown)
  <2> HIDE DEF newest
  <2> QED BY <1>5, <1>6, FS_Subset
<1>9. QED
  <2> HIDE DEF newest
  <2>1. Cardinality(RunsOn(day) \cap Shown) \in Nat
    BY <1>6, FS_CardinalityType
  <2>2. QED
    BY <1>7, <1>8, <2>1

\* Otherwise all the trigger's runs of today are shown that are listed.
LEMMA NothingBeyond ==
  ASSUME TypeOK, ~Beyond(day), \A i \in ByTrigger : i <= listed
  PROVE  ByTrigger \cap RunsOn(day) \subseteq RunsOn(day) \cap Shown
<1> USE TriggerAssumption
<1>1. Len(runs) \in Nat /\ DOMAIN runs = 1..Len(runs) /\ listed \in 0..Len(runs)
  BY RunsFacts
<1> SUFFICES ASSUME NEW i \in ByTrigger, i \in RunsOn(day) PROVE i \in Shown
  OBVIOUS
<1>2. i \in 1..listed /\ runs[i].day = day
  BY <1>1 DEF ByTrigger, RunsOn
<1>3. ~(i + ListLimit <= listed)
  BY <1>2 DEF Beyond
<1>4. QED
  BY <1>1, <1>2, <1>3 DEF Shown

\* The trigger's runs of a day, counted.
Own(d) == ByTrigger \cap RunsOn(d)

Count == OneMoreAllowed /\ DailyAttemptsBounded

LEMMA OwnIsFinite ==
  ASSUME TypeOK, NEW d
  PROVE  IsFiniteSet(Own(d)) /\ Cardinality(Own(d)) \in Nat /\ Own(d) \subseteq 1..Len(runs)
<1>1. Own(d) \subseteq 1..Len(runs)
  BY RunsFacts DEF Own, ByTrigger
<1>2. IsFiniteSet(1..Len(runs))
  BY RunsFacts, FS_Interval
<1>3. QED
  BY <1>1, <1>2, FS_Subset, FS_CardinalityType

\* A step that adds no run of the trigger leaves its runs of every day alone.
LEMMA OwnUnchanged ==
  ASSUME TypeOK, TypeOK',
         Len(runs') \in {Len(runs), Len(runs) + 1},
         \A i \in 1..Len(runs) : runs'[i].day = runs[i].day /\ runs'[i].by = runs[i].by,
         Len(runs') = Len(runs) + 1 => runs'[Len(runs) + 1].by # "trigger"
  PROVE  ByTrigger' = ByTrigger /\ \A d : Own(d)' = Own(d)
<1>1. /\ DOMAIN runs = 1..Len(runs) /\ (DOMAIN runs)' = 1..Len(runs') /\ Len(runs) \in Nat
  <2>1. DOMAIN runs = 1..Len(runs) /\ Len(runs) \in Nat
    BY RunsFacts
  <2>2. runs' \in Seq(Run)
    BY DEF TypeOK, Run
  <2>3. QED
    BY <2>1, <2>2, LenProperties
<1>2. ByTrigger' = ByTrigger
  <2>1. CASE Len(runs') = Len(runs)
    BY <1>1, <2>1 DEF ByTrigger
  <2>2. CASE Len(runs') = Len(runs) + 1
    <3>1. 1..Len(runs') = 1..Len(runs) \cup {Len(runs) + 1}
      BY <1>1, <2>2
    <3>2. QED
      BY <1>1, <2>2, <3>1 DEF ByTrigger
  <2>3. QED
    BY <2>1, <2>2
<1>3. QED
  BY <1>1, <1>2 DEF Own, ByTrigger, RunsOn

-----------------------------------------------------------------------------
LEMMA InitialOrder == TriggerInit => Order /\ Count
<1> SUFFICES ASSUME TriggerInit PROVE Order /\ Count
  OBVIOUS
<1> USE RunsAssumption, TriggerAssumption
<1>1. /\ runs = <<>> /\ Len(runs) = 0 /\ DOMAIN runs = {} /\ day = 1 /\ active = 0 /\ waiting = 0
      /\ listed = 0 /\ late = FALSE /\ trigger = [pc |-> "off"]
  BY DEF TriggerInit, Init
<1>2. TypeOK
  <2>1. runs \in Seq(Run)
    BY <1>1
  <2>2. active \in 0..Len(runs) /\ waiting \in 0..Len(runs) /\ listed \in 0..Len(runs)
    BY <1>1
  <2>3. day \in 1..MaxDay
    BY <1>1
  <2>4. late \in BOOLEAN
    BY <1>1, Zenon
  <2>5. QED
    BY <1>1, <2>1, <2>2, <2>3, <2>4 DEF TypeOK, Run
<1>3. EveryRunIsKnown /\ NoLaterRun /\ InOrderOfDays /\ NoneSinceToday /\ OwnRunsListed
  BY <1>1 DEF EveryRunIsKnown, NoLaterRun, InOrderOfDays, NoneSinceToday, OwnRunsListed, Asking
<1>4. OwnRunsFailed /\ OneSuccessADay /\ OneMoreAllowed
  BY <1>1 DEF OwnRunsFailed, OneSuccessADay, OneMoreAllowed, ByTrigger
<1>5. DailyAttemptsBounded
  <2>1. \A d \in 1..MaxDay : ByTrigger \cap RunsOn(d) = {}
    BY <1>1 DEF ByTrigger
  <2>2. QED
    BY <2>1, FS_EmptySet DEF DailyAttemptsBounded
<1>6. QED
  BY <1>2, <1>3, <1>4, <1>5 DEF Order, Count

\* A dispatch keeps the list of runs as the concurrency group means it.
LEMMA DispatchKeepsRuns ==
  ASSUME TypeOK, EveryRunIsKnown, NoLaterRun, InOrderOfDays,
         NEW by \in {"owner", "trigger"}, Dispatch(by)
  PROVE  /\ EveryRunIsKnown' /\ InOrderOfDays'
         /\ \A i \in 1..Len(runs') : runs'[i].day <= day'
         /\ active' \in 0..Len(runs') /\ waiting' \in 0..Len(runs') /\ day' = day
<1>1. /\ Len(runs) \in Nat /\ DOMAIN runs = 1..Len(runs)
      /\ active \in 0..Len(runs) /\ waiting \in 0..Len(runs)
  BY RunsFacts
<1>2. DOMAIN runs' = 1..(Len(runs) + 1) /\ Len(runs') = Len(runs) + 1
  BY DispatchFacts, LenProperties
<1>3. /\ runs'[Len(runs) + 1].day = day /\ runs'[Len(runs) + 1].status = "active"
      /\ day \in Nat /\ day' = day
  BY DispatchFacts, RunsAssumption DEF TypeOK, Dispatch
<1>4. \A i \in 1..Len(runs) :
        /\ runs'[i].day = runs[i].day
        /\ runs'[i].status = IF i = waiting THEN "failure" ELSE runs[i].status
  BY DispatchFacts
<1>5. \A i \in 1..Len(runs') : runs'[i].day <= day'
  BY <1>1, <1>2, <1>3, <1>4 DEF NoLaterRun
<1>6. /\ IF active = 0 THEN active' = Len(runs) + 1 /\ waiting' = waiting
                       ELSE waiting' = Len(runs) + 1 /\ active' = active
  BY <1>2 DEF Dispatch
<1>7. {i \in DOMAIN runs' : runs'[i].status = "active"}
        = ({i \in DOMAIN runs : runs[i].status = "active"} \ {waiting}) \cup {Len(runs) + 1}
  BY <1>1, <1>2, <1>3, <1>4
<1>8. EveryRunIsKnown'
  <2>1. CASE active = 0
    BY <1>1, <1>2, <1>6, <1>7, <2>1 DEF EveryRunIsKnown
  <2>2. CASE active # 0
    BY <1>1, <1>2, <1>6, <1>7, <2>2 DEF EveryRunIsKnown
  <2>3. QED
    BY <2>1, <2>2
<1>9. InOrderOfDays'
  <2>1. \A i \in 1..Len(runs) : runs'[i].day <= runs'[Len(runs) + 1].day
    BY <1>3, <1>4 DEF NoLaterRun
  <2>2. QED
    BY <1>1, <1>2, <1>4, <2>1 DEF InOrderOfDays
<1>10. QED
  BY <1>1, <1>2, <1>3, <1>5, <1>6, <1>8, <1>9

\* So does the end of a run.
LEMMA EndKeepsRuns ==
  ASSUME TypeOK, EveryRunIsKnown, NoLaterRun, InOrderOfDays,
         NEW status \in {"success", "failure"}, End(status)
  PROVE  /\ EveryRunIsKnown' /\ InOrderOfDays'
         /\ \A i \in 1..Len(runs') : runs'[i].day <= day'
         /\ active' \in 0..Len(runs') /\ waiting' \in 0..Len(runs') /\ day' = day
<1>1. /\ Len(runs) \in Nat /\ DOMAIN runs = 1..Len(runs)
      /\ active \in 1..Len(runs) /\ waiting \in 0..Len(runs)
      /\ active' = waiting /\ waiting' = 0 /\ day' = day
  BY RunsFacts DEF End
<1>2. DOMAIN runs' = 1..Len(runs) /\ Len(runs') = Len(runs)
  BY EndFacts, LenProperties
<1>3. \A i \in 1..Len(runs) :
        /\ runs'[i].day = runs[i].day
        /\ runs'[i].status = IF i = active THEN status ELSE runs[i].status
  BY EndFacts
<1>4. {i \in DOMAIN runs' : runs'[i].status = "active"}
        = {i \in DOMAIN runs : runs[i].status = "active"} \ {active}
  BY <1>1, <1>2, <1>3
<1>5. EveryRunIsKnown'
  BY <1>1, <1>4 DEF EveryRunIsKnown
<1>6. QED
  BY <1>1, <1>2, <1>3, <1>5 DEF NoLaterRun, InOrderOfDays

\* What the owner, the calendar and GitHub do between two steps of the script.
LEMMA GitHubStep ==
  ASSUME Order, Count, GitHub
  PROVE  Order' /\ Count'
<1> USE RunsAssumption, TriggerAssumption
<1>1. /\ TypeOK /\ EveryRunIsKnown /\ NoLaterRun /\ InOrderOfDays
      /\ trigger' = trigger /\ late' = late
      /\ Len(runs) \in Nat /\ DOMAIN runs = 1..Len(runs) /\ listed \in 0..Len(runs)
  BY RunsFacts DEF Order, GitHub
<1>2. CASE NextDay /\ UNCHANGED listed
  <2>1. UNCHANGED <<runs, active, waiting, listed>> /\ day' = day + 1 /\ day' \in 1..MaxDay
    BY <1>1, <1>2 DEF NextDay, TypeOK
  <2>2. TypeOK' /\ EveryRunIsKnown' /\ InOrderOfDays'
    BY <1>1, <2>1 DEF TypeOK, EveryRunIsKnown, InOrderOfDays
  <2>3. NoLaterRun'
    <3>1. \A i \in 1..Len(runs) : runs[i].day \in Nat
      BY <1>1, RunsFacts DEF Run
    <3>2. QED
      BY <1>1, <2>1, <3>1 DEF NoLaterRun, Asking, TypeOK
  <2>4. NoneSinceToday' /\ OwnRunsListed'
    BY <1>1, <2>1 DEF Order, NoneSinceToday, OwnRunsListed, Asking, ByTrigger
  <2>5. Asking => trigger.today # day'
    BY <1>1, <2>1 DEF NoLaterRun, TypeOK, Asking
  <2>6. OwnRunsFailed' /\ OneMoreAllowed'
    BY <1>1, <2>5 DEF OwnRunsFailed, OneMoreAllowed, Asking
  <2>7. OneSuccessADay' /\ DailyAttemptsBounded'
    BY <1>1, <2>1 DEF Order, Count, OneSuccessADay, DailyAttemptsBounded, ByTrigger, RunsOn
  <2>8. QED
    BY <2>2, <2>3, <2>4, <2>6, <2>7 DEF Order, Count
<1>3. ASSUME runs' \in Seq(Run), Len(runs') \in {Len(runs), Len(runs) + 1},
             EveryRunIsKnown', InOrderOfDays', \A i \in 1..Len(runs') : runs'[i].day <= day',
             active' \in 0..Len(runs'), waiting' \in 0..Len(runs'), day' = day,
             listed' \in 0..Len(runs'), listed' >= listed,
             \A i \in 1..Len(runs) :
               /\ runs'[i].day = runs[i].day /\ runs'[i].by = runs[i].by
               /\ runs[i].status = "failure" => runs'[i].status = "failure",
             Len(runs') = Len(runs) + 1 => runs'[Len(runs) + 1].by # "trigger"
      PROVE  Order' /\ Count'
  <2>1. TypeOK'
    BY <1>1, <1>3 DEF TypeOK, Run
  <2>2. ByTrigger' = ByTrigger /\ \A d : Own(d)' = Own(d)
    BY <1>1, <1>3, <2>1, OwnUnchanged
  <2>3. NoLaterRun'
    BY <1>1, <1>3 DEF NoLaterRun, Asking
  <2>4. \A i \in ByTrigger : i \in 1..Len(runs)
    BY <1>1 DEF ByTrigger
  <2>5. NoneSinceToday' /\ OneSuccessADay'
    BY <1>1, <1>3, <2>2, <2>4 DEF Order, NoneSinceToday, OneSuccessADay, Asking
  <2>6. OwnRunsListed'
    BY <1>1, <1>3, <2>2, <2>4 DEF Order, OwnRunsListed, Asking
  <2>7. AllFailed(day) => AllFailed(day)'
    BY <1>3, <2>2, <2>4 DEF AllFailed
  <2>8. Beyond(day) => Beyond(day)'
    <3> SUFFICES ASSUME NEW i \in 1..listed, runs[i].day = day, i + ListLimit <= listed
                 PROVE  Beyond(day)'
      BY DEF Beyond
    <3>1. i \in 1..Len(runs) /\ i \in 1..listed' /\ i + ListLimit <= listed'
      BY <1>1, <1>3
    <3>2. QED
      BY <1>3, <3>1 DEF Beyond
  <2>9. OwnRunsFailed'
    BY <1>1, <1>3, <2>7, <2>8 DEF Order, OwnRunsFailed
  <2>10. Count'
    BY <1>1, <1>3, <2>2 DEF Count, OneMoreAllowed, DailyAttemptsBounded, Own
  <2>11. QED
    BY <1>3, <2>1, <2>3, <2>5, <2>6, <2>9, <2>10 DEF Order
<1>4. CASE Dispatch("owner") /\ UNCHANGED listed
  <2>1. runs' \in Seq(Run) /\ Len(runs') = Len(runs) + 1
        /\ runs'[Len(runs) + 1] = [day |-> day, by |-> "owner", status |-> "active"]
        /\ \A i \in 1..Len(runs) :
              /\ runs'[i].day = runs[i].day /\ runs'[i].by = runs[i].by
              /\ runs'[i].status = IF i = waiting THEN "failure" ELSE runs[i].status
    BY <1>1, <1>4, DispatchFacts
  <2>2. /\ EveryRunIsKnown' /\ InOrderOfDays' /\ \A i \in 1..Len(runs') : runs'[i].day <= day'
        /\ active' \in 0..Len(runs') /\ waiting' \in 0..Len(runs') /\ day' = day
    BY <1>1, <1>4, DispatchKeepsRuns
  <2>3. listed' \in 0..Len(runs') /\ listed' >= listed
    BY <1>1, <1>4, <2>1
  <2>4. QED
    BY <1>3, <2>1, <2>2, <2>3
<1>5. ASSUME NEW status \in {"success", "failure"}, End(status), UNCHANGED listed
      PROVE  Order' /\ Count'
  <2>1. runs' \in Seq(Run) /\ Len(runs') = Len(runs)
        /\ \A i \in 1..Len(runs) :
              /\ runs'[i].day = runs[i].day /\ runs'[i].by = runs[i].by
              /\ runs'[i].status = IF i = active THEN status ELSE runs[i].status
    BY <1>1, <1>5, EndFacts
  <2>2. runs[active].status # "failure"
    BY <1>1, <1>5, RunsFacts DEF EveryRunIsKnown, End
  <2>3. \A i \in 1..Len(runs) : runs[i].status = "failure" => runs'[i].status = "failure"
    BY <2>1, <2>2
  <2>4. /\ EveryRunIsKnown' /\ InOrderOfDays' /\ \A i \in 1..Len(runs') : runs'[i].day <= day'
        /\ active' \in 0..Len(runs') /\ waiting' \in 0..Len(runs') /\ day' = day
    BY <1>1, <1>5, EndKeepsRuns
  <2>5. Len(runs') # Len(runs) + 1
    <3>1. \A k \in Nat : k # k + 1
      OBVIOUS
    <3>2. QED
      BY <1>1, <2>1, <3>1
  <2>6. listed' \in 0..Len(runs') /\ listed' >= listed
    BY <1>1, <1>5, <2>1
  <2>7. QED
    BY <1>3, <2>1, <2>3, <2>4, <2>5, <2>6
<1>6. CASE ListRun
  <2>1. listed' = listed + 1 /\ listed < Len(runs) /\ UNCHANGED <<day, runs, active, waiting>>
    BY <1>6 DEF ListRun, runVars
  <2>2. /\ runs' \in Seq(Run) /\ Len(runs') = Len(runs)
        /\ active' \in 0..Len(runs') /\ waiting' \in 0..Len(runs') /\ day' = day
        /\ listed' \in 0..Len(runs') /\ listed' >= listed
    BY <1>1, <2>1, RunsFacts
  <2>3. /\ EveryRunIsKnown' /\ InOrderOfDays' /\ \A i \in 1..Len(runs') : runs'[i].day <= day'
        /\ \A i \in 1..Len(runs) : runs'[i] = runs[i]
    BY <1>1, <2>1 DEF EveryRunIsKnown, InOrderOfDays, NoLaterRun
  <2>4. Len(runs') # Len(runs) + 1
    <3>1. \A k \in Nat : k # k + 1
      OBVIOUS
    <3>2. QED
      BY <1>1, <2>2, <3>1
  <2>5. QED
    BY <1>3, <2>2, <2>3, <2>4
<1>7. QED
  BY <1>2, <1>4, <1>5, <1>6 DEF GitHub

\* The script's questions, what it finds and its end change nothing but what it
\* knows.
LEMMA QuietStep ==
  ASSUME Order, Count, MaxDailyAttempts <= ListLimit,
         Wake \/ AskForRuns \/ AskForAttempts \/ FindRun \/ RunCompleted \/ Stop
  PROVE  Order' /\ Count'
<1> USE RunsAssumption, TriggerAssumption
<1>1. /\ TypeOK /\ EveryRunIsKnown /\ NoLaterRun /\ InOrderOfDays
      /\ UNCHANGED <<day, runs, active, waiting, listed>>
      /\ Len(runs) \in Nat /\ DOMAIN runs = 1..Len(runs)
      /\ \A i \in 1..Len(runs) : runs[i] \in Run
  BY RunsFacts DEF Order, Wake, AskForRuns, AskForAttempts, FindRun, RunCompleted, Stop, runVars
<1>2. /\ EveryRunIsKnown' /\ InOrderOfDays' /\ ByTrigger' = ByTrigger
      /\ \A d : Own(d)' = Own(d)
  BY <1>1 DEF EveryRunIsKnown, InOrderOfDays, ByTrigger, RunsOn, Own
<1>3. (late => late') => OneSuccessADay' /\ DailyAttemptsBounded'
  BY <1>1, <1>2 DEF Order, Count, OneSuccessADay, DailyAttemptsBounded, Own
<1>4. CASE Wake
  <2>1. /\ trigger' = [pc |-> "history", today |-> day]
        /\ late' = (late \/ \E i \in ByTrigger : i > listed)
    BY <1>4 DEF Wake
  <2>2. TypeOK' /\ NoLaterRun' /\ OwnRunsFailed' /\ OneMoreAllowed'
    BY <1>1, <2>1 DEF TypeOK, NoLaterRun, OwnRunsFailed, OneMoreAllowed
  <2>3. NoneSinceToday'
    BY <1>1, <1>2, <2>1 DEF NoneSinceToday, NoLaterRun, ByTrigger
  <2>4. OwnRunsListed'
    <3>1. \A i \in ByTrigger : i \in Nat
      BY <1>1 DEF ByTrigger
    <3>2. listed \in Nat
      BY <1>1, RunsFacts
    <3>3. ~late' => \A i \in ByTrigger : ~(i > listed)
      BY <2>1, Zenon
    <3>4. ~late' => \A i \in ByTrigger' : i <= listed'
      BY <1>1, <1>2, <3>1, <3>2, <3>3
    <3>5. QED
      BY <3>4 DEF OwnRunsListed
  <2>5. QED
    BY <1>2, <1>3, <2>1, <2>2, <2>3, <2>4 DEF Order, Count
<1>5. CASE AskForRuns
  <2>1. trigger.pc = "history" /\ trigger' = [trigger EXCEPT !.pc = "attempts"]
        /\ ActiveOrSuccess(trigger.today) = {} /\ late' = late
    BY <1>5 DEF AskForRuns
  <2>2. trigger' = [pc |-> "attempts", today |-> trigger.today] /\ trigger.today \in 1..MaxDay
    BY <1>1, <2>1 DEF TypeOK
  <2>3. TypeOK' /\ NoLaterRun' /\ NoneSinceToday' /\ OwnRunsListed' /\ OneMoreAllowed'
    BY <1>1, <1>2, <2>1, <2>2 DEF Order, TypeOK, NoLaterRun, NoneSinceToday, OwnRunsListed,
                                  OneMoreAllowed, Asking
  <2>4. ASSUME ~late, trigger.today = day, ~Beyond(day) PROVE AllFailed(day)
    <3>1. \A i \in ByTrigger : i <= listed
      BY <2>1, <2>4 DEF Order, OwnRunsListed, Asking
    <3>2. ByTrigger \cap RunsOn(day) \subseteq RunsOn(day) \cap Shown
      BY <1>1, <2>4, <3>1, NothingBeyond
    <3>3. \A i \in RunsOn(day) \cap Shown : runs[i].status = "failure"
      BY <2>1, <2>4 DEF ActiveOrSuccess
    <3>4. \A i \in ByTrigger : runs[i].day = day => i \in RunsOn(day)
      BY DEF ByTrigger, RunsOn
    <3>5. QED
      BY <3>2, <3>3, <3>4 DEF AllFailed
  <2>5. (AllFailed(day) => AllFailed(day)') /\ (Beyond(day) => Beyond(day)')
    BY <1>1, <1>2 DEF AllFailed, Beyond
  <2>6. OwnRunsFailed'
    BY <1>1, <2>1, <2>2, <2>4, <2>5 DEF OwnRunsFailed
  <2>7. QED
    BY <1>2, <1>3, <2>1, <2>3, <2>6 DEF Order, Count
<1>6. CASE AskForAttempts
  <2>1. trigger.pc = "attempts" /\ trigger' = [trigger EXCEPT !.pc = "dispatch"]
        /\ Cardinality(RunsOn(trigger.today) \cap Shown) < MaxDailyAttempts /\ late' = late
    BY <1>6 DEF AskForAttempts, AttemptsLeft
  <2>2. trigger' = [pc |-> "dispatch", today |-> trigger.today] /\ trigger.today \in 1..MaxDay
    BY <1>1, <2>1 DEF TypeOK
  <2>3. TypeOK' /\ NoLaterRun' /\ NoneSinceToday' /\ OwnRunsListed'
    BY <1>1, <1>2, <2>1, <2>2 DEF Order, TypeOK, NoLaterRun, NoneSinceToday, OwnRunsListed, Asking
  <2>4. IsFiniteSet(RunsOn(day) \cap Shown) /\ Cardinality(RunsOn(day) \cap Shown) \in Nat
    <3>1. IsFiniteSet(1..Len(runs)) /\ RunsOn(day) \cap Shown \subseteq 1..Len(runs)
      BY <1>1, FS_Interval DEF RunsOn
    <3>2. QED
      BY <3>1, FS_Subset, FS_CardinalityType
  <2>5. trigger.today = day => ~Beyond(day)
    <3>1. Beyond(day) => Cardinality(RunsOn(day) \cap Shown) >= ListLimit
      BY <1>1, BeyondIsFull
    <3>2. QED
      BY <2>1, <2>4, <3>1
  <2>6. AllFailed(day) => AllFailed(day)'
    BY <1>1, <1>2 DEF AllFailed
  <2>7. OwnRunsFailed'
    BY <1>1, <2>1, <2>2, <2>5, <2>6 DEF Order, OwnRunsFailed
  <2>8. ASSUME ~late, trigger.today = day PROVE Cardinality(Own(day)) < MaxDailyAttempts
    <3>1. \A i \in ByTrigger : i <= listed
      BY <2>1, <2>8 DEF Order, OwnRunsListed, Asking
    <3>2. Own(day) \subseteq RunsOn(day) \cap Shown
      BY <1>1, <2>5, <2>8, <3>1, NothingBeyond DEF Own
    <3>3. Cardinality(Own(day)) <= Cardinality(RunsOn(day) \cap Shown)
      BY <2>4, <3>2, FS_Subset
    <3>4. QED
      BY <1>1, <2>1, <2>4, <2>8, <3>3, OwnIsFinite
  <2>9. OneMoreAllowed'
    BY <1>1, <1>2, <2>1, <2>2, <2>8 DEF OneMoreAllowed, Own
  <2>10. QED
    BY <1>2, <1>3, <2>1, <2>3, <2>7, <2>9 DEF Order, Count
<1>7. CASE FindRun \/ RunCompleted \/ Stop
  <2>1. late' = late /\ (trigger' = [pc |-> "off"] \/ (trigger.pc = "find"
                         /\ trigger' = [trigger EXCEPT !.pc = "watch"]))
    BY <1>7 DEF FindRun, RunCompleted, Stop
  <2>2. trigger' \in [pc : {"off"}] \cup [pc : {"find", "watch"}, id : 1..Len(runs)]
    <3>1. CASE trigger' = [pc |-> "off"]
      BY <3>1
    <3>2. CASE trigger.pc = "find" /\ trigger' = [trigger EXCEPT !.pc = "watch"]
      <4>1. trigger \in [pc : {"find", "watch"}, id : 1..Len(runs)]
        BY <1>1, <3>2 DEF TypeOK
      <4>2. trigger' \in [pc : {"find", "watch"}, id : 1..Len(runs)]
        BY <3>2, <4>1
      <4>3. QED
        BY <4>2
    <3>3. QED
      BY <2>1, <3>1, <3>2
  <2>3. trigger'.pc \in {"off", "find", "watch"}
    BY <2>2
  <2>4. TypeOK'
    BY <1>1, <2>1, <2>2 DEF TypeOK
  <2>5. NoLaterRun' /\ NoneSinceToday' /\ OwnRunsListed' /\ OwnRunsFailed' /\ OneMoreAllowed'
    BY <1>1, <2>3 DEF NoLaterRun, NoneSinceToday, OwnRunsListed, OwnRunsFailed, OneMoreAllowed, Asking
  <2>6. QED
    BY <1>2, <1>3, <2>1, <2>4, <2>5 DEF Order, Count
<1>8. QED
  BY <1>4, <1>5, <1>6, <1>7

\* The dispatch: on the day the script asked about all its runs have failed, and
\* on a day that has begun since it has none.
LEMMA DispatchStep ==
  ASSUME Order, Count, DispatchOne
  PROVE  Order' /\ Count'
<1> USE RunsAssumption, TriggerAssumption
<1> DEFINE n == Len(runs) + 1
<1>1. /\ TypeOK /\ EveryRunIsKnown /\ NoLaterRun /\ InOrderOfDays
      /\ Dispatch("trigger") /\ trigger.pc = "dispatch" /\ listed' = listed /\ late' = late
      /\ Len(runs) \in Nat /\ DOMAIN runs = 1..Len(runs) /\ listed \in 0..Len(runs)
      /\ \A i \in 1..Len(runs) : runs[i] \in Run
      /\ trigger.today \in 1..MaxDay /\ day \in 1..MaxDay /\ trigger.today <= day
  BY RunsFacts DEF Order, DispatchOne, TypeOK, NoLaterRun, Asking
<1>2. /\ runs' \in Seq(Run) /\ Len(runs') = n /\ DOMAIN runs' = 1..n
      /\ runs'[n].day = day /\ runs'[n].by = "trigger"
      /\ \A i \in 1..Len(runs) :
           /\ runs'[i].day = runs[i].day /\ runs'[i].by = runs[i].by
           /\ runs'[i].status = IF i = waiting THEN "failure" ELSE runs[i].status
  BY <1>1, DispatchFacts, LenProperties
<1>3. /\ EveryRunIsKnown' /\ InOrderOfDays' /\ \A i \in 1..n : runs'[i].day <= day'
      /\ active' \in 0..n /\ waiting' \in 0..n /\ day' = day
  BY <1>1, <1>2, DispatchKeepsRuns
<1>4. trigger' = [pc |-> "find", id |-> n]
  BY <1>2 DEF DispatchOne
<1>5. TypeOK'
  BY <1>1, <1>2, <1>3, <1>4 DEF TypeOK, Run
<1>6. NoLaterRun' /\ NoneSinceToday' /\ OwnRunsListed' /\ OwnRunsFailed' /\ OneMoreAllowed'
  BY <1>2, <1>3, <1>4 DEF NoLaterRun, NoneSinceToday, OwnRunsListed, OwnRunsFailed, OneMoreAllowed,
                          Asking
<1>7. 1..n = 1..Len(runs) \cup {n} /\ n \notin 1..Len(runs)
  BY <1>1
<1>8. ByTrigger' = ByTrigger \cup {n} /\ ByTrigger \subseteq 1..Len(runs)
  BY <1>1, <1>2, <1>7 DEF ByTrigger
<1>9. ASSUME ~late, NEW i \in ByTrigger, runs[i].day = day PROVE runs[i].status = "failure"
  <2>1. runs[i].day <= trigger.today /\ runs[i].day \in Nat
    BY <1>1, <1>8 DEF Order, NoneSinceToday, Asking, Run
  <2>2. day = trigger.today
    BY <1>1, <1>9, <2>1
  <2>3. AllFailed(day)
    BY <1>1, <1>9, <2>2 DEF Order, OwnRunsFailed
  <2>4. QED
    BY <1>9, <2>3 DEF AllFailed
<1>10. OneSuccessADay'
  <2> SUFFICES ASSUME ~late', NEW i \in ByTrigger', NEW j \in ByTrigger', i < j, runs'[i].day = runs'[j].day
               PROVE  runs'[i].status = "failure"
    BY DEF OneSuccessADay
  <2>1. i \in ByTrigger /\ i \in 1..Len(runs)
    BY <1>1, <1>8
  <2>2. CASE j = n
    BY <1>1, <1>2, <1>9, <2>1, <2>2
  <2>3. CASE j # n
    BY <1>1, <1>2, <1>8, <2>1, <2>3 DEF Order, OneSuccessADay
  <2>4. QED
    BY <2>2, <2>3
<1>11. ASSUME ~late, NEW d \in 1..MaxDay PROVE Cardinality(Own(d)') <= MaxDailyAttempts
  <2>1. Own(d)' = IF d = day THEN Own(d) \cup {n} ELSE Own(d)
    BY <1>1, <1>2, <1>7, <1>8 DEF Own, RunsOn
  <2>2. IsFiniteSet(Own(d)) /\ Cardinality(Own(d)) \in Nat /\ n \notin Own(d)
    BY <1>1, <1>7, OwnIsFinite
  <2>3. CASE d # day
    BY <1>11, <2>1, <2>3 DEF Count, DailyAttemptsBounded, Own
  <2>4. CASE d = day /\ day = trigger.today
    <3>1. Cardinality(Own(d)) < MaxDailyAttempts
      BY <1>1, <1>11, <2>4 DEF Count, OneMoreAllowed, Own
    <3>2. Cardinality(Own(d) \cup {n}) = Cardinality(Own(d)) + 1
      BY <2>2, FS_AddElement
    <3>3. QED
      BY <2>1, <2>2, <2>4, <3>1, <3>2
  <2>5. CASE d = day /\ day # trigger.today
    <3>1. Own(d) = {}
      <4> SUFFICES ASSUME NEW i \in Own(d) PROVE FALSE
        OBVIOUS
      <4>1. runs[i].day = day /\ runs[i].day <= trigger.today
        BY <1>1, <2>5 DEF Order, NoneSinceToday, Asking, Own, RunsOn
      <4>2. QED
        BY <1>1, <2>5, <4>1
    <3>2. Own(d) \cup {n} = {n} /\ Cardinality({n}) = 1
      BY <3>1, FS_Singleton
    <3>3. Own(d)' = {n}
      BY <2>1, <2>5, <3>2
    <3>4. Cardinality(Own(d)') = 1
      BY <3>2, <3>3
    <3>5. QED
      BY <3>4
  <2>6. QED
    BY <2>3, <2>4, <2>5
<1>12. Count'
  BY <1>1, <1>6, <1>11 DEF Count, DailyAttemptsBounded, Own
<1>13. QED
  BY <1>3, <1>5, <1>6, <1>10, <1>12 DEF Order

LEMMA TriggerInvariant ==
  ASSUME MaxDailyAttempts <= ListLimit
  PROVE  TriggerSpec => [](Order /\ Count)
<1>1. ASSUME Order /\ Count, [TriggerNext]_vars PROVE (Order /\ Count)'
  <2>1. CASE UNCHANGED vars
    <3>1. UNCHANGED <<day, runs, active, waiting, listed, trigger, late>>
      BY <2>1 DEF vars, runVars
    <3>2. TypeOK' /\ EveryRunIsKnown' /\ NoLaterRun' /\ InOrderOfDays' /\ NoneSinceToday'
      BY <1>1, <3>1 DEF Order, TypeOK, EveryRunIsKnown, NoLaterRun, InOrderOfDays, NoneSinceToday,
                        Asking, ByTrigger
    <3>3. OwnRunsListed' /\ OwnRunsFailed' /\ OneSuccessADay' /\ Count'
      BY <1>1, <3>1 DEF Order, Count, OwnRunsListed, OwnRunsFailed, OneSuccessADay, OneMoreAllowed,
                        DailyAttemptsBounded, AllFailed, Beyond, Asking, ByTrigger, RunsOn
    <3>4. QED
      BY <3>2, <3>3 DEF Order
  <2>2. QED
    BY <1>1, <2>1, QuietStep, DispatchStep, GitHubStep DEF TriggerNext
<1>2. QED
  BY <1>1, InitialOrder, PTL DEF TriggerSpec

-----------------------------------------------------------------------------
\* If the list of 20 shows as many runs as the trigger allows itself on a day, then
\* no day has more runs of the trigger than that, whatever the owner dispatches,
\* wherever the script is stopped, whenever midnight passes and however late a
\* run is listed, as long as the script never starts before its last run is.
THEOREM AttemptsAreBounded ==
  ASSUME MaxDailyAttempts <= ListLimit
  PROVE  TriggerSpec => []DailyAttemptsBounded
<1>1. Order /\ Count => DailyAttemptsBounded
  BY DEF Count
<1>2. QED
  BY <1>1, TriggerInvariant, PTL

\* Under the same conditions, for any number of runs and days, the trigger repeats
\* no success and overtakes no run of its own.
THEOREM SuccessEndsTheDay ==
  ASSUME MaxDailyAttempts <= ListLimit
  PROVE  TriggerSpec => []OneSuccessADay
<1>1. Order /\ Count => OneSuccessADay
  BY DEF Order
<1>2. QED
  BY <1>1, TriggerInvariant, PTL
=============================================================================
