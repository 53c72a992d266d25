------------------------ MODULE ProviderSessionProofs ------------------------
(* Theorems about ProviderSession, for any number of calls and permits and    *)
(* any timeout.                                                               *)
EXTENDS ProviderSession, FiniteSetTheorems, SequenceTheorems, TLAPS

-----------------------------------------------------------------------------
(* What each kind of step does *)

\* A call whose arguments are refused, one that finds a permit, one that does not.
Refused(c) ==
  /\ pc' = [pc EXCEPT ![c] = "done"]
  /\ outcome' = [outcome EXCEPT ![c] = [code |-> "INPUT_INVALID", of |-> NoCall]]
  /\ UNCHANGED <<queue, value, wire, ahead, disturbed>>

Admitted(c) ==
  /\ value > 0
  /\ value' = value - 1
  /\ pc' = [pc EXCEPT ![c] = "waiting"]
  /\ Enters(c)
  /\ UNCHANGED <<queue, outcome, ahead>>

Queued(c) ==
  /\ value = 0
  /\ ahead' = [ahead EXCEPT ![c] = Len(queue) + Cardinality(Waiting)]
  /\ queue' = Append(queue, c)
  /\ pc' = [pc EXCEPT ![c] = "queued"]
  /\ UNCHANGED <<value, wire, outcome, disturbed>>

Makes(c) ==
  /\ pc[c] = "idle" /\ stage = "open"
  /\ Refused(c) \/ Admitted(c) \/ Queued(c)
  /\ UNCHANGED <<fault, age, running, own, recorded, session>>

\* A waiting call returns: with its answer, or through _stable_error.
Reported(c) ==
  \/ /\ wire[c] = "answered" /\ UNCHANGED fault
     /\ \E code \in {"data", "PROTOCOL_ERROR"} :
          outcome' = [outcome EXCEPT ![c] = [code |-> code, of |-> NoCall]]
  \/ \E report \in Reports : StableError(c, report)

Ends(c) ==
  /\ pc[c] = "waiting"
  /\ Reported(c)
  /\ \E w \in {None, wire[c]} : WireAfter(c, w)
  /\ Leaves(c)
  /\ Settled(c)
  /\ UNCHANGED session

\* A call is cancelled in the queue.
Abandons(c) ==
  /\ pc[c] = "queued"
  /\ \E i \in DOMAIN queue : queue[i] = c /\ queue' = RemoveAt(queue, i)
  /\ pc' = [pc EXCEPT ![c] = "done"]
  /\ outcome' = [outcome EXCEPT ![c] = [code |-> "cancelled", of |-> NoCall]]
  /\ Settled(c)
  /\ UNCHANGED <<value, wire, fault, disturbed, session>>

\* A request meets a refusal that is recorded, one that is not, or goes on.
Requests(c) ==
  /\ wire[c] \in {"guard", "sent"}
  /\ \/ /\ \E code \in Codes : Records(c, code)
        /\ \E w \in {"raised", "status"} : wire' = [wire EXCEPT ![c] = w]
     \/ /\ own' \in {own, [own EXCEPT ![c] = IF pc[c] = "waiting" THEN "AUTH_REQUIRED" ELSE @]}
        /\ \E w \in {"raised", "sent", "answered"} : wire' = [wire EXCEPT ![c] = w]
        /\ UNCHANGED <<fault, recorded>>
  /\ UNCHANGED <<pc, queue, value, outcome, age, running, ahead, disturbed, session>>

\* The steps of the session itself that leave the calls alone.
SessionStep == RefuseTarget \/ RefuseHandshake \/ HandshakeEnds \/ BodyEnds

CallStep(c) == Makes(c) \/ Ends(c) \/ Abandons(c) \/ Requests(c)

\* Every step of the session is of one of these kinds.
LEMMA Steps ==
  Next => Tick \/ SessionStep \/ Close \/ \E c \in Calls : CallStep(c)
<1> SUFFICES ASSUME Next PROVE Tick \/ SessionStep \/ Close \/ \E c \in Calls : CallStep(c)
  OBVIOUS
<1>1. ASSUME NEW c \in Calls, Call(c) PROVE Makes(c)
  BY <1>1 DEF Call, Makes, Refused, Admitted, Queued
<1>2. ASSUME NEW c \in Calls, NEW report \in Reports, NEW w \in {None, wire[c]},
             pc[c] = "waiting", Fails(c, report, w), UNCHANGED session
      PROVE  Ends(c)
  BY <1>2 DEF Fails, Ends, Reported
<1>3. ASSUME NEW c \in Calls, Answered(c) PROVE Ends(c)
  BY <1>3 DEF Answered, Ends, Reported
<1>4. ASSUME NEW c \in Calls, Failed(c) PROVE Ends(c)
  <2>1. "PROVIDER_ERROR" \in Reports /\ "PROTOCOL_ERROR" \in Reports /\ "cancelled" \in Reports
    BY DEF Reports, Codes
  <2>2. QED
    BY <1>2, <1>4, <2>1 DEF Failed
<1>5. ASSUME NEW c \in Calls, Timeout(c) PROVE Ends(c)
  <2>1. "TIMEOUT" \in Reports
    BY DEF Reports, Codes
  <2>2. QED
    BY <1>2, <1>5, <2>1 DEF Timeout
<1>6. ASSUME NEW c \in Calls, Cancel(c) PROVE Ends(c) \/ Abandons(c)
  <2>1. "cancelled" \in Reports
    BY DEF Reports
  <2>2. CASE pc[c] = "waiting"
    BY <1>2, <1>6, <2>1, <2>2 DEF Cancel
  <2>3. CASE pc[c] = "queued"
    BY <1>6, <2>3 DEF Cancel, Abandons
  <2>4. QED
    BY <1>6, <2>2, <2>3 DEF Cancel
<1>7. ASSUME NEW c \in Calls, Guard(c) PROVE Requests(c)
  BY <1>7 DEF Guard, Requests, Codes
<1>8. ASSUME NEW c \in Calls, Respond(c) PROVE Requests(c)
  BY <1>8 DEF Respond, Requests, Codes
<1>9. QED
  BY <1>1, <1>3, <1>4, <1>5, <1>6, <1>7, <1>8 DEF Next, SessionStep, CallStep

-----------------------------------------------------------------------------
(* The semaphore *)

\* Every queued call has one place in the queue, and nobody else has one.
Line ==
  /\ \A i, j \in 1..Len(queue) : queue[i] = queue[j] => i = j
  /\ \A i \in 1..Len(queue) : pc[queue[i]] = "queued"
  /\ \A c \in Calls : pc[c] = "queued" => \E i \in 1..Len(queue) : queue[i] = c

\* Each permit is free or held by a waiting call.
Permits ==
  /\ IsFiniteSet(Waiting)
  /\ value + Cardinality(Waiting) = MaxConcurrentCalls
  /\ queue # <<>> => value = 0

Semaphore == TypeOK /\ Line /\ Permits

PCs == {"idle", "queued", "waiting", "done"}

\* A sequence without its element at place i.
LEMMA RemoveAtFacts ==
  ASSUME NEW S, NEW s \in Seq(S), NEW i \in 1..Len(s)
  PROVE  /\ RemoveAt(s, i) \in Seq(S)
         /\ Len(RemoveAt(s, i)) = Len(s) - 1
         /\ \A j \in 1..(Len(s) - 1) : RemoveAt(s, i)[j] = IF j < i THEN s[j] ELSE s[j + 1]
<1> DEFINE before == SubSeq(s, 1, i - 1)
           after == SubSeq(s, i + 1, Len(s))
<1>1. Len(s) \in Nat /\ \A j \in 1..Len(s) : s[j] \in S
  BY LenProperties, ElementOfSeq
<1>2. /\ before \in Seq(S) /\ Len(before) = i - 1
      /\ \A j \in 1..(i - 1) : before[j] = s[j]
  <2>1. 1 \in Int /\ i - 1 \in Int /\ (\A j \in 1..(i - 1) : s[j] \in S)
    BY <1>1
  <2>2. /\ before \in Seq(S)
        /\ Len(before) = IF 1 <= i - 1 THEN i - 1 - 1 + 1 ELSE 0
        /\ \A j \in 1..(i - 1 - 1 + 1) : before[j] = s[1 + j - 1]
    BY <2>1, SubSeqProperties
  <2> HIDE DEF before
  <2>3. QED
    BY <1>1, <2>2
<1>3. /\ after \in Seq(S) /\ Len(after) = Len(s) - i
      /\ \A j \in 1..(Len(s) - i) : after[j] = s[i + j]
  <2>1. i + 1 \in Int /\ Len(s) \in Int /\ (\A j \in (i + 1)..Len(s) : s[j] \in S)
    BY <1>1
  <2>2. /\ after \in Seq(S)
        /\ Len(after) = IF i + 1 <= Len(s) THEN Len(s) - (i + 1) + 1 ELSE 0
        /\ \A j \in 1..(Len(s) - (i + 1) + 1) : after[j] = s[i + 1 + j - 1]
    BY <2>1, SubSeqProperties
  <2> HIDE DEF after
  <2>3. QED
    BY <1>1, <2>2
<1>4. RemoveAt(s, i) = before \o after
  BY DEF RemoveAt
<1>5. /\ before \o after \in Seq(S) /\ Len(before \o after) = Len(before) + Len(after)
      /\ \A j \in 1..(Len(before) + Len(after)) :
           (before \o after)[j] = IF j <= Len(before) THEN before[j] ELSE after[j - Len(before)]
  <2> HIDE DEF before, after
  <2>1. QED
    BY <1>2, <1>3, ConcatProperties
<1> HIDE DEF before, after
<1>6. Len(before) + Len(after) = Len(s) - 1
  BY <1>1, <1>2, <1>3
<1>7. ASSUME NEW j \in 1..(Len(s) - 1)
      PROVE  (before \o after)[j] = IF j < i THEN s[j] ELSE s[j + 1]
  <2>1. (before \o after)[j] = IF j <= i - 1 THEN before[j] ELSE after[j - (i - 1)]
    BY <1>2, <1>5, <1>6
  <2>2. CASE j < i
    <3>1. j \in 1..(i - 1) /\ j <= i - 1
      BY <1>1, <2>2
    <3>2. QED
      BY <1>2, <2>1, <2>2, <3>1
  <2>3. CASE ~(j < i)
    <3>1. j - (i - 1) \in 1..(Len(s) - i) /\ ~(j <= i - 1) /\ i + (j - (i - 1)) = j + 1
      BY <1>1, <2>3
    <3>2. QED
      BY <1>3, <2>1, <2>3, <3>1
  <2>4. QED
    BY <2>2, <2>3
<1>8. QED
  BY <1>4, <1>5, <1>6, <1>7

\* The queue, element by element.
LEMMA QueueFacts ==
  ASSUME TypeOK
  PROVE  /\ queue \in Seq(Calls) /\ Len(queue) \in Nat /\ DOMAIN queue = 1..Len(queue)
         /\ \A i \in 1..Len(queue) : queue[i] \in Calls
         /\ queue # <<>> => Len(queue) > 0 /\ Head(queue) = queue[1]
         /\ queue = <<>> => Len(queue) = 0
<1>1. queue \in Seq(Calls)
  BY DEF TypeOK
<1>2. QED
  BY <1>1, LenProperties, ElementOfSeq, EmptySeq

\* Call i leaves the queue, from the head or from anywhere.
Shortened(i) ==
  /\ queue' \in Seq(Calls) /\ Len(queue') = Len(queue) - 1
  /\ \A j \in 1..Len(queue') : queue'[j] = IF j < i THEN queue[j] ELSE queue[j + 1]

LEMMA TailShortens ==
  ASSUME TypeOK, queue # <<>>, queue' = Tail(queue)
  PROVE  Shortened(1) /\ 1 \in 1..Len(queue) /\ Head(queue) = queue[1]
BY QueueFacts, HeadTailProperties DEF Shortened

LEMMA LineAlone ==
  ASSUME Line, queue' = queue, TypeOK,
         \A c \in Calls : pc'[c] = "queued" <=> pc[c] = "queued"
  PROVE  Line'
<1>1. \A i \in 1..Len(queue) : queue[i] \in Calls
  BY QueueFacts
<1>2. QED
  BY <1>1 DEF Line

LEMMA LineShortens ==
  ASSUME TypeOK, Line, NEW i \in 1..Len(queue), Shortened(i), pc' \in [Calls -> PCs],
         pc'[queue[i]] # "queued",
         \A c \in Calls \ {queue[i]} : pc'[c] = "queued" <=> pc[c] = "queued"
  PROVE  Line'
<1>1. Len(queue) \in Nat /\ Len(queue') = Len(queue) - 1 /\ \A j \in 1..Len(queue) : queue[j] \in Calls
  BY QueueFacts DEF Shortened
<1> DEFINE old(j) == IF j < i THEN j ELSE j + 1
<1>2. \A j \in 1..Len(queue') : old(j) \in 1..Len(queue) /\ old(j) # i /\ queue'[j] = queue[old(j)]
  BY <1>1 DEF Shortened
<1>3. \A j \in 1..Len(queue') : queue[old(j)] # queue[i]
  BY <1>2 DEF Line
<1>4. \A j, k \in 1..Len(queue') : queue'[j] = queue'[k] => j = k
  <2> SUFFICES ASSUME NEW j \in 1..Len(queue'), NEW k \in 1..Len(queue'), queue'[j] = queue'[k]
               PROVE  j = k
    OBVIOUS
  <2>1. old(j) = old(k)
    BY <1>2 DEF Line
  <2>2. QED
    BY <1>1, <2>1
<1>5. \A j \in 1..Len(queue') : pc'[queue'[j]] = "queued"
  BY <1>1, <1>2, <1>3 DEF Line
<1>6. ASSUME NEW c \in Calls, pc'[c] = "queued"
      PROVE  \E j \in 1..Len(queue') : queue'[j] = c
  <2>1. c # queue[i] /\ pc[c] = "queued"
    BY <1>6
  <2>2. PICK k \in 1..Len(queue) : queue[k] = c
    BY <2>1 DEF Line
  <2>3. k # i
    BY <2>1, <2>2
  <2>4. CASE k < i
    <3>1. k \in 1..Len(queue') /\ old(k) = k
      BY <1>1, <2>4
    <3>2. QED
      BY <1>2, <2>2, <3>1
  <2>5. CASE k > i
    <3>1. k - 1 \in 1..Len(queue') /\ old(k - 1) = k
      BY <1>1, <2>5
    <3>2. QED
      BY <1>2, <2>2, <3>1
  <2>6. QED
    BY <1>1, <2>3, <2>4, <2>5
<1>7. QED
  BY <1>4, <1>5, <1>6 DEF Line

\* A call that returns, and what becomes of its permit.
LEMMA EndsFacts ==
  ASSUME TypeOK, Line, NEW c \in Calls, Ends(c)
  PROVE  /\ pc' \in [Calls -> PCs] /\ pc[c] = "waiting" /\ pc'[c] = "done"
         /\ \/ /\ queue = <<>> /\ queue' = queue /\ value' = value + 1
               /\ \A d \in Calls \ {c} : pc'[d] = pc[d]
               /\ Waiting' = Waiting \ {c}
            \/ /\ queue # <<>> /\ Shortened(1) /\ value' = value
               /\ queue[1] \in Calls \ {c} /\ pc[queue[1]] = "queued" /\ pc'[queue[1]] = "waiting"
               /\ \A d \in Calls \ {c, queue[1]} : pc'[d] = pc[d]
               /\ Waiting' = (Waiting \ {c}) \cup {queue[1]}
<1>1. pc \in [Calls -> PCs] /\ pc[c] = "waiting"
  BY DEF TypeOK, PCs, Ends
<1>2. CASE queue = <<>>
  <2>1. queue' = queue /\ value' = value + 1 /\ pc' = [pc EXCEPT ![c] = "done"]
    BY <1>2 DEF Ends, Leaves
  <2>2. pc' \in [Calls -> PCs] /\ pc'[c] = "done" /\ \A d \in Calls \ {c} : pc'[d] = pc[d]
    BY <1>1, <2>1 DEF PCs
  <2>3. Waiting' = Waiting \ {c}
    BY <2>2 DEF Waiting
  <2>4. QED
    BY <1>1, <1>2, <2>1, <2>2, <2>3
<1>3. CASE queue # <<>>
  <2> DEFINE h == queue[1]
  <2>1. /\ queue' = Tail(queue) /\ value' = value
        /\ pc' = [pc EXCEPT ![c] = "done", ![Head(queue)] = "waiting"]
    BY <1>3 DEF Ends, Leaves
  <2>2. Shortened(1) /\ 1 \in 1..Len(queue) /\ Head(queue) = h /\ h \in Calls
    BY <1>3, <2>1, TailShortens, QueueFacts
  <2>3. pc[h] = "queued" /\ h # c
    BY <1>1, <2>2 DEF Line
  <2>4. /\ pc' \in [Calls -> PCs] /\ pc'[c] = "done" /\ pc'[h] = "waiting"
        /\ \A d \in Calls \ {c, h} : pc'[d] = pc[d]
    <3> HIDE DEF h
    <3> QED BY <1>1, <2>1, <2>2, <2>3 DEF PCs
  <2>5. Waiting' = (Waiting \ {c}) \cup {h}
    <3> HIDE DEF h
    <3> QED BY <2>2, <2>3, <2>4 DEF Waiting
  <2>6. QED
    BY <1>1, <1>3, <2>1, <2>2, <2>3, <2>4, <2>5
<1>4. QED
  BY <1>2, <1>3

\* A call that is made, and the place it finds.
LEMMA MakesFacts ==
  ASSUME TypeOK, Line, NEW c \in Calls, Makes(c)
  PROVE  /\ pc' \in [Calls -> PCs] /\ pc[c] = "idle"
         /\ \A d \in Calls \ {c} : pc'[d] = pc[d]
         /\ \/ pc'[c] = "done" /\ UNCHANGED <<queue, value>> /\ Waiting' = Waiting
            \/ /\ pc'[c] = "waiting" /\ value > 0 /\ value' = value - 1 /\ queue' = queue
               /\ Waiting' = Waiting \cup {c} /\ c \notin Waiting
            \/ /\ pc'[c] = "queued" /\ value = 0 /\ value' = value /\ queue' = Append(queue, c)
               /\ Waiting' = Waiting
<1>1. pc \in [Calls -> PCs] /\ pc[c] = "idle"
  BY DEF TypeOK, PCs, Makes
<1>2. CASE Refused(c)
  <2>1. pc' = [pc EXCEPT ![c] = "done"] /\ UNCHANGED <<queue, value>>
    BY <1>2 DEF Refused
  <2>2. Waiting' = Waiting
    BY <1>1, <2>1 DEF Waiting
  <2>3. QED
    BY <1>1, <2>1, <2>2 DEF PCs
<1>3. CASE Admitted(c)
  <2>1. pc' = [pc EXCEPT ![c] = "waiting"] /\ value > 0 /\ value' = value - 1 /\ queue' = queue
    BY <1>3 DEF Admitted
  <2>2. Waiting' = Waiting \cup {c} /\ c \notin Waiting
    BY <1>1, <2>1 DEF Waiting
  <2>3. QED
    BY <1>1, <2>1, <2>2 DEF PCs
<1>4. CASE Queued(c)
  <2>1. pc' = [pc EXCEPT ![c] = "queued"] /\ value = 0 /\ value' = value /\ queue' = Append(queue, c)
    BY <1>4 DEF Queued
  <2>2. Waiting' = Waiting
    BY <1>1, <2>1 DEF Waiting
  <2>3. QED
    BY <1>1, <2>1, <2>2 DEF PCs
<1>5. QED
  BY <1>2, <1>3, <1>4 DEF Makes

\* A call that gives up its place in the queue.
LEMMA AbandonsFacts ==
  ASSUME TypeOK, Line, NEW c \in Calls, Abandons(c)
  PROVE  /\ pc' \in [Calls -> PCs] /\ pc[c] = "queued" /\ pc'[c] = "done"
         /\ \A d \in Calls \ {c} : pc'[d] = pc[d]
         /\ value' = value /\ Waiting' = Waiting
         /\ \E i \in 1..Len(queue) : queue[i] = c /\ Shortened(i)
<1>1. pc \in [Calls -> PCs] /\ pc[c] = "queued" /\ pc' = [pc EXCEPT ![c] = "done"] /\ value' = value
  BY DEF TypeOK, PCs, Abandons
<1>2. PICK i \in 1..Len(queue) : queue[i] = c /\ queue' = RemoveAt(queue, i)
  BY QueueFacts DEF Abandons
<1>3. Shortened(i)
  <2>1. /\ RemoveAt(queue, i) \in Seq(Calls) /\ Len(RemoveAt(queue, i)) = Len(queue) - 1
        /\ \A j \in 1..(Len(queue) - 1) :
             RemoveAt(queue, i)[j] = IF j < i THEN queue[j] ELSE queue[j + 1]
    BY QueueFacts, RemoveAtFacts
  <2>2. QED
    BY <1>2, <2>1 DEF Shortened
<1>4. Waiting' = Waiting
  BY <1>1 DEF Waiting
<1>5. QED
  BY <1>1, <1>2, <1>3, <1>4 DEF PCs

\* Requests and the session's own steps leave the semaphore alone, and so does time.
LEMMA SemaphoreAlone ==
  ASSUME Tick \/ SessionStep \/ Close \/ (\E c \in Calls : Requests(c)) \/ UNCHANGED vars
  PROVE  UNCHANGED <<pc, queue, value>> /\ Waiting' = Waiting
<1>1. UNCHANGED <<pc, queue, value>>
  BY DEF Tick, SessionStep, RefuseTarget, RefuseHandshake, HandshakeEnds, BodyEnds, Close,
         Requests, callVars, vars
<1>2. QED
  BY <1>1 DEF Waiting

\* Every step keeps the queue a line, and the permits conserved.
LEMMA SemaphoreKept ==
  ASSUME TypeOK, Line, Permits, [Next]_vars
  PROVE  /\ Line' /\ Permits'
         /\ pc' \in [Calls -> PCs] /\ queue' \in Seq(Calls) /\ value' \in 0..MaxConcurrentCalls
<1> DEFINE Kept == /\ Line' /\ IsFiniteSet(Waiting')
                   /\ value' \in Nat /\ value' + Cardinality(Waiting') = MaxConcurrentCalls
                   /\ queue' # <<>> => value' = 0
                   /\ pc' \in [Calls -> PCs] /\ queue' \in Seq(Calls)
<1>1. /\ value \in Nat /\ Cardinality(Waiting) \in Nat /\ MaxConcurrentCalls \in Nat
      /\ pc \in [Calls -> PCs]
  BY SessionAssumption, FS_CardinalityType DEF Permits, TypeOK, PCs
<1>2. ASSUME NEW c \in Calls, Makes(c) PROVE Kept
  <2>1. CASE pc'[c] = "done" /\ UNCHANGED <<queue, value>> /\ Waiting' = Waiting
    <3>1. Line'
      BY <1>2, <2>1, MakesFacts, LineAlone
    <3>2. QED
      BY <1>1, <1>2, <2>1, <3>1, MakesFacts, QueueFacts DEF Permits
  <2>2. CASE /\ pc'[c] = "waiting" /\ value > 0 /\ value' = value - 1 /\ queue' = queue
             /\ Waiting' = Waiting \cup {c} /\ c \notin Waiting
    <3>1. Line'
      BY <1>2, <2>2, MakesFacts, LineAlone
    <3>2. IsFiniteSet(Waiting') /\ Cardinality(Waiting') = Cardinality(Waiting) + 1
      BY <2>2, FS_AddElement DEF Permits
    <3>3. pc' \in [Calls -> PCs] /\ queue' \in Seq(Calls)
      BY <1>2, <2>2, MakesFacts, QueueFacts
    <3>4. value' \in Nat /\ value' + Cardinality(Waiting') = MaxConcurrentCalls
      BY <1>1, <2>2, <3>2 DEF Permits
    <3>5. queue' # <<>> => value' = 0
      BY <1>1, <2>2 DEF Permits
    <3>6. QED
      BY <3>1, <3>2, <3>3, <3>4, <3>5
  <2>3. CASE /\ pc'[c] = "queued" /\ value = 0 /\ value' = value /\ queue' = Append(queue, c)
             /\ Waiting' = Waiting
    <3>1. /\ queue' \in Seq(Calls) /\ Len(queue') = Len(queue) + 1 /\ queue'[Len(queue) + 1] = c
          /\ \A i \in 1..Len(queue) : queue'[i] = queue[i]
      BY <2>3, QueueFacts, AppendProperties
    <3>2. \A i \in 1..Len(queue) : queue[i] # c
      BY <1>2, MakesFacts DEF Line
    <3>3. Line'
      <4>1. \A i, j \in 1..Len(queue') : queue'[i] = queue'[j] => i = j
        BY <3>1, <3>2, QueueFacts DEF Line
      <4>2. \A i \in 1..Len(queue') : pc'[queue'[i]] = "queued"
        <5>1. \A d \in Calls \ {c} : pc'[d] = pc[d]
          BY <1>2, MakesFacts
        <5>2. \A i \in 1..Len(queue) : pc'[queue'[i]] = "queued"
          BY <3>1, <3>2, <5>1, QueueFacts DEF Line
        <5>3. QED
          BY <2>3, <3>1, <5>2, QueueFacts
      <4>3. ASSUME NEW d \in Calls, pc'[d] = "queued"
            PROVE  \E i \in 1..Len(queue') : queue'[i] = d
        BY <1>2, <4>3, <3>1, MakesFacts, QueueFacts DEF Line
      <4>4. QED
        BY <4>1, <4>2, <4>3 DEF Line
    <3>4. QED
      BY <1>1, <1>2, <2>3, <3>1, <3>3, MakesFacts DEF Permits
  <2>4. QED
    BY <1>2, <2>1, <2>2, <2>3, MakesFacts
<1>3. ASSUME NEW c \in Calls, Ends(c) PROVE Kept
  <2>1. c \in Waiting
    BY <1>3, EndsFacts DEF Waiting
  <2>2. IsFiniteSet(Waiting \ {c}) /\ Cardinality(Waiting \ {c}) = Cardinality(Waiting) - 1
    BY <2>1, FS_RemoveElement DEF Permits
  <2>3. CASE /\ queue = <<>> /\ queue' = queue /\ value' = value + 1
             /\ \A d \in Calls \ {c} : pc'[d] = pc[d]
             /\ Waiting' = Waiting \ {c}
    <3>1. Line'
      BY <1>3, <2>3, EndsFacts, LineAlone
    <3>2. QED
      BY <1>1, <1>3, <2>2, <2>3, <3>1, EndsFacts, QueueFacts DEF Permits
  <2>4. CASE /\ queue # <<>> /\ Shortened(1) /\ value' = value
             /\ queue[1] \in Calls \ {c} /\ pc[queue[1]] = "queued" /\ pc'[queue[1]] = "waiting"
             /\ \A d \in Calls \ {c, queue[1]} : pc'[d] = pc[d]
             /\ Waiting' = (Waiting \ {c}) \cup {queue[1]}
    <3>1. 1 \in 1..Len(queue)
      BY <2>4, QueueFacts
    <3>2. Line'
      BY <1>3, <2>4, <3>1, EndsFacts, LineShortens
    <3>3. queue[1] \notin Waiting \ {c}
      BY <2>4 DEF Waiting
    <3>4. IsFiniteSet(Waiting') /\ Cardinality(Waiting') = Cardinality(Waiting)
      <4>1. /\ IsFiniteSet((Waiting \ {c}) \cup {queue[1]})
            /\ Cardinality((Waiting \ {c}) \cup {queue[1]}) = Cardinality(Waiting \ {c}) + 1
        BY <2>2, <3>3, FS_AddElement
      <4>2. QED
        BY <1>1, <2>2, <2>4, <4>1
    <3>5. queue' \in Seq(Calls)
      BY <2>4 DEF Shortened
    <3>6. QED
      BY <1>1, <1>3, <2>4, <3>2, <3>4, <3>5, EndsFacts DEF Permits
  <2>5. QED
    BY <1>3, <2>3, <2>4, EndsFacts
<1>4. ASSUME NEW c \in Calls, Abandons(c) PROVE Kept
  <2>1. PICK i \in 1..Len(queue) : queue[i] = c /\ Shortened(i)
    BY <1>4, AbandonsFacts
  <2>2. Line'
    BY <1>4, <2>1, AbandonsFacts, LineShortens
  <2>3. queue' \in Seq(Calls) /\ (queue' # <<>> => queue # <<>>)
    BY <2>1, QueueFacts DEF Shortened
  <2>4. QED
    BY <1>1, <1>4, <2>2, <2>3, AbandonsFacts DEF Permits
<1>5. ASSUME Tick \/ SessionStep \/ Close \/ (\E c \in Calls : Requests(c)) \/ UNCHANGED vars
      PROVE  Kept
  <2>1. UNCHANGED <<pc, queue, value>> /\ Waiting' = Waiting
    BY <1>5, SemaphoreAlone
  <2>2. Line'
    BY <2>1, LineAlone
  <2>3. QED
    BY <1>1, <2>1, <2>2, QueueFacts DEF Permits
<1>6. Kept
  BY <1>2, <1>3, <1>4, <1>5, Steps DEF CallStep
<1>7. Cardinality(Waiting') \in Nat
  BY <1>6, FS_CardinalityType
<1>8. QED
  BY <1>1, <1>6, <1>7 DEF Permits, Waiting

-----------------------------------------------------------------------------
(* Types *)

Wires == {None, "guard", "sent", "status", "raised", "answered"}
Outcomes == [code : Reports \cup {None}, of : Calls \cup {NoCall, Handshake}]

SlotType == fault = NoFault \/ fault \in [code : Codes, of : Calls \cup {Handshake}]

CallTypes ==
  /\ wire \in [Calls -> Wires] /\ SlotType /\ outcome \in [Calls -> Outcomes]
  /\ age \in [Calls -> Nat] /\ running \in [Calls -> 0..TotalTimeout]
  /\ own \in [Calls -> Codes \cup {None}] /\ recorded \in [Calls -> BOOLEAN]
  /\ ahead \in [Calls -> Nat] /\ disturbed \in [Calls -> BOOLEAN]

SessionTypes ==
  /\ stage \in {"connecting", "failing", "open", "closing", "closed"}
  /\ opener \in Reports \cup {None, "value"}
  /\ body \in [raised : Reports \cup {None, "value"}, due : Reports \cup {None, "value"}]
  /\ teardown \in {None, "quiet", "raised", "recorded", "refused", "cancelled"}

LEMMA TypesSplit ==
  TypeOK => CallTypes /\ SessionTypes
BY DEF TypeOK, CallTypes, SessionTypes, SlotType, PCs, Wires, Outcomes

LEMMA TypesJoined ==
  ASSUME CallTypes', SessionTypes', pc' \in [Calls -> PCs], queue' \in Seq(Calls),
         value' \in 0..MaxConcurrentCalls
  PROVE  TypeOK'
BY DEF TypeOK, CallTypes, SessionTypes, SlotType, PCs, Wires, Outcomes

LEMMA SettledTypes ==
  ASSUME CallTypes, NEW c \in Calls, Settled(c)
  PROVE  /\ age' \in [Calls -> Nat] /\ running' \in [Calls -> 0..TotalTimeout]
         /\ own' \in [Calls -> Codes \cup {None}] /\ recorded' \in [Calls -> BOOLEAN]
         /\ ahead' \in [Calls -> Nat]
<1>1. 0 \in 0..TotalTimeout
  BY SessionAssumption
<1>2. QED
  BY <1>1 DEF CallTypes, Settled

LEMMA MakesTypes ==
  ASSUME TypeOK, Permits, NEW c \in Calls, Makes(c)
  PROVE  CallTypes'
<1>1. CallTypes /\ Len(queue) + Cardinality(Waiting) \in Nat
  BY TypesSplit, QueueFacts, FS_CardinalityType DEF Permits
<1>2. UNCHANGED <<fault, age, running, own, recorded>>
  BY DEF Makes
<1>3. outcome' \in [Calls -> Outcomes]
  <2>1. [code |-> "INPUT_INVALID", of |-> NoCall] \in Outcomes
    BY DEF Outcomes, Reports, Codes
  <2>2. CASE Refused(c)
    <3>1. outcome' = [outcome EXCEPT ![c] = [code |-> "INPUT_INVALID", of |-> NoCall]]
      BY <2>2 DEF Refused
    <3>2. QED
      BY <1>1, <2>1, <3>1 DEF CallTypes
  <2>3. CASE Admitted(c) \/ Queued(c)
    BY <1>1, <2>3 DEF CallTypes, Admitted, Queued
  <2>4. QED
    BY <2>2, <2>3 DEF Makes
<1>4. wire' \in [Calls -> Wires]
  BY <1>1 DEF Makes, Refused, Admitted, Queued, Enters, CallTypes, Wires
<1>5. ahead' \in [Calls -> Nat]
  BY <1>1 DEF Makes, Refused, Admitted, Queued, CallTypes
<1>6. disturbed' \in [Calls -> BOOLEAN]
  BY <1>1 DEF Makes, Refused, Admitted, Queued, Enters, CallTypes
<1>7. QED
  BY <1>1, <1>2, <1>3, <1>4, <1>5, <1>6 DEF CallTypes, SlotType

LEMMA EndsTypes ==
  ASSUME TypeOK, NEW c \in Calls, Ends(c)
  PROVE  CallTypes'
<1>1. CallTypes /\ (queue # <<>> => Head(queue) \in Calls)
  BY TypesSplit, QueueFacts, HeadTailProperties
<1>2. SlotType' /\ outcome' \in [Calls -> Outcomes]
  <2>1. ASSUME NEW report \in Reports, StableError(c, report)
        PROVE  SlotType' /\ outcome' \in [Calls -> Outcomes]
    <3>1. CASE fault = NoFault
      <4>1. fault' = NoFault /\ outcome' = [outcome EXCEPT ![c] = [code |-> report, of |-> NoCall]]
        BY <2>1, <3>1 DEF StableError
      <4>2. [code |-> report, of |-> NoCall] \in Outcomes
        BY DEF Outcomes
      <4>3. QED
        BY <1>1, <4>1, <4>2 DEF CallTypes, SlotType
    <3>2. CASE fault # NoFault
      <4>1. fault' = NoFault /\ outcome' = [outcome EXCEPT ![c] = fault]
        BY <2>1, <3>2 DEF StableError
      <4>2. fault \in Outcomes
        BY <1>1, <3>2 DEF CallTypes, SlotType, Outcomes, Reports
      <4>3. QED
        BY <1>1, <4>1, <4>2 DEF CallTypes, SlotType
    <3>3. QED
      BY <3>1, <3>2
  <2>2. ASSUME NEW code \in {"data", "PROTOCOL_ERROR"}, UNCHANGED fault,
               outcome' = [outcome EXCEPT ![c] = [code |-> code, of |-> NoCall]]
        PROVE  SlotType' /\ outcome' \in [Calls -> Outcomes]
    <3>1. [code |-> code, of |-> NoCall] \in Outcomes
      BY DEF Outcomes, Reports, Codes
    <3>2. QED
      BY <1>1, <2>2, <3>1 DEF CallTypes, SlotType
  <2>3. QED
    BY <2>1, <2>2 DEF Ends, Reported
<1>3. wire' \in [Calls -> Wires]
  <2>1. PICK w \in {None, wire[c]} : WireAfter(c, w)
    BY DEF Ends
  <2>2. QED
    BY <1>1, <2>1 DEF WireAfter, CallTypes, Wires
<1>4. disturbed' \in [Calls -> BOOLEAN]
  BY <1>1 DEF Ends, Leaves, CallTypes
<1>5. Settled(c)
  BY DEF Ends
<1>6. QED
  BY <1>1, <1>2, <1>3, <1>4, <1>5, SettledTypes DEF CallTypes

LEMMA AbandonsTypes ==
  ASSUME TypeOK, NEW c \in Calls, Abandons(c)
  PROVE  CallTypes'
<1>1. CallTypes /\ Settled(c) /\ UNCHANGED <<wire, fault, disturbed>>
  BY TypesSplit DEF Abandons
<1>2. outcome' \in [Calls -> Outcomes]
  <2>1. [code |-> "cancelled", of |-> NoCall] \in Outcomes
    BY DEF Outcomes, Reports
  <2>2. outcome' = [outcome EXCEPT ![c] = [code |-> "cancelled", of |-> NoCall]]
    BY DEF Abandons
  <2>3. QED
    BY <1>1, <2>1, <2>2 DEF CallTypes
<1>3. QED
  BY <1>1, <1>2, SettledTypes DEF CallTypes, SlotType

LEMMA RequestsTypes ==
  ASSUME TypeOK, NEW c \in Calls, Requests(c)
  PROVE  CallTypes'
<1>1. CallTypes /\ UNCHANGED <<outcome, age, running, ahead, disturbed>>
  BY TypesSplit DEF Requests
<1>2. wire' \in [Calls -> Wires]
  BY <1>1 DEF Requests, CallTypes, Wires
<1>3. SlotType' /\ own' \in [Calls -> Codes \cup {None}] /\ recorded' \in [Calls -> BOOLEAN]
  <2>1. ASSUME NEW code \in Codes, Records(c, code)
        PROVE  SlotType' /\ own' \in [Calls -> Codes \cup {None}] /\ recorded' \in [Calls -> BOOLEAN]
    <3>1. SlotType'
      BY <1>1, <2>1 DEF Records, SlotType, CallTypes
    <3>2. own' \in [Calls -> Codes \cup {None}]
      BY <1>1, <2>1 DEF Records, CallTypes
    <3>3. recorded' \in [Calls -> BOOLEAN]
      BY <1>1, <2>1 DEF Records, CallTypes
    <3>4. QED
      BY <3>1, <3>2, <3>3
  <2>2. CASE /\ own' \in {own, [own EXCEPT ![c] = IF pc[c] = "waiting" THEN "AUTH_REQUIRED" ELSE @]}
             /\ UNCHANGED <<fault, recorded>>
    BY <1>1, <2>2 DEF CallTypes, SlotType, Codes
  <2>3. QED
    BY <2>1, <2>2 DEF Requests
<1>4. QED
  BY <1>1, <1>2, <1>3 DEF CallTypes

LEMMA TickTypes ==
  ASSUME TypeOK, Tick
  PROVE  CallTypes'
<1>1. CallTypes /\ UNCHANGED <<wire, fault, outcome, own, recorded, ahead, disturbed>>
  BY TypesSplit DEF Tick
<1>2. age' \in [Calls -> Nat]
  BY <1>1 DEF Tick, CallTypes
<1>3. running' \in [Calls -> 0..TotalTimeout]
  <2>1. \A c \in Calls : pc[c] = "waiting" => running[c] + 1 \in 0..TotalTimeout
    BY <1>1, SessionAssumption DEF Tick, Waiting, CallTypes
  <2>2. QED
    BY <1>1, <2>1 DEF Tick, CallTypes
<1>4. QED
  BY <1>1, <1>2, <1>3 DEF CallTypes, SlotType

\* A session's own steps, and what they leave alone.
LEMMA SessionStepTypes ==
  ASSUME TypeOK, SessionStep \/ Close
  PROVE  CallTypes' /\ SessionTypes'
<1>1. CallTypes /\ SessionTypes
  BY TypesSplit
<1>2. \A report \in Reports \cup {"value"} :
        Raised(report) \in [raised : Reports \cup {None, "value"}, due : Reports \cup {None, "value"}]
  BY <1>1 DEF Raised, CallTypes, SlotType, Reports
<1>3. CASE RefuseTarget
  <2>1. "CONFIGURATION_ERROR" \in Reports
    BY DEF Reports, Codes
  <2>2. QED
    BY <1>1, <1>2, <1>3, <2>1 DEF RefuseTarget, callVars, CallTypes, SessionTypes, SlotType
<1>4. CASE RefuseHandshake
  <2>1. SlotType'
    BY <1>4 DEF RefuseHandshake, SlotType, Codes
  <2>2. QED
    BY <1>1, <1>4, <2>1 DEF RefuseHandshake, callVars, session, CallTypes, SessionTypes
<1>5. CASE HandshakeEnds
  <2>1. {"TIMEOUT", "PROTOCOL_ERROR", "cancelled"} \subseteq Reports
    BY DEF Reports, Codes
  <2>2. QED
    BY <1>1, <1>2, <1>5, <2>1 DEF HandshakeEnds, callVars, CallTypes, SessionTypes, SlotType
<1>6. CASE BodyEnds
  <2>1. "INPUT_INVALID" \in Reports
    BY DEF Reports, Codes
  <2>2. QED
    BY <1>1, <1>6, <2>1 DEF BodyEnds, callVars, CallTypes, SessionTypes, SlotType
<1>7. CASE Close
  <2>1. opener' \in Reports \cup {None, "value"}
    <3>1. fault.code \in Reports \cup {None, "value"} /\ body.raised \in Reports \cup {None, "value"}
      BY <1>1 DEF CallTypes, SlotType, SessionTypes, NoFault, Reports
    <3>2. {"PROVIDER_ERROR", "AUTH_REQUIRED", "cancelled"} \subseteq Reports
      BY DEF Reports, Codes
    <3>3. QED
      BY <1>7, <3>1, <3>2 DEF Close, CloseQuietly
  <2>2. SlotType' /\ wire' \in [Calls -> Wires]
    BY <1>7 DEF Close, SlotType, Wires
  <2>3. QED
    BY <1>1, <1>7, <2>1, <2>2 DEF Close, CallTypes, SessionTypes
<1>8. QED
  BY <1>3, <1>4, <1>5, <1>6, <1>7 DEF SessionStep

LEMMA TypesKept ==
  ASSUME TypeOK, Line, Permits, [Next]_vars
  PROVE  TypeOK'
<1>1. pc' \in [Calls -> PCs] /\ queue' \in Seq(Calls) /\ value' \in 0..MaxConcurrentCalls
  BY SemaphoreKept
<1>2. CASE UNCHANGED vars
  BY <1>2 DEF TypeOK, vars
<1>3. CASE SessionStep \/ Close
  BY <1>1, <1>3, SessionStepTypes, TypesJoined
<1>4. CASE Tick
  <2>1. SessionTypes'
    BY <1>4, TypesSplit DEF Tick, session, SessionTypes
  <2>2. QED
    BY <1>1, <1>4, <2>1, TickTypes, TypesJoined
<1>5. ASSUME NEW c \in Calls, CallStep(c) PROVE TypeOK'
  <2>1. SessionTypes'
    BY <1>5, TypesSplit DEF CallStep, Makes, Ends, Abandons, Requests, session, SessionTypes
  <2>2. CallTypes'
    BY <1>5, MakesTypes, EndsTypes, AbandonsTypes, RequestsTypes DEF CallStep
  <2>3. QED
    BY <1>1, <2>1, <2>2, TypesJoined
<1>6. QED
  BY <1>2, <1>3, <1>4, <1>5, Steps

LEMMA InitialSemaphore == Init => Semaphore
<1> SUFFICES ASSUME Init PROVE Semaphore
  OBVIOUS
<1>1. Waiting = {} /\ queue = <<>> /\ value = MaxConcurrentCalls
  BY DEF Init, Waiting
<1>2. Permits
  BY <1>1, FS_EmptySet, SessionAssumption DEF Permits
<1>3. Line
  BY <1>1, EmptySeq DEF Line, Init
<1>4. TypeOK
  <2>1. queue \in Seq(Calls) /\ value \in 0..MaxConcurrentCalls
    BY <1>1, SessionAssumption
  <2>2. NoFault \in [code : Reports \cup {None}, of : Calls \cup {NoCall, Handshake}]
    BY DEF NoFault
  <2>3. QED
    BY <2>1, <2>2, SessionAssumption DEF Init, TypeOK, NoFault
<1>5. QED
  BY <1>2, <1>3, <1>4 DEF Semaphore

LEMMA SemaphoreInvariant == Spec => []Semaphore
<1>1. Semaphore /\ [Next]_vars => Semaphore'
  BY SemaphoreKept, TypesKept DEF Semaphore
<1>2. QED
  BY <1>1, InitialSemaphore, PTL DEF Spec

\* The semaphore of call_tool is never over-subscribed and never leaks: whatever
\* mixture of answers, refusals, timeouts and cancellations has happened, in the
\* queue or with a permit, each permit is free or held by a waiting call, and the
\* queue is exactly the calls that wait for one.
THEOREM PermitsAreConserved == Spec => []PermitsConserved
<1>1. Semaphore => PermitsConserved
  <2> SUFFICES ASSUME Semaphore PROVE PermitsConserved
    OBVIOUS
  <2>1. DOMAIN queue = 1..Len(queue) /\ \A i \in 1..Len(queue) : queue[i] \in Calls
    BY QueueFacts DEF Semaphore
  <2>2. {queue[i] : i \in DOMAIN queue} = {c \in Calls : pc[c] = "queued"}
    BY <2>1 DEF Semaphore, Line
  <2>3. QED
    BY <2>2 DEF Semaphore, Permits, PermitsConserved
<1>2. QED
  BY <1>1, SemaphoreInvariant, PTL

-----------------------------------------------------------------------------
(* The life of the session and of a call *)

\* Calls are made while the session is open and over when it closes.  Nothing is
\* sent for a call before it waits, reported before it is done, or remembered of
\* it when it does not wait.
Lives ==
  /\ stage \in {"connecting", "failing"} => \A c \in Calls : pc[c] = "idle"
  /\ stage \in {"closing", "closed"} => \A c \in Calls : pc[c] \in {"idle", "done"}
  /\ \A c \in Calls :
       /\ pc[c] \in {"idle", "queued"} => wire[c] = None
       /\ pc[c] # "done" => outcome[c] = NoFault
       /\ pc[c] # "waiting" => ~recorded[c] /\ running[c] = 0
       /\ pc[c] = "idle" => age[c] = 0 /\ ahead[c] = 0

\* The requests after a call has returned: the next call's is handed to the SDK.
LEMMA EndsWires ==
  ASSUME TypeOK, Line, NEW c \in Calls, Ends(c)
  PROVE  /\ wire'[c] \in {None, wire[c]}
         /\ queue = <<>> => \A d \in Calls \ {c} : wire'[d] = wire[d]
         /\ queue # <<>> => /\ wire'[queue[1]] = "guard"
                            /\ \A d \in Calls \ {c, queue[1]} : wire'[d] = wire[d]
<1>1. PICK w \in {None, wire[c]} : WireAfter(c, w)
  BY DEF Ends
<1>2. wire' = [d \in Calls |-> IF d = c THEN w
                               ELSE IF queue # <<>> /\ d = Head(queue) THEN "guard" ELSE wire[d]]
  BY <1>1 DEF WireAfter
<1>3. queue # <<>> => Head(queue) = queue[1] /\ queue[1] \in Calls \ {c}
  BY EndsFacts, QueueFacts
<1>4. QED
  BY <1>2, <1>3

\* The slot and the outcomes after a call has returned.
LEMMA EndsOutcome ==
  ASSUME TypeOK, NEW c \in Calls, Ends(c)
  PROVE  /\ \A d \in Calls \ {c} : outcome'[d] = outcome[d]
         /\ \/ wire[c] = "answered" /\ fault' = fault /\ outcome'[c].of = NoCall
            \/ fault = NoFault /\ fault' = NoFault /\ outcome'[c].of = NoCall
            \/ fault # NoFault /\ fault' = NoFault /\ outcome'[c] = fault
<1>1. outcome \in [Calls -> Outcomes]
  BY TypesSplit DEF CallTypes
<1>2. ASSUME wire[c] = "answered", UNCHANGED fault, NEW code,
             outcome' = [outcome EXCEPT ![c] = [code |-> code, of |-> NoCall]]
      PROVE  wire[c] = "answered" /\ fault' = fault /\ outcome'[c].of = NoCall
             /\ \A d \in Calls \ {c} : outcome'[d] = outcome[d]
  BY <1>1, <1>2
<1>3. ASSUME NEW report, StableError(c, report)
      PROVE  /\ \A d \in Calls \ {c} : outcome'[d] = outcome[d]
             /\ \/ fault = NoFault /\ fault' = NoFault /\ outcome'[c].of = NoCall
                \/ fault # NoFault /\ fault' = NoFault /\ outcome'[c] = fault
  BY <1>1, <1>3 DEF StableError
<1>4. QED
  BY <1>2, <1>3 DEF Ends, Reported

LEMMA SettledFacts ==
  ASSUME TypeOK, NEW c \in Calls, Settled(c)
  PROVE  /\ age'[c] = 0 /\ running'[c] = 0 /\ ahead'[c] = 0 /\ ~recorded'[c]
         /\ \A d \in Calls \ {c} :
              /\ age'[d] = age[d] /\ running'[d] = running[d] /\ ahead'[d] = ahead[d]
              /\ own'[d] = own[d] /\ recorded'[d] = recorded[d]
BY TypesSplit DEF CallTypes, Settled

\* What a request changes: its wire, and the slot if it is empty.
LEMMA RequestsFacts ==
  ASSUME TypeOK, NEW c \in Calls, Requests(c)
  PROVE  /\ wire[c] \in {"guard", "sent"}
         /\ \A d \in Calls \ {c} :
              wire'[d] = wire[d] /\ own'[d] = own[d] /\ recorded'[d] = recorded[d]
         /\ \/ /\ wire'[c] \in {"raised", "status"}
               /\ IF fault = NoFault THEN fault'.of = c ELSE fault' = fault
               /\ recorded'[c] = (pc[c] = "waiting")
               /\ fault = NoFault /\ pc[c] = "waiting" => fault' = [code |-> own'[c], of |-> c]
            \/ /\ wire'[c] \in {"raised", "sent", "answered"}
               /\ fault' = fault /\ recorded'[c] = recorded[c]
<1>1. /\ wire \in [Calls -> Wires] /\ own \in [Calls -> Codes \cup {None}]
      /\ recorded \in [Calls -> BOOLEAN]
  BY TypesSplit DEF CallTypes
<1>2. ASSUME NEW code \in Codes, NEW w \in {"raised", "status"},
             Records(c, code), wire' = [wire EXCEPT ![c] = w]
      PROVE  /\ \A d \in Calls \ {c} :
                  wire'[d] = wire[d] /\ own'[d] = own[d] /\ recorded'[d] = recorded[d]
             /\ wire'[c] \in {"raised", "status"}
             /\ IF fault = NoFault THEN fault'.of = c ELSE fault' = fault
             /\ recorded'[c] = (pc[c] = "waiting")
             /\ fault = NoFault /\ pc[c] = "waiting" => fault' = [code |-> own'[c], of |-> c]
  BY <1>1, <1>2 DEF Records
<1>3. ASSUME own' \in {own, [own EXCEPT ![c] = IF pc[c] = "waiting" THEN "AUTH_REQUIRED" ELSE @]},
             NEW w \in {"raised", "sent", "answered"}, wire' = [wire EXCEPT ![c] = w],
             UNCHANGED <<fault, recorded>>
      PROVE  /\ \A d \in Calls \ {c} :
                  wire'[d] = wire[d] /\ own'[d] = own[d] /\ recorded'[d] = recorded[d]
             /\ wire'[c] \in {"raised", "sent", "answered"}
             /\ fault' = fault /\ recorded'[c] = recorded[c]
  BY <1>1, <1>3
<1>4. QED
  BY <1>2, <1>3 DEF Requests

LEMMA LivesKept ==
  ASSUME TypeOK, Line, Lives, [Next]_vars
  PROVE  Lives'
<1>1. ASSUME NEW c \in Calls, Makes(c) PROVE Lives'
  <2>1. /\ pc[c] = "idle" /\ stage = "open" /\ UNCHANGED <<age, running, recorded, stage>>
        /\ \A d \in Calls \ {c} : pc'[d] = pc[d]
    BY <1>1, MakesFacts DEF Makes, session
  <2>2. CASE Refused(c)
    <3>1. /\ wire' = wire /\ ahead' = ahead /\ pc'[c] = "done"
          /\ \A d \in Calls \ {c} : outcome'[d] = outcome[d]
      BY <1>1, <2>2, TypesSplit DEF Refused, TypeOK
    <3>2. QED
      BY <2>1, <3>1 DEF Lives
  <2>3. CASE Admitted(c)
    <3>1. /\ \A d \in Calls \ {c} : wire'[d] = wire[d]
          /\ outcome' = outcome /\ ahead' = ahead /\ pc'[c] = "waiting"
      BY <2>3, TypesSplit DEF Admitted, Enters, TypeOK
    <3>2. QED
      BY <2>1, <3>1 DEF Lives
  <2>4. CASE Queued(c)
    <3>1. /\ \A d \in Calls \ {c} : ahead'[d] = ahead[d]
          /\ outcome' = outcome /\ wire' = wire /\ pc'[c] = "queued"
      BY <2>4, TypesSplit DEF Queued, TypeOK
    <3>2. QED
      BY <2>1, <3>1 DEF Lives
  <2>5. QED
    BY <1>1, <2>2, <2>3, <2>4 DEF Makes
<1>2. ASSUME NEW c \in Calls, Ends(c) PROVE Lives'
  <2>1. stage' = stage /\ Settled(c) /\ pc[c] = "waiting" /\ pc'[c] = "done"
    BY <1>2, EndsFacts DEF Ends, session
  <2>2. stage = "open"
    <3>1. stage \in {"connecting", "failing", "open", "closing", "closed"}
      BY DEF TypeOK
    <3>2. QED
      BY <2>1, <3>1 DEF Lives
  <2>3. \A d \in Calls \ {c} : outcome'[d] = outcome[d]
    BY <1>2, EndsOutcome
  <2>4. CASE queue = <<>>
    <3>1. \A d \in Calls \ {c} : pc'[d] = pc[d] /\ wire'[d] = wire[d]
      BY <1>2, <2>4, EndsFacts, EndsWires
    <3>2. QED
      BY <2>1, <2>2, <2>3, <3>1, SettledFacts DEF Lives
  <2>5. CASE queue # <<>>
    <3>1. /\ \A d \in Calls \ {c, queue[1]} : pc'[d] = pc[d] /\ wire'[d] = wire[d]
          /\ pc[queue[1]] = "queued" /\ pc'[queue[1]] = "waiting"
      BY <1>2, <2>5, EndsFacts, EndsWires
    <3>2. QED
      BY <2>1, <2>2, <2>3, <3>1, SettledFacts DEF Lives
  <2>6. QED
    BY <2>4, <2>5
<1>3. ASSUME NEW c \in Calls, Abandons(c) PROVE Lives'
  <2>1. /\ pc[c] = "queued" /\ pc'[c] = "done" /\ \A d \in Calls \ {c} : pc'[d] = pc[d]
        /\ Settled(c) /\ wire' = wire /\ stage' = stage
    BY <1>3, AbandonsFacts DEF Abandons, session
  <2>2. \A d \in Calls \ {c} : outcome'[d] = outcome[d]
    BY <1>3 DEF Abandons, TypeOK
  <2>3. QED
    BY <2>1, <2>2, SettledFacts DEF Lives
<1>4. ASSUME NEW c \in Calls, Requests(c) PROVE Lives'
  <2>1. UNCHANGED <<pc, stage, outcome, running, age, ahead>>
    BY <1>4 DEF Requests, session
  <2>2. pc[c] \notin {"idle", "queued"} /\ (pc[c] # "waiting" => ~recorded'[c])
    BY <1>4, RequestsFacts DEF Lives, None
  <2>3. QED
    BY <1>4, <2>1, <2>2, RequestsFacts DEF Lives
<1>5. CASE Tick
  <2>1. UNCHANGED <<pc, stage, outcome, wire, recorded, ahead>>
    BY <1>5 DEF Tick, session
  <2>2. \A c \in Calls : /\ pc[c] # "waiting" => running'[c] = running[c]
                         /\ pc[c] = "idle" => age'[c] = age[c]
    BY <1>5 DEF Tick
  <2>3. QED
    BY <2>1, <2>2 DEF Lives
<1>6. CASE SessionStep
  <2>1. UNCHANGED <<pc, wire, outcome, recorded, running, age, ahead>>
    BY <1>6 DEF SessionStep, RefuseTarget, RefuseHandshake, HandshakeEnds, BodyEnds, callVars
  <2>2. stage' \in {"connecting", "failing"} => stage = "connecting"
    BY <1>6 DEF SessionStep, RefuseTarget, RefuseHandshake, HandshakeEnds, BodyEnds, session
  <2>3. stage' \in {"closing", "closed"} => \A c \in Calls : pc[c] \in {"idle", "done"}
    <3>1. CASE BodyEnds
      <4>1. \A c \in Calls : pc[c] # "waiting" /\ pc[c] # "queued"
        BY <3>1, QueueFacts DEF BodyEnds, Waiting, Line
      <4>2. QED
        BY <4>1 DEF TypeOK
    <3>2. CASE ~BodyEnds
      BY <1>6, <3>2 DEF SessionStep, RefuseTarget, RefuseHandshake, HandshakeEnds, session, Lives
    <3>3. QED
      BY <3>1, <3>2
  <2>4. QED
    BY <2>1, <2>2, <2>3 DEF Lives
<1>7. CASE Close
  <2>1. /\ UNCHANGED <<pc, outcome, recorded, running, age, ahead>> /\ wire' = [c \in Calls |-> None]
        /\ stage \in {"failing", "closing"} /\ stage' = "closed"
    BY <1>7 DEF Close
  <2>2. QED
    BY <2>1 DEF Lives
<1>8. CASE UNCHANGED vars
  BY <1>8 DEF vars, Lives
<1>9. QED
  BY <1>1, <1>2, <1>3, <1>4, <1>5, <1>6, <1>7, <1>8, Steps DEF CallStep

LEMMA InitialLives == Init => Lives
BY DEF Init, Lives

Life == Semaphore /\ Lives

LEMMA LifeInvariant == Spec => []Life
<1>1. Init => Life
  BY InitialSemaphore, InitialLives DEF Life
<1>2. Life /\ [Next]_vars => Life'
  BY SemaphoreKept, TypesKept, LivesKept DEF Life, Semaphore
<1>3. QED
  BY <1>1, <1>2, PTL DEF Spec

-----------------------------------------------------------------------------
(* Whose refusal is reported *)

\* The request of the call may still meet a refusal.
Unanswered(c) == pc[c] \in {"idle", "queued"} \/ wire[c] \in {"guard", "sent"}

\* A refusal is in one place: still to be met, in the slot, or in one outcome.
Sources ==
  /\ \A c \in Calls : Unanswered(c) => fault.of # c /\ \A d \in Calls : outcome[d].of # c
  /\ fault # NoFault => \A d \in Calls : outcome[d].of = NoCall \/ outcome[d].of # fault.of
  /\ FaultReportedOnce

LEMMA SourcesKept ==
  ASSUME Life, Sources, [Next]_vars
  PROVE  Sources'
<1> USE DEF Life, Semaphore
<1>0. NoFault.of = NoCall /\ NoCall \notin Calls /\ Handshake \notin Calls
  BY SessionAssumption DEF NoFault, Handshake
<1>1. ASSUME NEW c \in Calls, Makes(c) PROVE Sources'
  <2>1. /\ pc[c] = "idle" /\ fault' = fault /\ \A d \in Calls \ {c} : pc'[d] = pc[d]
    BY <1>1, MakesFacts DEF Makes
  <2>2. \A d \in Calls : outcome'[d].of = outcome[d].of
    <3>1. outcome[c] = NoFault
      BY <2>1 DEF Lives
    <3>2. CASE Refused(c)
      BY <1>0, <3>1, <3>2 DEF Refused, TypeOK
    <3>3. CASE Admitted(c) \/ Queued(c)
      BY <3>3 DEF Admitted, Queued
    <3>4. QED
      BY <1>1, <3>2, <3>3 DEF Makes
  <2>3. \A d \in Calls \ {c} : wire'[d] = wire[d]
    BY <1>1 DEF Makes, Refused, Admitted, Queued, Enters, TypeOK
  <2>4. \A d \in Calls : Unanswered(d)' => Unanswered(d)
    BY <2>1, <2>3 DEF Unanswered
  <2>5. QED
    BY <2>1, <2>2, <2>4 DEF Sources, FaultReportedOnce
<1>2. ASSUME NEW c \in Calls, Ends(c) PROVE Sources'
  <2>1. \A d \in Calls : Unanswered(d)' => Unanswered(d)
    <3>1. pc'[c] = "done" /\ (wire'[c] \in {"guard", "sent"} => wire[c] \in {"guard", "sent"})
      BY <1>2, EndsFacts, EndsWires DEF None
    <3>2. CASE queue = <<>>
      BY <1>2, <3>1, <3>2, EndsFacts, EndsWires DEF Unanswered
    <3>3. CASE queue # <<>>
      BY <1>2, <3>1, <3>3, EndsFacts, EndsWires DEF Unanswered
    <3>4. QED
      BY <3>2, <3>3
  <2>2. \A d \in Calls \ {c} : outcome'[d] = outcome[d]
    BY <1>2, EndsOutcome
  <2>3. outcome[c] = NoFault
    BY <1>2 DEF Ends, Lives
  <2>4. CASE fault' = fault /\ outcome'[c].of = NoCall
    BY <1>0, <2>1, <2>2, <2>3, <2>4 DEF Sources, FaultReportedOnce
  <2>5. CASE fault = NoFault /\ fault' = NoFault /\ outcome'[c].of = NoCall
    BY <1>0, <2>1, <2>2, <2>3, <2>5 DEF Sources, FaultReportedOnce
  <2>6. CASE fault # NoFault /\ fault' = NoFault /\ outcome'[c] = fault
    <3>1. \A d \in Calls : Unanswered(d)' => fault'.of # d /\ \A e \in Calls : outcome'[e].of # d
      BY <1>0, <2>1, <2>2, <2>6 DEF Sources
    <3>2. \A d, e \in Calls : d # e /\ outcome'[d].of # NoCall => outcome'[d].of # outcome'[e].of
      BY <2>2, <2>6 DEF Sources, FaultReportedOnce
    <3>3. QED
      BY <2>6, <3>1, <3>2 DEF Sources, FaultReportedOnce
  <2>7. QED
    BY <1>2, <2>4, <2>5, <2>6, EndsOutcome
<1>3. ASSUME NEW c \in Calls, Abandons(c) PROVE Sources'
  <2>1. UNCHANGED <<wire, fault>> /\ pc'[c] = "done" /\ \A d \in Calls \ {c} : pc'[d] = pc[d]
    BY <1>3, AbandonsFacts DEF Abandons
  <2>2. \A d \in Calls : outcome'[d].of = outcome[d].of
    <3>1. outcome[c] = NoFault
      BY <1>3 DEF Abandons, Lives
    <3>2. QED
      BY <1>0, <1>3, <3>1 DEF Abandons, TypeOK
  <2>3. \A d \in Calls : Unanswered(d)' => Unanswered(d)
    BY <2>1 DEF Unanswered
  <2>4. QED
    BY <2>1, <2>2, <2>3 DEF Sources, FaultReportedOnce
<1>4. ASSUME NEW c \in Calls, Requests(c) PROVE Sources'
  <2>1. outcome' = outcome /\ pc' = pc /\ Unanswered(c) /\ pc[c] \notin {"idle", "queued"}
    BY <1>4, RequestsFacts DEF Requests, Unanswered, Lives, None
  <2>2. \A d \in Calls : Unanswered(d)' => Unanswered(d)
    BY <1>4, <2>1, RequestsFacts DEF Unanswered
  <2>3. CASE fault' = fault
    BY <2>1, <2>2, <2>3 DEF Sources, FaultReportedOnce
  <2>4. CASE fault' # fault
    <3>1. fault = NoFault /\ fault'.of = c /\ wire'[c] \in {"raised", "status"}
      BY <1>4, <2>4, RequestsFacts
    <3>2. ~Unanswered(c)'
      BY <2>1, <3>1 DEF Unanswered
    <3>3. QED
      BY <2>1, <2>2, <3>1, <3>2 DEF Sources, FaultReportedOnce
  <2>5. QED
    BY <2>3, <2>4
<1>5. CASE RefuseHandshake
  <2>1. UNCHANGED <<pc, wire, outcome>> /\ fault'.of = Handshake /\ stage = "connecting"
    BY <1>5 DEF RefuseHandshake, callVars
  <2>2. \A d \in Calls : outcome[d] = NoFault
    BY <2>1 DEF Lives
  <2>3. QED
    BY <1>0, <2>1, <2>2 DEF Sources, FaultReportedOnce, Unanswered
<1>6. CASE Close
  <2>1. UNCHANGED <<pc, outcome>> /\ fault' = NoFault /\ wire' = [c \in Calls |-> None]
    BY <1>6 DEF Close
  <2>2. QED
    BY <1>0, <2>1 DEF Sources, FaultReportedOnce, Unanswered, None
<1>7. CASE Tick \/ RefuseTarget \/ HandshakeEnds \/ BodyEnds \/ UNCHANGED vars
  <2>1. UNCHANGED <<pc, wire, outcome, fault>>
    BY <1>7 DEF Tick, RefuseTarget, HandshakeEnds, BodyEnds, callVars, vars
  <2>2. QED
    BY <2>1 DEF Sources, FaultReportedOnce, Unanswered
<1>8. QED
  BY <1>1, <1>2, <1>3, <1>4, <1>5, <1>6, <1>7, Steps DEF CallStep, SessionStep

\* A refusal the guard records is reported by at most one call, however the calls,
\* their timeouts and the SDK's tasks interleave: taking it empties the slot, and
\* no request can meet a second one.
THEOREM RefusalsAreReportedOnce == Spec => []FaultReportedOnce
<1>1. Init => Sources
  BY SessionAssumption DEF Init, Sources, FaultReportedOnce, NoFault
<1>2. Life /\ Sources /\ [Next]_vars => Sources'
  BY SourcesKept
<1>3. Sources => FaultReportedOnce
  BY DEF Sources
<1>4. QED
  BY <1>1, <1>2, <1>3, LifeInvariant, PTL DEF Spec

-----------------------------------------------------------------------------
(* How the session ends *)

\* What is due to the opener is settled when the body, or the handshake, ends: in
\* between nothing is recorded any more.
Ending ==
  /\ stage = "failing" =>
       /\ body.raised # "value"
       /\ body.due = IF fault = NoFault THEN body.raised ELSE fault.code
  /\ stage = "closing" => body.due = body.raised
  /\ OutcomeSurvivesTeardown

LEMMA EndingKept ==
  ASSUME Life, Ending, [Next]_vars
  PROVE  Ending'
<1> USE DEF Life, Semaphore
<1>1. ASSUME NEW c \in Calls, CallStep(c) PROVE Ending'
  <2>1. UNCHANGED session
    BY <1>1 DEF CallStep, Makes, Ends, Abandons, Requests
  <2>2. stage = "failing" => fault' = fault
    <3>1. stage = "failing" => pc[c] = "idle" /\ wire[c] = None
      BY DEF Lives
    <3>2. QED
      BY <1>1, <3>1 DEF CallStep, Makes, Ends, Abandons, Requests, None
  <2>3. QED
    BY <2>1, <2>2 DEF Ending, OutcomeSurvivesTeardown, session
<1>2. CASE Tick \/ UNCHANGED vars
  BY <1>2 DEF Tick, vars, session, Ending, OutcomeSurvivesTeardown
<1>3. CASE RefuseTarget
  BY <1>3 DEF RefuseTarget, Raised, Ending, OutcomeSurvivesTeardown
<1>4. CASE RefuseHandshake
  BY <1>4 DEF RefuseHandshake, session, Ending, OutcomeSurvivesTeardown
<1>5. CASE HandshakeEnds
  BY <1>5 DEF HandshakeEnds, Raised, Ending, OutcomeSurvivesTeardown
<1>6. CASE BodyEnds
  BY <1>6 DEF BodyEnds, Ending, OutcomeSurvivesTeardown
<1>7. CASE Close
  <2>1. PICK t \in {"quiet", "raised", "recorded", "refused", "cancelled"} :
          LET slot == IF t = "recorded" /\ fault = NoFault THEN "PROVIDER_ERROR" ELSE fault.code
              report == IF stage = "failing" /\ slot # None THEN slot ELSE body.raised
          IN  teardown' = t /\ opener' = CloseQuietly(t, report)
    BY <1>7 DEF Close
  <2>2. stage \in {"failing", "closing"} /\ stage' = "closed" /\ body' = body
    BY <1>7 DEF Close
  <2>3. /\ fault = NoFault => fault.code = None
        /\ fault # NoFault => fault.code # None /\ fault.code # "value"
    BY DEF TypeOK, NoFault, None, Codes
  <2>4. CASE stage = "closing"
    BY <2>1, <2>2, <2>4 DEF Ending, OutcomeSurvivesTeardown, CloseQuietly
  <2>5. CASE stage = "failing"
    BY <2>1, <2>2, <2>3, <2>5 DEF Ending, OutcomeSurvivesTeardown, CloseQuietly
  <2>6. QED
    BY <2>2, <2>4, <2>5
<1>8. QED
  BY <1>1, <1>2, <1>3, <1>4, <1>5, <1>6, <1>7, Steps DEF SessionStep

\* However the session is torn down, its opener learns what the handshake or the
\* body came to: the refusal in the slot even where the SDK made a cancellation of
\* it, and a successful body's value even where the closing request is refused.
THEOREM OutcomesSurviveTeardown == Spec => []OutcomeSurvivesTeardown
<1>1. Init => Ending
  BY DEF Init, Ending, OutcomeSurvivesTeardown
<1>2. Life /\ Ending /\ [Next]_vars => Ending'
  BY EndingKept
<1>3. Ending => OutcomeSurvivesTeardown
  BY DEF Ending
<1>4. QED
  BY <1>1, <1>2, <1>3, LifeInvariant, PTL DEF Spec

-----------------------------------------------------------------------------
(* A call that was alone *)

\* While a waiting call is undisturbed nobody else waits or may record, so the slot
\* holds its own refusal, or nothing.
Alone ==
  \A c \in Calls : pc[c] = "waiting" /\ ~disturbed[c] =>
    /\ \A d \in Calls \ {c} : pc[d] # "waiting" /\ wire[d] \notin {"guard", "sent"}
    /\ recorded[c] => fault = [code |-> own[c], of |-> c] /\ wire[c] \in {"raised", "status"}
    /\ ~recorded[c] => fault = NoFault

LEMMA MakesKeepsAlone ==
  ASSUME Life, Alone, NEW c \in Calls, Makes(c)
  PROVE  Alone'
<1> USE DEF Life, Semaphore
<1>1. /\ UNCHANGED <<fault, own, recorded>> /\ pc[c] = "idle" /\ ~recorded[c]
      /\ \A d \in Calls \ {c} : pc'[d] = pc[d]
  BY MakesFacts DEF Makes, Lives
<1>2. CASE Refused(c) \/ Queued(c)
  <2>1. UNCHANGED <<wire, disturbed>> /\ pc'[c] # "waiting"
    BY <1>2 DEF Refused, Queued, TypeOK
  <2>2. QED
    BY <1>1, <2>1 DEF Alone
<1>3. CASE Admitted(c)
  <2>1. /\ \A d \in Calls \ {c} : wire'[d] = wire[d]
        /\ \A d \in Calls \ {c} : disturbed'[d] = (disturbed[d] \/ d \in Waiting)
        /\ disturbed'[c] = (fault # NoFault \/ Waiting \ {c} # {} \/ OnWire # {})
    BY <1>3 DEF Admitted, Enters, TypeOK
  <2>2. ASSUME NEW d \in Calls \ {c}, pc'[d] = "waiting"
        PROVE  disturbed'[d]
    BY <1>1, <2>1, <2>2 DEF Waiting
  <2>3. ASSUME ~disturbed'[c]
        PROVE  /\ \A d \in Calls \ {c} : pc'[d] # "waiting" /\ wire'[d] \notin {"guard", "sent"}
               /\ fault' = NoFault /\ ~recorded'[c]
    BY <1>1, <2>1, <2>3 DEF Waiting, OnWire
  <2>4. QED
    BY <2>2, <2>3 DEF Alone
<1>4. QED
  BY <1>2, <1>3 DEF Makes

LEMMA EndsKeepsAlone ==
  ASSUME Life, Alone, NEW c \in Calls, Ends(c)
  PROVE  Alone'
<1> USE DEF Life, Semaphore
<1>1. pc[c] = "waiting" /\ pc'[c] = "done" /\ Settled(c)
  BY EndsFacts DEF Ends
<1>2. CASE queue = <<>>
  <2>1. disturbed' = disturbed
    BY <1>2 DEF Ends, Leaves
  <2>2. \A d \in Calls \ {c} : pc'[d] = "waiting" => disturbed'[d]
    BY <1>1, <1>2, <2>1, EndsFacts DEF Alone
  <2>3. QED
    BY <1>1, <2>2 DEF Alone
<1>3. CASE queue # <<>>
  <2> DEFINE h == queue[1]
  <2>1. h \in Calls \ {c} /\ Head(queue) = h /\ pc[h] = "queued" /\ ~recorded[h]
    BY <1>3, EndsFacts, QueueFacts DEF Lives
  <2>2. /\ disturbed'[h] = (fault' # NoFault \/ Waiting \ {c} # {} \/ OnWire \ {c} # {} \/ wire'[c] # None)
        /\ \A d \in Calls \ {h} : disturbed'[d] = (disturbed[d] \/ d \in Waiting)
    BY <1>3, <2>1 DEF Ends, Leaves
  <2>3. \A d \in Calls \ {c, h} : pc'[d] = pc[d] /\ wire'[d] = wire[d]
    BY <1>3, EndsFacts, EndsWires
  <2> HIDE DEF h
  <2>4. ASSUME NEW d \in Calls \ {h}, pc'[d] = "waiting"
        PROVE  disturbed'[d]
    BY <1>1, <2>2, <2>3, <2>4 DEF Waiting
  <2>5. ASSUME ~disturbed'[h]
        PROVE  /\ \A d \in Calls \ {h} : pc'[d] # "waiting" /\ wire'[d] \notin {"guard", "sent"}
               /\ fault' = NoFault /\ ~recorded'[h]
    <3>1. fault' = NoFault /\ Waiting \ {c} = {} /\ OnWire \ {c} = {} /\ wire'[c] = None
      BY <2>2, <2>5
    <3>2. \A d \in Calls \ {c, h} : pc'[d] # "waiting" /\ wire'[d] \notin {"guard", "sent"}
      BY <2>3, <3>1 DEF Waiting, OnWire
    <3>3. ~recorded'[h]
      BY <1>1, <2>1, SettledFacts
    <3>4. QED
      BY <1>1, <3>1, <3>2, <3>3 DEF None
  <2>6. QED
    BY <2>4, <2>5 DEF Alone
<1>4. QED
  BY <1>2, <1>3

LEMMA RequestsKeepsAlone ==
  ASSUME Life, Alone, NEW c \in Calls, Requests(c)
  PROVE  Alone'
<1> USE DEF Life, Semaphore
<1>1. UNCHANGED <<pc, disturbed>> /\ wire[c] \in {"guard", "sent"}
  BY RequestsFacts DEF Requests
<1>2. SUFFICES ASSUME NEW d \in Calls, pc[d] = "waiting", ~disturbed[d]
               PROVE  /\ \A e \in Calls \ {d} : pc[e] # "waiting" /\ wire'[e] \notin {"guard", "sent"}
                      /\ recorded'[d] => fault' = [code |-> own'[d], of |-> d]
                                         /\ wire'[d] \in {"raised", "status"}
                      /\ ~recorded'[d] => fault' = NoFault
  BY <1>1 DEF Alone
<1>3. d = c
  BY <1>1, <1>2 DEF Alone
<1>4. ~recorded[c] /\ fault = NoFault
  BY <1>1, <1>2, <1>3 DEF Alone
<1>5. \A e \in Calls \ {c} : pc[e] # "waiting" /\ wire'[e] \notin {"guard", "sent"}
  BY <1>2, <1>3, RequestsFacts DEF Alone
<1>6. /\ recorded'[c] => fault' = [code |-> own'[c], of |-> c] /\ wire'[c] \in {"raised", "status"}
      /\ ~recorded'[c] => fault' = NoFault
  BY <1>2, <1>3, <1>4, RequestsFacts
<1>7. QED
  BY <1>3, <1>5, <1>6

LEMMA AloneKept ==
  ASSUME Life, Alone, [Next]_vars
  PROVE  Alone'
<1> USE DEF Life, Semaphore
<1>1. ASSUME NEW c \in Calls, Abandons(c) PROVE Alone'
  <2>1. /\ UNCHANGED <<wire, fault, disturbed>> /\ Settled(c) /\ pc'[c] = "done"
        /\ \A d \in Calls \ {c} : pc'[d] = pc[d]
    BY <1>1, AbandonsFacts DEF Abandons
  <2>2. QED
    BY <2>1, SettledFacts DEF Alone
<1>2. CASE RefuseHandshake
  <2>1. UNCHANGED pc /\ stage = "connecting"
    BY <1>2 DEF RefuseHandshake, callVars
  <2>2. QED
    BY <2>1 DEF Alone, Lives
<1>3. CASE Close
  <2>1. UNCHANGED pc /\ stage \in {"failing", "closing"}
    BY <1>3 DEF Close
  <2>2. QED
    BY <2>1 DEF Alone, Lives
<1>4. CASE Tick \/ RefuseTarget \/ HandshakeEnds \/ BodyEnds \/ UNCHANGED vars
  <2>1. UNCHANGED <<pc, wire, fault, own, recorded, disturbed>>
    BY <1>4 DEF Tick, RefuseTarget, HandshakeEnds, BodyEnds, callVars, vars
  <2>2. QED
    BY <2>1 DEF Alone
<1>5. QED
  BY <1>1, <1>2, <1>3, <1>4, MakesKeepsAlone, EndsKeepsAlone, RequestsKeepsAlone, Steps
     DEF CallStep, SessionStep

\* A call that had the session to itself reports the refusal the guard recorded for
\* it, whether the SDK made an error or a cancellation of that refusal, or it timed
\* out or was cancelled after it.
THEOREM LoneRefusalsAreReported == Spec => LoneCallReportsItsRefusal
<1>1. Init => Alone
  BY DEF Init, Alone
<1>2. Life /\ Alone /\ [Next]_vars => Alone'
  BY AloneKept
<1>3. ASSUME Life, Alone, [Next]_vars
      PROVE  [\A c \in Calls : Returns(c) /\ recorded[c] /\ ~disturbed[c] =>
                outcome'[c].code = own[c]]_vars
  <2> USE DEF Life, Semaphore
  <2> SUFFICES ASSUME NEW c \in Calls, Returns(c), recorded[c], ~disturbed[c]
               PROVE  outcome'[c].code = own[c]
    OBVIOUS
  <2>1. /\ pc[c] = "waiting" /\ pc'[c] = "done"
        /\ fault = [code |-> own[c], of |-> c] /\ wire[c] \in {"raised", "status"}
    BY <1>3 DEF Returns, Alone
  <2>2. fault # NoFault
    BY <2>1, SessionAssumption DEF NoFault
  <2>3. Ends(c)
    <3>1. ASSUME NEW d \in Calls, CallStep(d) PROVE d = c /\ Ends(c)
      <4>1. CASE Makes(d)
        BY <1>3, <2>1, <4>1, MakesFacts
      <4>2. CASE Ends(d)
        BY <1>3, <2>1, <4>2, EndsFacts
      <4>3. CASE Abandons(d)
        BY <1>3, <2>1, <4>3, AbandonsFacts
      <4>4. CASE Requests(d)
        BY <2>1, <4>4 DEF Requests
      <4>5. QED
        BY <3>1, <4>1, <4>2, <4>3, <4>4 DEF CallStep
    <3>2. pc' # pc
      BY <2>1
    <3>3. QED
      BY <1>3, <3>1, <3>2, SemaphoreAlone, Steps
  <2>4. QED
    BY <1>3, <2>1, <2>2, <2>3, EndsOutcome
<1>4. QED
  BY <1>1, <1>2, <1>3, LifeInvariant, PTL DEF Spec, LoneCallReportsItsRefusal

-----------------------------------------------------------------------------
(* How long a call waits *)

\* The queue in rows as wide as the semaphore: the row of a place, and its place in
\* the row, from zero.
Row(i) == (i - 1) \div MaxConcurrentCalls
Place(i) == (i - 1) % MaxConcurrentCalls

LEMMA RowTypes ==
  ASSUME NEW i \in Nat \ {0}
  PROVE  Row(i) \in Nat /\ Place(i) \in 0..(MaxConcurrentCalls - 1)
         /\ i - 1 = MaxConcurrentCalls * Row(i) + Place(i)
BY SessionAssumption DEF Row, Place

LEMMA Quotient ==
  ASSUME NEW m \in Nat \ {0}, NEW q \in Nat, NEW r \in 0..(m - 1)
  PROVE  (m * q + r) \div m = q /\ (m * q + r) % m = r
OBVIOUS

\* One place up is one place to the left, or the end of the row before.
LEMMA PlaceBefore ==
  ASSUME NEW i \in Nat \ {0, 1}
  PROVE  /\ Place(i) > 0 => Row(i - 1) = Row(i) /\ Place(i - 1) = Place(i) - 1
         /\ Place(i) = 0 => Row(i) = Row(i - 1) + 1 /\ Place(i - 1) = MaxConcurrentCalls - 1
<1> DEFINE m == MaxConcurrentCalls
<1>1. m \in Nat \ {0} /\ i - 1 \in Nat \ {0} /\ i - 2 = (i - 1) - 1
  BY SessionAssumption
<1>2. Row(i) \in Nat /\ Place(i) \in 0..(m - 1) /\ i - 1 = m * Row(i) + Place(i)
  BY RowTypes
<1>3. CASE Place(i) > 0
  <2>1. Place(i) - 1 \in 0..(m - 1) /\ (i - 1) - 1 = m * Row(i) + (Place(i) - 1)
    BY <1>1, <1>2, <1>3
  <2>2. ((i - 1) - 1) \div m = Row(i) /\ ((i - 1) - 1) % m = Place(i) - 1
    <3> HIDE DEF m
    <3>1. /\ (m * Row(i) + (Place(i) - 1)) \div m = Row(i)
          /\ (m * Row(i) + (Place(i) - 1)) % m = Place(i) - 1
      BY <1>1, <1>2, <2>1, Quotient
    <3>2. QED
      BY <2>1, <3>1
  <2>3. QED
    BY <1>3, <2>2 DEF Row, Place
<1>4. CASE Place(i) = 0
  <2>1. Row(i) > 0
    BY <1>1, <1>2, <1>4
  <2>2. m * Row(i) = m * (Row(i) - 1) + m
    BY <1>1, <1>2
  <2>3. Row(i) - 1 \in Nat /\ m - 1 \in 0..(m - 1) /\ (i - 1) - 1 = m * (Row(i) - 1) + (m - 1)
    BY <1>1, <1>2, <1>4, <2>1, <2>2
  <2>4. ((i - 1) - 1) \div m = Row(i) - 1 /\ ((i - 1) - 1) % m = m - 1
    <3> HIDE DEF m
    <3> QED BY <1>1, <2>3, Quotient
  <2>5. Row(i - 1) = Row(i) - 1 /\ Place(i - 1) = m - 1
    BY <2>4 DEF Row, Place
  <2>6. QED
    BY <1>2, <1>4, <2>5
<1>5. QED
  BY <1>2, <1>3, <1>4

\* A new call has everybody before it: its row, and the row that holds the permits.
LEMMA RowsAhead ==
  ASSUME NEW i \in Nat \ {0}
  PROVE  (i - 1 + MaxConcurrentCalls) \div MaxConcurrentCalls = Row(i) + 1
<1> DEFINE m == MaxConcurrentCalls
<1>1. m \in Nat \ {0} /\ Row(i) \in Nat /\ Place(i) \in 0..(m - 1) /\ i - 1 = m * Row(i) + Place(i)
  BY SessionAssumption, RowTypes
<1>2. m * (Row(i) + 1) = m * Row(i) + m
  BY <1>1
<1>3. i - 1 + m = m * (Row(i) + 1) + Place(i) /\ Row(i) + 1 \in Nat
  BY <1>1, <1>2
<1>4. QED
  <2> HIDE DEF m
  <2>1. (i - 1 + m) \div m = Row(i) + 1
    BY <1>1, <1>3, Quotient
  <2>2. QED
    BY <2>1 DEF m

\* The time a call may spend in the queue.
Allowed(c) == (ahead[c] \div MaxConcurrentCalls) * TotalTimeout

\* The permits that come back soon enough, at the latest, for a call with n rows
\* before its own.
InTime(c, n) ==
  {d \in Waiting : age[c] + (TotalTimeout - running[d]) + n * TotalTimeout <= Allowed(c)}

\* Enough permits come back in time for each call in the queue and those before it
\* in its row; and a call that waits has not spent more than it may in the queue.
OnTime ==
  /\ \A i \in 1..Len(queue), c \in Calls :
       c = queue[i] => Place(i) < Cardinality(InTime(c, Row(i)))
  /\ \A c \in Waiting : age[c] <= Allowed(c) + running[c]

LEMMA TimeTypes ==
  ASSUME TypeOK
  PROVE  /\ TotalTimeout \in Nat /\ MaxConcurrentCalls \in Nat \ {0}
         /\ \A c \in Calls : /\ age[c] \in Nat /\ running[c] \in 0..TotalTimeout
                             /\ Allowed(c) \in Nat
         /\ \A n \in Nat : n * TotalTimeout \in Nat /\ (n + 1) * TotalTimeout = n * TotalTimeout + TotalTimeout
<1>1. TotalTimeout \in Nat /\ MaxConcurrentCalls \in Nat \ {0}
  BY SessionAssumption
<1>2. \A c \in Calls : age[c] \in Nat /\ running[c] \in 0..TotalTimeout /\ ahead[c] \in Nat
  BY DEF TypeOK
<1>3. \A n \in Nat : n * TotalTimeout \in Nat /\ (n + 1) * TotalTimeout = n * TotalTimeout + TotalTimeout
  BY <1>1
<1>4. \A c \in Calls : ahead[c] \div MaxConcurrentCalls \in Nat
  BY <1>1, <1>2
<1>5. QED
  BY <1>1, <1>2, <1>3, <1>4 DEF Allowed

\* In the queue nobody has waited longer than it may.
LEMMA QueuedInTime ==
  ASSUME TypeOK, Permits, OnTime, NEW i \in 1..Len(queue), NEW c \in Calls, c = queue[i]
  PROVE  age[c] + Row(i) * TotalTimeout <= Allowed(c)
<1>1. Len(queue) \in Nat
  BY QueueFacts
<1>2. Row(i) \in Nat /\ Place(i) \in Nat
  <2>1. i \in Nat \ {0}
    BY <1>1
  <2>2. Row(i) \in Nat /\ Place(i) \in 0..(MaxConcurrentCalls - 1)
    BY <2>1, RowTypes
  <2>3. QED
    BY <2>2
<1>3. InTime(c, Row(i)) # {}
  <2>1. Place(i) < Cardinality(InTime(c, Row(i)))
    BY DEF OnTime
  <2>2. ASSUME InTime(c, Row(i)) = {} PROVE Place(i) < 0
    <3>1. Cardinality(InTime(c, Row(i))) = 0
      BY <2>2, FS_EmptySet, Zenon
    <3>2. QED
      BY <2>1, <3>1, Zenon
  <2>3. QED
    BY <1>2, <2>2
<1>4. PICK d \in Waiting :
        age[c] + (TotalTimeout - running[d]) + Row(i) * TotalTimeout <= Allowed(c)
  BY <1>3 DEF InTime
<1>5. /\ TotalTimeout \in Nat /\ running[d] \in 0..TotalTimeout /\ Row(i) * TotalTimeout \in Nat
      /\ age[c] \in Nat /\ Allowed(c) \in Nat
  BY <1>1, <1>2, TimeTypes DEF Waiting
<1>6. QED
  BY <1>4, <1>5

\* A call whose place moves up by one stays in time, whether a permit was passed on
\* before it or somebody before it gave up.
LEMMA MovesUp ==
  ASSUME TypeOK, Permits, OnTime, TypeOK',
         IsFiniteSet(Waiting'), Cardinality(Waiting') = MaxConcurrentCalls,
         NEW c, Waiting \ {c} \subseteq Waiting', \A e \in Waiting \ {c} : running'[e] = running[e],
         NEW i \in 2..Len(queue), NEW d \in Calls, d = queue[i],
         age'[d] = age[d], ahead'[d] = ahead[d]
  PROVE  Place(i - 1) < Cardinality(InTime(d, Row(i - 1))')
<1>1. Len(queue) \in Nat /\ d \in Calls /\ i \in Nat \ {0, 1} /\ i \in 1..Len(queue)
  BY QueueFacts
<1>2. /\ Row(i) \in Nat /\ Place(i) \in Nat /\ Row(i - 1) \in Nat /\ Place(i - 1) \in Nat
      /\ Place(i - 1) < MaxConcurrentCalls
  <2>1. i \in Nat \ {0} /\ i - 1 \in Nat \ {0}
    BY <1>1
  <2>2. /\ Row(i) \in Nat /\ Place(i) \in 0..(MaxConcurrentCalls - 1)
        /\ Row(i - 1) \in Nat /\ Place(i - 1) \in 0..(MaxConcurrentCalls - 1)
    BY <2>1, RowTypes
  <2>3. MaxConcurrentCalls \in Nat
    BY SessionAssumption
  <2>4. QED
    BY <2>2, <2>3
<1> DEFINE Old == InTime(d, Row(i))
           New == {e \in Waiting' : age[d] + (TotalTimeout - running'[e]) + Row(i - 1) * TotalTimeout
                                      <= Allowed(d)}
<1>3. InTime(d, Row(i - 1))' = New
  BY DEF InTime, Allowed
<1>4. New \subseteq Waiting' /\ Old \subseteq Waiting /\ IsFiniteSet(New) /\ IsFiniteSet(Old)
  BY FS_Subset DEF InTime, Permits
<1>5. Cardinality(New) \in Nat /\ Cardinality(Old) \in Nat
  BY <1>4, FS_CardinalityType
<1>6. CASE Place(i) > 0
  <2>1. Row(i - 1) = Row(i) /\ Place(i - 1) = Place(i) - 1
    BY <1>1, <1>6, PlaceBefore
  <2>2. Old \ {c} \subseteq New
    BY <2>1 DEF InTime
  <2>3. IsFiniteSet(Old \ {c}) /\ Cardinality(Old \ {c}) >= Cardinality(Old) - 1
    <3> HIDE DEF Old
    <3>1. /\ IsFiniteSet(Old \ {c})
          /\ Cardinality(Old \ {c}) = IF c \in Old THEN Cardinality(Old) - 1 ELSE Cardinality(Old)
      BY <1>4, FS_RemoveElement
    <3>2. QED
      BY <1>5, <3>1
  <2>4. Cardinality(Old \ {c}) <= Cardinality(New)
    BY <1>4, <2>2, FS_Subset
  <2>5. Place(i) < Cardinality(Old)
    BY <1>1 DEF OnTime
  <2>6. Cardinality(Old \ {c}) \in Nat
    BY <2>3, FS_CardinalityType
  <2> HIDE DEF Old, New
  <2>7. Place(i - 1) < Cardinality(New)
    BY <1>2, <1>5, <2>1, <2>3, <2>4, <2>5, <2>6
  <2>8. QED
    BY <1>3, <2>7
<1>7. CASE Place(i) = 0
  <2>1. Row(i) = Row(i - 1) + 1
    BY <1>1, <1>7, PlaceBefore
  <2>2. age[d] + Row(i) * TotalTimeout <= Allowed(d)
    BY <1>1, QueuedInTime
  <2>3. Row(i) * TotalTimeout = Row(i - 1) * TotalTimeout + TotalTimeout
    BY <1>2, <2>1, TimeTypes
  <2>4. /\ TotalTimeout \in Nat /\ Row(i - 1) * TotalTimeout \in Nat
        /\ age[d] \in Nat /\ Allowed(d) \in Nat
    BY <1>1, <1>2, TimeTypes
  <2>5. \A e \in Waiting' : running'[e] \in 0..TotalTimeout
    BY DEF TypeOK, Waiting
  <2>6. New = Waiting'
    <3>1. ASSUME NEW e \in Waiting'
          PROVE  age[d] + (TotalTimeout - running'[e]) + Row(i - 1) * TotalTimeout <= Allowed(d)
      <4>1. running'[e] \in Nat
        BY <2>4, <2>5, <3>1
      <4>2. QED
        BY <2>2, <2>3, <2>4, <4>1, SMTT(20)
    <3>2. QED
      BY <3>1
  <2>7. QED
    BY <1>2, <1>3, <2>6
<1>8. QED
  BY <1>2, <1>6, <1>7

\* What a call's time depends on.
LEMMA TimesAlone ==
  ASSUME TypeOK, NEW d \in Calls, age'[d] = age[d], ahead'[d] = ahead[d]
  PROVE  /\ Allowed(d)' = Allowed(d)
         /\ Waiting' = Waiting /\ running' = running => \A n : InTime(d, n)' = InTime(d, n)
BY DEF Allowed, InTime

LEMMA QueuedOnTime ==
  ASSUME Life, OnTime, NEW c \in Calls, Makes(c), Queued(c)
  PROVE  OnTime'
<1> USE DEF Life, Semaphore
<1> DEFINE last == Len(queue) + 1
<1>1. /\ UNCHANGED <<age, running>> /\ pc[c] = "idle" /\ age[c] = 0
  BY MakesFacts DEF Makes, Lives
<1>2. /\ queue' = Append(queue, c) /\ value = 0
      /\ ahead' = [ahead EXCEPT ![c] = Len(queue) + Cardinality(Waiting)]
  BY DEF Queued
<1>3. Waiting' = Waiting /\ c \notin Waiting
  BY <1>1 DEF Queued, Waiting, TypeOK
<1>4. Len(queue) \in Nat /\ last \in Nat \ {0} /\ last - 1 = Len(queue)
  BY QueueFacts
<1>5. Len(queue') = last /\ queue'[last] = c /\ \A j \in 1..Len(queue) : queue'[j] = queue[j]
  BY <1>2, QueueFacts, AppendProperties
<1>6. Cardinality(Waiting) = MaxConcurrentCalls /\ ahead'[c] = Len(queue) + MaxConcurrentCalls
  <2>1. Cardinality(Waiting) = MaxConcurrentCalls
    BY <1>2, FS_CardinalityType, SessionAssumption DEF Permits
  <2>2. ahead'[c] = Len(queue) + Cardinality(Waiting)
    BY <1>2 DEF TypeOK
  <2>3. QED
    BY <2>1, <2>2
<1>7. ASSUME NEW d \in Calls \ {c}
      PROVE  Allowed(d)' = Allowed(d) /\ \A n : InTime(d, n)' = InTime(d, n)
  <2>1. ahead'[d] = ahead[d]
    BY <1>2 DEF TypeOK
  <2>2. QED
    BY <1>1, <1>3, <2>1, TimesAlone
<1>8. ASSUME NEW j \in 1..Len(queue), NEW d \in Calls, d = queue'[j]
      PROVE  Place(j) < Cardinality(InTime(d, Row(j))')
  <2>1. d = queue[j] /\ d # c
    BY <1>1, <1>5, <1>8 DEF Line
  <2>2. Place(j) < Cardinality(InTime(d, Row(j)))
    BY <2>1 DEF OnTime
  <2>3. InTime(d, Row(j))' = InTime(d, Row(j))
    BY <1>7, <2>1
  <2>4. QED
    BY <2>2, <2>3
<1>9. ASSUME NEW j, j = last
      PROVE  Place(j) < Cardinality(InTime(c, Row(j))')
  <2>1. Row(j) \in Nat /\ Place(j) \in Nat /\ Place(j) < MaxConcurrentCalls /\ j \in Nat \ {0}
    BY <1>4, <1>9, RowTypes, SessionAssumption
  <2>2. Allowed(c)' = (Row(j) + 1) * TotalTimeout
    <3>1. ahead'[c] = j - 1 + MaxConcurrentCalls
      BY <1>4, <1>6, <1>9
    <3>2. QED
      BY <2>1, <3>1, RowsAhead DEF Allowed
  <2>3. /\ (Row(j) + 1) * TotalTimeout = Row(j) * TotalTimeout + TotalTimeout
        /\ Row(j) * TotalTimeout \in Nat /\ TotalTimeout \in Nat
    BY <2>1, TimeTypes
  <2>4. \A d \in Waiting : running[d] \in 0..TotalTimeout
    BY TimeTypes DEF Waiting
  <2>5. \A d \in Waiting : age'[c] + (TotalTimeout - running'[d]) + Row(j) * TotalTimeout <= Allowed(c)'
    BY <1>1, <2>2, <2>3, <2>4
  <2>6. InTime(c, Row(j))' = Waiting
    BY <1>3, <2>5 DEF InTime
  <2>7. QED
    BY <1>6, <2>1, <2>6
<1>10. \A d \in Waiting' : age'[d] <= Allowed(d)' + running'[d]
  <2>1. \A d \in Waiting : age[d] <= Allowed(d) + running[d]
    BY DEF OnTime
  <2>2. QED
    BY <1>1, <1>3, <1>7, <2>1 DEF Waiting
<1>11. ASSUME NEW j \in 1..Len(queue'), NEW d \in Calls, d = queue'[j]
       PROVE  Place(j) < Cardinality(InTime(d, Row(j))')
  <2>1. CASE j \in 1..Len(queue)
    BY <1>8, <1>11, <2>1
  <2>2. CASE j = last
    BY <1>5, <1>9, <1>11, <2>2
  <2>3. QED
    BY <1>4, <1>5, <2>1, <2>2
<1>12. QED
  BY <1>10, <1>11 DEF OnTime

LEMMA MakesOnTime ==
  ASSUME Life, OnTime, NEW c \in Calls, Makes(c)
  PROVE  OnTime'
<1> USE DEF Life, Semaphore
<1>1. UNCHANGED <<age, running>> /\ pc[c] = "idle" /\ age[c] = 0 /\ running[c] = 0
  BY MakesFacts DEF Makes, Lives
<1>2. \A d \in Waiting : age[d] <= Allowed(d) + running[d]
  BY DEF OnTime
<1>3. CASE Refused(c)
  <2>1. queue' = queue /\ ahead' = ahead
    BY <1>3 DEF Refused
  <2>2. Waiting' = Waiting
    BY <1>1, <1>3 DEF Refused, Waiting, TypeOK
  <2>3. \A d \in Calls : Allowed(d)' = Allowed(d) /\ \A n : InTime(d, n)' = InTime(d, n)
    BY <1>1, <2>1, <2>2, TimesAlone
  <2>4. \A d \in Waiting' : age'[d] <= Allowed(d)' + running'[d]
    BY <1>1, <1>2, <2>2, <2>3 DEF Waiting
  <2>5. QED
    BY <2>1, <2>3, <2>4 DEF OnTime
<1>4. CASE Admitted(c)
  <2>1. queue' = queue /\ ahead' = ahead /\ value > 0
    BY <1>4 DEF Admitted
  <2>2. Waiting' = Waiting \cup {c}
    BY <1>4 DEF Admitted, Waiting, TypeOK
  <2>3. Len(queue') = 0
    BY <2>1, QueueFacts DEF Permits
  <2>4. \A d \in Calls : Allowed(d)' = Allowed(d) /\ Allowed(d) \in Nat
    BY <1>1, <2>1, TimesAlone, TimeTypes
  <2>5. \A d \in Waiting' : age'[d] <= Allowed(d)' + running'[d]
    BY <1>1, <1>2, <2>2, <2>4 DEF Waiting
  <2>6. QED
    BY <2>3, <2>5 DEF OnTime
<1>5. CASE Queued(c)
  BY <1>5, QueuedOnTime
<1>6. QED
  BY <1>3, <1>4, <1>5 DEF Makes

\* A call that returns: the first in the queue has its permit, everybody else moves up.
LEMMA EndsOnTime ==
  ASSUME Life, Life', OnTime, NEW c \in Calls, Ends(c)
  PROVE  OnTime'
<1> USE DEF Life, Semaphore
<1>1. Settled(c) /\ pc[c] = "waiting"
  BY DEF Ends
<1>2. \A d \in Calls \ {c} : age'[d] = age[d] /\ running'[d] = running[d] /\ ahead'[d] = ahead[d]
  BY <1>1, SettledFacts
<1>3. \A d \in Calls \ {c} : Allowed(d)' = Allowed(d) /\ Allowed(d) \in Nat
  BY <1>2, TimesAlone, TimeTypes
<1>4. \A d \in Waiting \ {c} : age'[d] <= Allowed(d)' + running'[d]
  BY <1>2, <1>3 DEF OnTime, Waiting
<1>5. CASE queue = <<>>
  <2>1. queue' = queue /\ Waiting' = Waiting \ {c}
    BY <1>5, EndsFacts
  <2>2. Len(queue') = 0
    BY <1>5, <2>1, QueueFacts
  <2>3. QED
    BY <1>4, <2>1, <2>2 DEF OnTime
<1>6. CASE queue # <<>>
  <2>1. PICK h \in Calls : h = queue[1]
    BY <1>6, EndsFacts
  <2>2. /\ Shortened(1) /\ value' = value /\ h # c /\ pc[h] = "queued"
        /\ Waiting' = (Waiting \ {c}) \cup {h}
    BY <1>6, <2>1, EndsFacts
  <2>3. 1 \in 1..Len(queue) /\ Len(queue) \in Nat /\ Len(queue') = Len(queue) - 1
    BY <1>6, <2>2, QueueFacts DEF Shortened
  <2>4. age'[h] <= Allowed(h)' + running'[h]
    <3>1. Row(1) = 0
      BY SessionAssumption DEF Row
    <3>2. age[h] + Row(1) * TotalTimeout <= Allowed(h)
      BY <2>1, <2>3, QueuedInTime
    <3>3. running[h] = 0 /\ age[h] \in Nat /\ TotalTimeout \in Nat /\ Allowed(h) \in Nat
      BY <2>2, TimeTypes DEF Lives
    <3>4. age'[h] = age[h] /\ running'[h] = 0 /\ Allowed(h)' = Allowed(h)
      BY <1>2, <1>3, <2>2, <3>3
    <3>5. QED
      BY <3>1, <3>2, <3>3, <3>4
  <2>5. IsFiniteSet(Waiting') /\ Cardinality(Waiting') = MaxConcurrentCalls
    <3>1. value = 0
      BY <1>6 DEF Permits
    <3>2. IsFiniteSet(Waiting') /\ value' + Cardinality(Waiting') = MaxConcurrentCalls
      BY DEF Permits
    <3>3. Cardinality(Waiting') \in Nat
      BY <3>2, FS_CardinalityType
    <3>4. QED
      BY <2>2, <3>1, <3>2, <3>3
  <2>6. ASSUME NEW j \in 1..Len(queue'), NEW d \in Calls, d = queue'[j]
        PROVE  Place(j) < Cardinality(InTime(d, Row(j))')
    <3>1. PICK i \in 2..Len(queue) : i = j + 1
      BY <2>3
    <3>2. d = queue[i] /\ j = i - 1
      BY <2>2, <2>3, <2>6, <3>1 DEF Shortened
    <3>3. d # c
      BY <1>1, <2>3, <3>1, <3>2 DEF Line
    <3>4. Waiting \ {c} \subseteq Waiting' /\ \A e \in Waiting \ {c} : running'[e] = running[e]
      BY <1>2, <2>2 DEF Waiting
    <3>5. Place(i - 1) < Cardinality(InTime(d, Row(i - 1))')
      BY <1>2, <2>5, <3>2, <3>3, <3>4, MovesUp
    <3>6. QED
      BY <3>2, <3>5
  <2>7. \A d \in Waiting' : age'[d] <= Allowed(d)' + running'[d]
    BY <1>4, <2>2, <2>4
  <2>8. QED
    BY <2>6, <2>7 DEF OnTime
<1>7. QED
  BY <1>5, <1>6

\* A call that gives up: those behind it move up, those before it stay.
LEMMA AbandonsOnTime ==
  ASSUME Life, Life', OnTime, NEW c \in Calls, Abandons(c)
  PROVE  OnTime'
<1> USE DEF Life, Semaphore
<1>1. Settled(c) /\ pc[c] = "queued" /\ Waiting' = Waiting /\ value' = value
  BY AbandonsFacts DEF Abandons
<1>2. \A d \in Calls \ {c} : age'[d] = age[d] /\ running'[d] = running[d] /\ ahead'[d] = ahead[d]
  BY <1>1, SettledFacts
<1>3. \A e \in Waiting : e # c /\ running'[e] = running[e]
  BY <1>1, <1>2 DEF Waiting
<1>4. \A d \in Calls \ {c} : Allowed(d)' = Allowed(d)
  BY <1>2, TimesAlone
<1>5. PICK k \in 1..Len(queue) : queue[k] = c /\ Shortened(k)
  BY AbandonsFacts
<1>6. Len(queue) \in Nat /\ Len(queue') = Len(queue) - 1
  BY <1>5, QueueFacts DEF Shortened
<1>7. IsFiniteSet(Waiting') /\ Cardinality(Waiting') = MaxConcurrentCalls
  <2>1. value = 0
    BY <1>5, <1>6, QueueFacts DEF Permits
  <2>2. IsFiniteSet(Waiting) /\ Cardinality(Waiting) \in Nat
    BY FS_CardinalityType DEF Permits
  <2>3. QED
    BY <1>1, <2>1, <2>2 DEF Permits
<1>8. ASSUME NEW j \in 1..Len(queue'), NEW d \in Calls, d = queue'[j]
      PROVE  Place(j) < Cardinality(InTime(d, Row(j))')
  <2>1. CASE j < k
    <3>1. j \in 1..Len(queue) /\ d = queue[j]
      BY <1>5, <1>6, <1>8, <2>1 DEF Shortened
    <3>2. d # c
      BY <1>5, <2>1, <3>1 DEF Line
    <3>3. InTime(d, Row(j))' = InTime(d, Row(j))
      BY <1>1, <1>2, <1>3, <1>4, <3>2 DEF InTime
    <3>4. Place(j) < Cardinality(InTime(d, Row(j)))
      BY <3>1 DEF OnTime
    <3>5. QED
      BY <3>3, <3>4
  <2>2. CASE ~(j < k)
    <3>1. PICK i \in 2..Len(queue) : i = j + 1
      BY <1>6
    <3>2. d = queue[i] /\ j = i - 1 /\ i # k
      BY <1>5, <1>6, <1>8, <2>2, <3>1 DEF Shortened
    <3>3. d # c
      BY <1>5, <1>6, <3>1, <3>2 DEF Line
    <3>4. Waiting \ {c} \subseteq Waiting' /\ \A e \in Waiting \ {c} : running'[e] = running[e]
      BY <1>1, <1>3
    <3>5. Place(i - 1) < Cardinality(InTime(d, Row(i - 1))')
      BY <1>2, <1>7, <3>2, <3>3, <3>4, MovesUp
    <3>6. QED
      BY <3>2, <3>5
  <2>3. QED
    BY <2>1, <2>2
<1>9. \A d \in Waiting' : age'[d] <= Allowed(d)' + running'[d]
  <2>1. \A d \in Waiting : age[d] <= Allowed(d) + running[d]
    BY DEF OnTime
  <2>2. QED
    BY <1>1, <1>2, <1>3, <1>4, <2>1 DEF Waiting
<1>10. QED
  BY <1>8, <1>9 DEF OnTime

\* A tick costs the call and the permits it waits for the same.
LEMMA TickOnTime ==
  ASSUME Life, OnTime, Tick
  PROVE  OnTime'
<1> USE DEF Life, Semaphore
<1>1. UNCHANGED <<queue, ahead>> /\ Waiting' = Waiting
  BY DEF Tick, Waiting
<1>2. \A d \in Calls : Allowed(d)' = Allowed(d)
  BY <1>1 DEF Allowed
<1>3. \A d \in Calls : pc[d] \in {"queued", "waiting"} => age'[d] = age[d] + 1
  BY DEF Tick
<1>4. \A d \in Waiting : running'[d] = running[d] + 1
  BY DEF Tick, Waiting
<1>5. ASSUME NEW j \in 1..Len(queue'), NEW d \in Calls, d = queue'[j]
      PROVE  Place(j) < Cardinality(InTime(d, Row(j))')
  <2>1. j \in 1..Len(queue) /\ d = queue[j] /\ pc[d] = "queued" /\ j \in Nat \ {0}
    BY <1>1, <1>5, QueueFacts DEF Line
  <2>2. Row(j) * TotalTimeout \in Nat /\ TotalTimeout \in Nat /\ age[d] \in Nat /\ Allowed(d) \in Nat
    BY <2>1, RowTypes, TimeTypes
  <2>3. \A e \in Waiting : running[e] \in 0..TotalTimeout
    BY TimeTypes DEF Waiting
  <2>4. \A e \in Waiting :
          age'[d] + (TotalTimeout - running'[e]) = age[d] + (TotalTimeout - running[e])
    <3>1. age'[d] = age[d] + 1
      BY <1>3, <2>1
    <3>2. SUFFICES ASSUME NEW e \in Waiting
                   PROVE  age'[d] + (TotalTimeout - running'[e]) = age[d] + (TotalTimeout - running[e])
      OBVIOUS
    <3>3. running'[e] = running[e] + 1
      BY <1>4
    <3>4. running[e] \in Int /\ TotalTimeout \in Int /\ age[d] \in Int
      BY <2>2, <2>3
    <3>5. QED
      BY <3>1, <3>3, <3>4, SMTT(20)
  <2>5. InTime(d, Row(j))' = InTime(d, Row(j))
    BY <1>1, <1>2, <2>4 DEF InTime
  <2>6. Place(j) < Cardinality(InTime(d, Row(j)))
    BY <2>1 DEF OnTime
  <2>7. QED
    BY <2>5, <2>6
<1>6. ASSUME NEW d \in Waiting
      PROVE  age'[d] <= Allowed(d)' + running'[d]
  <2>1. d \in Calls /\ pc[d] = "waiting"
    BY DEF Waiting
  <2>2. /\ age[d] \in Nat /\ Allowed(d) \in Nat /\ TotalTimeout \in Nat
        /\ running[d] \in 0..TotalTimeout
    BY <2>1, TimeTypes
  <2>3. age[d] <= Allowed(d) + running[d]
    BY DEF OnTime
  <2>4. QED
    BY <1>2, <1>3, <1>4, <2>1, <2>2, <2>3
<1>7. QED
  BY <1>1, <1>5, <1>6 DEF OnTime

LEMMA OnTimeKept ==
  ASSUME Life, Life', OnTime, [Next]_vars
  PROVE  OnTime'
<1>1. CASE SessionStep \/ Close \/ (\E c \in Calls : Requests(c)) \/ UNCHANGED vars
  <2>1. UNCHANGED <<age, running, ahead>>
    BY <1>1 DEF SessionStep, RefuseTarget, RefuseHandshake, HandshakeEnds, BodyEnds, Close,
                Requests, callVars, vars
  <2>2. queue' = queue /\ Waiting' = Waiting
    BY <1>1, SemaphoreAlone
  <2>3. QED
    BY <2>1, <2>2 DEF OnTime, InTime, Allowed
<1>2. QED
  BY <1>1, MakesOnTime, EndsOnTime, AbandonsOnTime, TickOnTime, Steps DEF CallStep

\* The timeout inside the semaphore bounds the wait for the semaphore as well: a call
\* returns within one total_timeout_s for each batch of calls made before it, and one
\* for itself.
THEOREM WaitsAreBounded == Spec => []BoundedWait
<1>1. Init => OnTime
  <2> SUFFICES ASSUME Init PROVE OnTime
    OBVIOUS
  <2>1. Len(queue) = 0 /\ Waiting = {}
    BY DEF Init, Waiting
  <2>2. QED
    BY <2>1 DEF OnTime
<1>2. Life /\ Life' /\ OnTime /\ [Next]_vars => OnTime'
  BY OnTimeKept
<1>3. Life /\ OnTime => BoundedWait
  <2> USE DEF Life, Semaphore
  <2> SUFFICES ASSUME Life, OnTime, NEW c \in Calls, pc[c] \in {"queued", "waiting"}
               PROVE  age[c] <= (ahead[c] \div MaxConcurrentCalls + 1) * TotalTimeout
    BY DEF BoundedWait
  <2>1. /\ age[c] \in Nat /\ running[c] \in 0..TotalTimeout /\ Allowed(c) \in Nat
        /\ TotalTimeout \in Nat
    BY TimeTypes
  <2>2. (ahead[c] \div MaxConcurrentCalls + 1) * TotalTimeout = Allowed(c) + TotalTimeout
    <3>1. ahead[c] \in Nat /\ MaxConcurrentCalls \in Nat \ {0}
      BY SessionAssumption DEF TypeOK
    <3>2. ahead[c] \div MaxConcurrentCalls \in Nat
      BY <3>1
    <3>3. QED
      BY <3>2, TimeTypes DEF Allowed
  <2>3. CASE pc[c] = "queued"
    <3>1. PICK i \in 1..Len(queue) : queue[i] = c
      BY <2>3 DEF Line
    <3>2. age[c] + Row(i) * TotalTimeout <= Allowed(c)
      BY <3>1, QueuedInTime
    <3>3. i \in Nat \ {0}
      BY QueueFacts
    <3>4. Row(i) * TotalTimeout \in Nat
      BY <3>3, RowTypes, TimeTypes
    <3>5. QED
      BY <2>1, <2>2, <3>2, <3>4
  <2>4. CASE pc[c] = "waiting"
    <3>1. age[c] <= Allowed(c) + running[c]
      BY <2>4 DEF OnTime, Waiting
    <3>2. QED
      BY <2>1, <2>2, <3>1
  <2>5. QED
    BY <2>3, <2>4
<1>4. QED
  BY <1>1, <1>2, <1>3, LifeInvariant, PTL DEF Spec
=============================================================================
