--------------------------- MODULE ProviderSession ---------------------------
(****************************************************************************)
(* The private MCP session of transport.py while several tasks call tools:  *)
(* the semaphore that bounds concurrent calls, the timeout inside it, and   *)
(* the one _Fault slot in which the guarded HTTP transport records what it  *)
(* refused, so that the waiting call can report it (_stable_error).         *)
(*                                                                          *)
(* The request of a call runs in a task of the SDK.  It can outlive the     *)
(* call, which may time out or be cancelled; what the SDK then does is      *)
(* outside this repository and left open here.                              *)
(****************************************************************************)
EXTENDS Naturals, SequencesExt

CONSTANTS
  Calls,               \* the call_tool calls made on the session
  NoCall,              \* no call: the owner of an empty slot
  MaxConcurrentCalls,  \* limits.max_concurrent_calls
  TotalTimeout         \* limits.total_timeout_s, in ticks

ASSUME SessionAssumption ==
  /\ NoCall \notin Calls /\ "handshake" \notin Calls
  /\ MaxConcurrentCalls \in Nat \ {0}
  /\ TotalTimeout \in Nat \ {0}

VARIABLES
  pc,         \* where each call is
  queue,      \* the semaphore: calls waiting for it, first come first served
  value,      \* the semaphore: permits that are free
  wire,       \* the HTTP request of each call
  fault,      \* the _Fault slot
  outcome,    \* what each call returned, and whose fault it is
  age,        \* ticks since the call was made
  running,    \* ticks since it entered fail_after
  own,        \* history: the refusal a waiting call's own request met, if any
  recorded,   \* history: whether that refusal was given to the slot
  ahead,      \* history: calls queued or running when a waiting call was made
  disturbed,  \* history: another request, or an old fault, was there too
  stage,      \* of the session itself: connecting, failing, open, closing, closed
  opener,     \* what _open_provider_session gives its caller
  body,       \* history: what the handshake or the caller's body came to
  teardown    \* history: how closing went

vars == <<pc, queue, value, wire, fault, outcome, age, running,
          own, recorded, ahead, disturbed, stage, opener, body, teardown>>
session == <<stage, opener, body, teardown>>

None    == "none"
NoFault == [code |-> None, of |-> NoCall]
Handshake == "handshake"   \* the requests of initialize()
\* One code stands for those the session treats alike: an oversized request is
\* refused like a foreign origin, a redirect like an oversized response.
Codes   == {"AUTH_REQUIRED", "CONFIGURATION_ERROR", "PROTOCOL_ERROR",
            "PROVIDER_ERROR", "RESPONSE_TOO_LARGE", "TIMEOUT", "INPUT_INVALID"}
Reports == Codes \cup {"data", "cancelled"}

Waiting == {c \in Calls : pc[c] = "waiting"}
OnWire  == {c \in Calls : wire[c] \in {"guard", "sent"}}

Init ==
  /\ pc = [c \in Calls |-> "idle"]
  /\ queue = <<>> /\ value = MaxConcurrentCalls
  /\ wire = [c \in Calls |-> None]
  /\ fault = NoFault
  /\ outcome = [c \in Calls |-> NoFault]
  /\ age = [c \in Calls |-> 0] /\ running = [c \in Calls |-> 0]
  /\ own = [c \in Calls |-> None] /\ recorded = [c \in Calls |-> FALSE]
  /\ ahead = [c \in Calls |-> 0] /\ disturbed = [c \in Calls |-> FALSE]
  /\ stage = "connecting" /\ opener = None /\ teardown = None
  /\ body = [raised |-> None, due |-> None]

-----------------------------------------------------------------------------
(* The semaphore *)

\* Call c goes through the semaphore and its request is handed to the SDK.
Enters(c) ==
  /\ wire' = [wire EXCEPT ![c] = "guard"]
  /\ disturbed' = [d \in Calls |->
       IF d = c THEN fault # NoFault \/ Waiting \ {c} # {} \/ OnWire # {}
       ELSE disturbed[d] \/ d \in Waiting]

\* call_tool: the arguments are bounded before the semaphore is asked for.
Call(c) ==
  /\ pc[c] = "idle" /\ stage = "open"
  /\ \/ /\ pc' = [pc EXCEPT ![c] = "done"]
        /\ outcome' = [outcome EXCEPT ![c] = [code |-> "INPUT_INVALID", of |-> NoCall]]
        /\ UNCHANGED <<queue, value, wire, ahead, disturbed>>
     \/ /\ value > 0
        /\ value' = value - 1
        /\ pc' = [pc EXCEPT ![c] = "waiting"]
        /\ Enters(c)
        /\ UNCHANGED <<queue, outcome, ahead>>
     \/ /\ value = 0
        /\ ahead' = [ahead EXCEPT ![c] = Len(queue) + Cardinality(Waiting)]
        /\ queue' = Append(queue, c)
        /\ pc' = [pc EXCEPT ![c] = "queued"]
        /\ UNCHANGED <<value, wire, outcome, disturbed>>
  /\ UNCHANGED <<fault, age, running, own, recorded, session>>

\* The exit of the semaphore hands the permit to the first in the queue.
Leaves(c) ==
  IF queue = <<>>
    THEN /\ value' = value + 1
         /\ pc' = [pc EXCEPT ![c] = "done"]
         /\ UNCHANGED <<queue, disturbed>>
    ELSE /\ pc' = [pc EXCEPT ![c] = "done", ![Head(queue)] = "waiting"]
         /\ queue' = Tail(queue)
         /\ disturbed' = [d \in Calls |->
              IF d = Head(queue)
                THEN fault' # NoFault \/ Waiting \ {c} # {} \/ OnWire \ {c} # {} \/ wire'[c] # None
                ELSE disturbed[d] \/ d \in Waiting]
         /\ UNCHANGED value

\* The request of the call that leaves: it is over, or it goes on without it.
WireAfter(c, w) ==
  wire' = [d \in Calls |->
             IF d = c THEN w
             ELSE IF queue # <<>> /\ d = Head(queue) THEN "guard" ELSE wire[d]]

\* The clocks and the history of a call that has returned no longer matter.
Settled(c) ==
  /\ age' = [age EXCEPT ![c] = 0]
  /\ running' = [running EXCEPT ![c] = 0]
  /\ ahead' = [ahead EXCEPT ![c] = 0]
  /\ own' = [own EXCEPT ![c] = None]
  /\ recorded' = [recorded EXCEPT ![c] = FALSE]

-----------------------------------------------------------------------------
(* What a waiting call reports *)

\* Faulty: cancellation is looked at before the slot.
StableErrorCancelFirst(c, report) ==
  IF fault = NoFault \/ report = "cancelled"
    THEN /\ outcome' = [outcome EXCEPT ![c] = [code |-> report, of |-> NoCall]]
         /\ UNCHANGED fault
    ELSE /\ outcome' = [outcome EXCEPT ![c] = fault]
         /\ fault' = NoFault

\* Faulty: the slot is read and not emptied.
StableErrorKeeps(c, report) ==
  /\ outcome' = [outcome EXCEPT ![c] =
       IF fault = NoFault THEN [code |-> report, of |-> NoCall] ELSE fault]
  /\ UNCHANGED fault

\* A recorded fault is taken before a cancellation or a translation is considered.
StableError(c, report) ==
  IF fault = NoFault
    THEN /\ outcome' = [outcome EXCEPT ![c] = [code |-> report, of |-> NoCall]]
         /\ UNCHANGED fault
    ELSE /\ outcome' = [outcome EXCEPT ![c] = fault]
         /\ fault' = NoFault

\* Faulty: an operation that fails does not give its permit back.
FailsHoldingPermit(c, report, w) ==
  /\ StableError(c, report)
  /\ wire' = [wire EXCEPT ![c] = w]
  /\ pc' = [pc EXCEPT ![c] = "done"]
  /\ Settled(c)
  /\ UNCHANGED <<queue, value, disturbed>>

\* What the SDK raises is no GatewayError (_Fault: a refusal "does not arrive at
\* the caller intact"), so that the clauses which pass one on have nothing to do.
Fails(c, report, w) ==
  /\ StableError(c, report)
  /\ WireAfter(c, w)
  /\ Leaves(c)
  /\ Settled(c)

\* The answer arrives and is mapped; a call that succeeds leaves the slot alone.
Answered(c) ==
  /\ pc[c] = "waiting" /\ wire[c] = "answered"
  /\ \E code \in {"data", "PROTOCOL_ERROR"} :
       outcome' = [outcome EXCEPT ![c] = [code |-> code, of |-> NoCall]]
  /\ UNCHANGED <<fault, session>>
  /\ WireAfter(c, None)
  /\ Leaves(c)
  /\ Settled(c)

\* The SDK answers the call of a refused request with an error, or cancels it
\* and the calls beside it.
Failed(c) ==
  /\ pc[c] = "waiting"
  /\ \/ wire[c] = "status" /\ Fails(c, "PROVIDER_ERROR", None)
     \/ wire[c] = "raised" /\ Fails(c, "PROTOCOL_ERROR", None)
     \/ wire[c] = "raised" /\ Fails(c, "cancelled", None)
     \/ /\ \E d \in Calls \ {c} : wire[d] = "raised"
        /\ \E w \in {None, wire[c]} : Fails(c, "cancelled", w)
  /\ UNCHANGED session

\* read_timeout_s of the request, or total_timeout_s around it.
Timeout(c) ==
  /\ pc[c] = "waiting" /\ running[c] > 0
  /\ \E w \in {None, wire[c]} : Fails(c, "TIMEOUT", w)
  /\ UNCHANGED session

\* The caller cancels.  A call still in the queue has nothing to report.
Cancel(c) ==
  /\ \/ /\ pc[c] = "waiting"
        /\ \E w \in {None, wire[c]} : Fails(c, "cancelled", w)
     \/ /\ pc[c] = "queued"
        /\ \E i \in DOMAIN queue : queue[i] = c /\ queue' = RemoveAt(queue, i)
        /\ pc' = [pc EXCEPT ![c] = "done"]
        /\ outcome' = [outcome EXCEPT ![c] = [code |-> "cancelled", of |-> NoCall]]
        /\ Settled(c)
        /\ UNCHANGED <<value, wire, fault, disturbed>>
  /\ UNCHANGED session

-----------------------------------------------------------------------------
(* The guarded transport *)

\* The first fault wins.
Records(c, code) ==
  /\ fault' = IF fault = NoFault THEN [code |-> code, of |-> c] ELSE fault
  /\ own' = [own EXCEPT ![c] = IF pc[c] = "waiting" THEN code ELSE @]
  /\ recorded' = [recorded EXCEPT ![c] = pc[c] = "waiting"]

\* Egress, request size and the token itself are checked; access_token() can
\* raise too, and that error is not recorded.
Guard(c) ==
  /\ wire[c] = "guard"
  /\ \/ /\ \E code \in {"CONFIGURATION_ERROR", "AUTH_REQUIRED"} : Records(c, code)
        /\ wire' = [wire EXCEPT ![c] = "raised"]
     \/ /\ own' = [own EXCEPT ![c] = IF pc[c] = "waiting" THEN "AUTH_REQUIRED" ELSE @]
        /\ wire' = [wire EXCEPT ![c] = "raised"]
        /\ UNCHANGED <<fault, recorded>>
     \/ /\ wire' = [wire EXCEPT ![c] = "sent"]
        /\ UNCHANGED <<fault, own, recorded>>
  /\ UNCHANGED <<pc, queue, value, outcome, age, running, ahead, disturbed, session>>

\* The response: a redirect or an oversized body is refused, an error status
\* recorded and handed on, and the connection itself can fail.
Respond(c) ==
  /\ wire[c] = "sent"
  /\ \/ Records(c, "AUTH_REQUIRED") /\ wire' = [wire EXCEPT ![c] = "status"]
     \/ Records(c, "PROVIDER_ERROR") /\ wire' = [wire EXCEPT ![c] = "status"]
     \/ Records(c, "RESPONSE_TOO_LARGE") /\ wire' = [wire EXCEPT ![c] = "raised"]
     \/ /\ wire' \in {[wire EXCEPT ![c] = w] : w \in {"answered", "raised"}}
        /\ UNCHANGED <<fault, own, recorded>>
  /\ UNCHANGED <<pc, queue, value, outcome, age, running, ahead, disturbed, session>>

-----------------------------------------------------------------------------
(* The session itself: _open_provider_session and _open_over_connector *)

callVars == <<pc, queue, value, wire, outcome, age, running, own, recorded, ahead, disturbed>>
Raised(report) == [raised |-> report, due |-> IF fault = NoFault THEN report ELSE fault.code]

\* No target, a foreign one, or a token for a local subprocess.
RefuseTarget ==
  /\ stage = "connecting" /\ fault = NoFault
  /\ stage' = "closed" /\ teardown' = "quiet"
  /\ body' = Raised("CONFIGURATION_ERROR") /\ opener' = "CONFIGURATION_ERROR"
  /\ UNCHANGED <<callVars, fault>>

\* The guard refuses a request of the handshake.
RefuseHandshake ==
  /\ stage = "connecting" /\ fault = NoFault
  /\ \E code \in {"AUTH_REQUIRED", "CONFIGURATION_ERROR", "PROVIDER_ERROR", "RESPONSE_TOO_LARGE"} :
       fault' = [code |-> code, of |-> Handshake]
  /\ UNCHANGED <<callVars, session>>

\* What the SDK makes of a handshake is left open, a cancellation included.  As
\* at Fails, no GatewayError comes through it for the opener to pass on.
HandshakeEnds ==
  /\ stage = "connecting"
  /\ \/ stage' = "open" /\ UNCHANGED body
     \/ /\ stage' = "failing"
        /\ \E report \in {"TIMEOUT", "PROTOCOL_ERROR", "cancelled"} : body' = Raised(report)
  /\ UNCHANGED <<callVars, fault, opener, teardown>>

\* The body of the `async with` is left when none of its calls is under way.
BodyEnds ==
  /\ stage = "open" /\ queue = <<>> /\ Waiting = {}
  /\ stage' = "closing"
  /\ \E report \in {"value", "INPUT_INVALID"} : body' = [raised |-> report, due |-> report]
  /\ UNCHANGED <<callVars, fault, opener, teardown>>

\* Faulty: an exception of the teardown is the outcome.
CloseLoudly(t, report) == IF t = "raised" THEN "PROTOCOL_ERROR" ELSE report

\* A GatewayError or a cancellation passes, everything else is dropped.
CloseQuietly(t, report) ==
  CASE t = "cancelled" -> "cancelled"
    [] t = "refused" -> "AUTH_REQUIRED"
    [] OTHER -> report

\* Closing sends a last request, which may be refused as well: "recorded".  The
\* slot is looked at after that.
Close ==
  /\ stage \in {"failing", "closing"}
  /\ \E t \in {"quiet", "raised", "recorded", "refused", "cancelled"} :
       LET slot == IF t = "recorded" /\ fault = NoFault THEN "PROVIDER_ERROR" ELSE fault.code
           report == IF stage = "failing" /\ slot # None THEN slot ELSE body.raised
       IN  teardown' = t /\ opener' = CloseQuietly(t, report)
  /\ stage' = "closed" /\ fault' = NoFault
  /\ wire' = [c \in Calls |-> None]
  /\ UNCHANGED <<body, pc, queue, value, outcome, age, running, own, recorded, ahead, disturbed>>

-----------------------------------------------------------------------------
\* Time passes; a timer that is due fires first.
Tick ==
  /\ \E c \in Calls : pc[c] \in {"queued", "waiting"}
  /\ \A c \in Waiting : running[c] < TotalTimeout
  /\ age' = [c \in Calls |-> IF pc[c] \in {"queued", "waiting"} THEN age[c] + 1 ELSE age[c]]
  /\ running' = [c \in Calls |-> IF pc[c] = "waiting" THEN running[c] + 1 ELSE running[c]]
  /\ UNCHANGED <<pc, queue, value, wire, fault, outcome, own, recorded, ahead,
                 disturbed, session>>

Next ==
  \/ Tick
  \/ RefuseTarget \/ RefuseHandshake \/ HandshakeEnds \/ BodyEnds \/ Close
  \/ \E c \in Calls :
       \/ Call(c) \/ Answered(c) \/ Failed(c) \/ Timeout(c) \/ Cancel(c)
       \/ Guard(c) \/ Respond(c)

Spec == Init /\ [][Next]_vars

-----------------------------------------------------------------------------
(* Properties *)

TypeOK ==
  /\ pc \in [Calls -> {"idle", "queued", "waiting", "done"}]
  /\ queue \in Seq(Calls) /\ value \in 0..MaxConcurrentCalls
  /\ wire \in [Calls -> {None, "guard", "sent", "status", "raised", "answered"}]
  /\ fault = NoFault \/ fault \in [code : Codes, of : Calls \cup {Handshake}]
  /\ outcome \in [Calls -> [code : Reports \cup {None}, of : Calls \cup {NoCall, Handshake}]]
  /\ age \in [Calls -> Nat] /\ running \in [Calls -> 0..TotalTimeout]
  /\ own \in [Calls -> Codes \cup {None}] /\ recorded \in [Calls -> BOOLEAN]
  /\ ahead \in [Calls -> Nat] /\ disturbed \in [Calls -> BOOLEAN]
  /\ stage \in {"connecting", "failing", "open", "closing", "closed"}
  /\ opener \in Reports \cup {None, "value"} /\ body \in [raised : Reports \cup {None, "value"}, due : Reports \cup {None, "value"}]
  /\ teardown \in {None, "quiet", "raised", "recorded", "refused", "cancelled"}

\* The state is well typed, and a timeout, an error or a cancellation, queued or
\* not, gives back exactly the permit it held, and nobody queues while one is
\* free (call_tool's semaphore).
PermitsConserved ==
  /\ TypeOK
  /\ value + Cardinality(Waiting) = MaxConcurrentCalls
  /\ queue # <<>> => value = 0
  /\ {queue[i] : i \in DOMAIN queue} = {c \in Calls : pc[c] = "queued"}

\* A call returns within one total_timeout_s per batch of calls made before it:
\* the timeout inside the semaphore bounds the wait for the semaphore as well.
BoundedWait ==
  \A c \in Calls : pc[c] \in {"queued", "waiting"} =>
    age[c] <= (ahead[c] \div MaxConcurrentCalls + 1) * TotalTimeout

\* No two calls report the same refusal (_Fault.take).
FaultReportedOnce ==
  \A c, d \in Calls : c # d /\ outcome[c].of # NoCall => outcome[c].of # outcome[d].of

\* A call that shared the session with no other request, and found the slot
\* empty, reports the refusal the guard recorded for it, even though the SDK
\* turned it into a cancellation (_stable_error).
Returns(c) == pc[c] = "waiting" /\ pc'[c] = "done"

LoneCallReportsItsRefusal ==
  [][\A c \in Calls : Returns(c) /\ recorded[c] /\ ~disturbed[c] =>
       outcome'[c].code = own[c]]_vars

\* Teardown does not replace the outcome (_close_quietly): however the session
\* closed, its opener reports the refusal its handshake met even where the SDK
\* made a cancellation of it, or what the body came to; only a refusal, or a
\* cancellation, of the teardown itself may be reported in its place.
OutcomeSurvivesTeardown ==
  stage = "closed" =>
    /\ teardown \in {"quiet", "raised"} => opener = body.due
    /\ teardown = "recorded" /\ body.due = "value" => opener = "value"
=============================================================================
