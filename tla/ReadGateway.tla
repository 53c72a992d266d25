----------------------------- MODULE ReadGateway -----------------------------
(****************************************************************************)
(* open_gateway and RobinhoodGateway of gateway.py with establish_readiness *)
(* and preflight_read of manifest.py, while several tasks call invoke().    *)
(*                                                                          *)
(* A task runs from one await to the next in one step.  The awaits are the  *)
(* readiness lock, discover() and call_tool(); what discover() does inside  *)
(* is SurfaceDiscovery, what call_tool() does is ProviderSession.           *)
(****************************************************************************)
EXTENDS Naturals, FiniteSets

CONSTANTS
  Callers,      \* tasks that call invoke()
  NoCaller,     \* the owner of a free lock
  Requested,    \* what callers ask for, reviewed capability or not
  Manifest,     \* the reviewed entries: a function on some of Requested
  Arguments,    \* the values that arguments may be read as
  Copies,       \* what json_safe may make of a caller's mapping (below)
  MaxCancels    \* bound: cancelled calls

\* A copy is given by the values that reading it may yield.  It is one value, and
\* the copy is settled, unless the arguments hold a mapping of the caller's inside
\* a list: json_safe copies no list, and each reading asks that mapping again.
Settled(copy) == \E a \in Arguments : copy = {a}

ASSUME GatewayAssumption ==
  /\ NoCaller \notin Callers
  /\ DOMAIN Manifest \subseteq Requested
  /\ \A c \in DOMAIN Manifest :
       /\ Manifest[c].read_allowed \in BOOLEAN /\ Manifest[c].mutates \in BOOLEAN
       /\ Manifest[c].intact \in BOOLEAN
       /\ Manifest[c].validates \subseteq Arguments
       /\ Manifest[c].declared \subseteq Arguments
  /\ Copies \subseteq SUBSET Arguments
  /\ MaxCancels \in Nat

VARIABLES
  pinned,           \* whether manifest.digest is the configured expected digest
  allow_mutations,  \* the configuration's allow_mutations
  session,          \* "closed", or "open" once its handshake is done
  assessment,       \* __assessment: Unknown, Ready, or why not
  lock,             \* __readiness_lock
  pc,               \* where each caller is
  asked,            \* the capability each caller asked for, None before it does
  outcome,          \* what its last invoke() came to
  sent,             \* the last call made on the transport, if there was one
  cancels           \* cancelled calls so far

config == <<pinned, allow_mutations>>
vars == <<config, session, assessment, lock, pc, asked, outcome, sent, cancels>>

None     == "none"
Unknown  == "unknown"
Ready    == "ready"
\* A discovery that failed keeps its code; drift and a foreign pin have none.
Failures == {"auth_required", "timeout"}
NotReady == Failures \cup {"not_ready"}
Outcomes == {None, "data", "provider_error", "cancelled", "capability_denied",
             "input_invalid", "not_ready"} \cup Failures

Init ==
  /\ pinned \in BOOLEAN
  /\ allow_mutations \in BOOLEAN
  /\ session = "closed"
  /\ assessment = Unknown
  /\ lock = NoCaller
  /\ pc = [c \in Callers |-> "idle"]
  /\ asked = [c \in Callers |-> None]
  /\ outcome = [c \in Callers |-> None]
  /\ sent = {}
  /\ cancels = 0

-----------------------------------------------------------------------------
(* open_gateway *)

\* The session is opened, with its handshake and a token, before there is a gateway
\* to call, and so before the pin is looked at.  A handshake that fails raises:
\* there is no gateway, and whoever wants one opens again.
OpenGateway ==
  /\ session = "closed"
  /\ session' \in {"open", "closed"}
  /\ UNCHANGED <<config, assessment, lock, pc, asked, outcome, sent, cancels>>

-----------------------------------------------------------------------------
(* preflight_read and what follows it *)

Returns(c, result) ==
  /\ pc' = [pc EXCEPT ![c] = "idle"]
  /\ outcome' = [outcome EXCEPT ![c] = result]
  /\ UNCHANGED sent

Sends(c, copy, arguments) ==
  /\ pc' = [pc EXCEPT ![c] = "reading"]
  /\ sent' = {[capability |-> asked[c], copy |-> copy, arguments |-> arguments]}
  /\ UNCHANGED outcome

\* Not in the manifest, denied by the review, or a mutation behind a closed gate.
\* (Below, "intact" is that an entry's digests match its content.  Loading the
\* manifest checks it; preflight checks it again, for an entry made or changed
\* in memory.)
Denied(cap) ==
  ~ /\ cap \in DOMAIN Manifest
    /\ Manifest[cap].read_allowed
    /\ Manifest[cap].mutates => allow_mutations

\* validate_instance and _refuse_undeclared_arguments each read the copy.
Accepts(cap, validated, walked) ==
  validated \in Manifest[cap].validates /\ walked \in Manifest[cap].declared

\* Faulty: the caller's mapping is read again after validation, and that is sent.
PreflightRereads(c, assessed) ==
  LET cap == asked[c]
  IN  \/ assessed # Ready /\ Returns(c, assessed)
      \/ assessed = Ready /\ Denied(cap) /\ Returns(c, "capability_denied")
      \/ assessed = Ready /\ ~Denied(cap) /\ ~Manifest[cap].intact /\ Returns(c, "not_ready")
      \/ /\ assessed = Ready /\ ~Denied(cap) /\ Manifest[cap].intact
         /\ \E copy, again \in Copies : \E validated, walked \in copy, frozen \in again :
              IF Accepts(cap, validated, walked)
                THEN Sends(c, copy, frozen)
                ELSE Returns(c, "input_invalid")

\* Faulty: an unreviewed name is told apart from a denied one.
PreflightDiscloses(c, assessed) ==
  LET cap == asked[c]
  IN  \/ assessed # Ready /\ Returns(c, assessed)
      \/ assessed = Ready /\ cap \notin DOMAIN Manifest /\ Returns(c, "input_invalid")
      \/ /\ assessed = Ready /\ cap \in DOMAIN Manifest
         /\ Denied(cap) /\ Returns(c, "capability_denied")
      \/ assessed = Ready /\ ~Denied(cap) /\ ~Manifest[cap].intact /\ Returns(c, "not_ready")
      \/ /\ assessed = Ready /\ ~Denied(cap) /\ Manifest[cap].intact
         /\ \E copy \in Copies : \E validated, walked, frozen \in copy :
              IF Accepts(cap, validated, walked)
                THEN Sends(c, copy, frozen)
                ELSE Returns(c, "input_invalid")

\* The checks in the order of the code.  The caller's mapping is copied once, and the
\* copy is read three times: to validate it, to look for names the schema does not
\* declare, and to freeze what is sent.
Preflight(c, assessed) ==
  LET cap == asked[c]
  IN  \/ assessed # Ready /\ Returns(c, assessed)
      \/ assessed = Ready /\ Denied(cap) /\ Returns(c, "capability_denied")
      \/ assessed = Ready /\ ~Denied(cap) /\ ~Manifest[cap].intact /\ Returns(c, "not_ready")
      \/ /\ assessed = Ready /\ ~Denied(cap) /\ Manifest[cap].intact
         /\ \E copy \in Copies : \E validated, walked, frozen \in copy :
              IF Accepts(cap, validated, walked)
                THEN Sends(c, copy, frozen)
                ELSE Returns(c, "input_invalid")

-----------------------------------------------------------------------------
(* invoke() up to the first await, and after it *)

\* Faulty: the digest is compared after discovery.
EstablishUnpinned(c) ==
  /\ lock' = c
  /\ pc' = [pc EXCEPT ![c] = "discover"]
  /\ UNCHANGED <<assessment, outcome, sent>>

\* establish_readiness, run by the task that holds the lock: without the pin it
\* decides at once, with it it awaits discover().
Establish(c) ==
  IF pinned
    THEN /\ lock' = c
         /\ pc' = [pc EXCEPT ![c] = "discover"]
         /\ UNCHANGED <<assessment, outcome, sent>>
    ELSE /\ assessment' = "not_ready"
         /\ lock' = NoCaller
         /\ Preflight(c, "not_ready")

Invoke(c) ==
  /\ session = "open" /\ pc[c] = "idle"
  /\ \E cap \in Requested : asked' = [asked EXCEPT ![c] = cap]
  /\ pc' = [pc EXCEPT ![c] = "invoked"]
  /\ UNCHANGED <<config, session, assessment, lock, outcome, sent, cancels>>

\* Known readiness needs no lock; unknown readiness takes it or waits for it.
CheckReadiness(c) ==
  /\ pc[c] = "invoked"
  /\ \/ assessment # Unknown /\ Preflight(c, assessment) /\ UNCHANGED <<assessment, lock>>
     \/ assessment = Unknown /\ lock = NoCaller /\ Establish(c)
     \/ /\ assessment = Unknown /\ lock # NoCaller
        /\ pc' = [pc EXCEPT ![c] = "waiting"]
        /\ UNCHANGED <<assessment, lock, outcome, sent>>
  /\ UNCHANGED <<config, session, asked, cancels>>

\* Faulty: readiness is not checked again once the lock is held.
TakeLockUnchecked(c) ==
  /\ pc[c] = "waiting" /\ lock = NoCaller
  /\ Establish(c)
  /\ UNCHANGED <<config, session, asked, cancels>>

\* The lock is free: readiness is checked again before it is established.
TakeLock(c) ==
  /\ pc[c] = "waiting" /\ lock = NoCaller
  /\ IF assessment = Unknown
       THEN Establish(c)
       ELSE Preflight(c, assessment) /\ UNCHANGED <<assessment, lock>>
  /\ UNCHANGED <<config, session, asked, cancels>>

\* discover() returns a surface, reviewed or drifted, or raises: the assessment
\* is kept, the lock released, and the task goes on to its own preflight.
Discovered(c) ==
  /\ pc[c] = "discover"
  /\ \E result \in NotReady \cup {Ready} :
       /\ assessment' = result
       /\ lock' = NoCaller
       /\ Preflight(c, result)
  /\ UNCHANGED <<config, session, asked, cancels>>

\* call_tool() answers or raises; "provider_error" stands for all it may raise.
Answered(c) ==
  /\ pc[c] = "reading"
  /\ \E result \in {"data", "provider_error"} : Returns(c, result)
  /\ UNCHANGED <<config, session, assessment, lock, asked, cancels>>

\* Faulty: a cancelled discovery keeps the lock.
CancelKeepsLock(c) ==
  /\ pc[c] \in {"waiting", "discover", "reading"}
  /\ cancels < MaxCancels
  /\ cancels' = cancels + 1
  /\ Returns(c, "cancelled")
  /\ UNCHANGED <<config, session, assessment, lock, asked>>

\* The caller cancels at an await.  A discovery under way is abandoned and
\* leaves nothing decided.
Cancel(c) ==
  /\ pc[c] \in {"waiting", "discover", "reading"}
  /\ cancels < MaxCancels
  /\ cancels' = cancels + 1
  /\ lock' = IF lock = c THEN NoCaller ELSE lock
  /\ Returns(c, "cancelled")
  /\ UNCHANGED <<config, session, assessment, asked>>

Step(c) == CheckReadiness(c) \/ TakeLock(c) \/ Discovered(c) \/ Answered(c)

Next == OpenGateway \/ \E c \in Callers : Invoke(c) \/ Step(c) \/ Cancel(c)

Spec == Init /\ [][Next]_vars

\* discover() and call_tool() run under timeouts; asyncio.Lock is first come
\* first served.
Fairness == \A c \in Callers : WF_vars(Step(c)) /\ SF_vars(TakeLock(c))

FairSpec == Spec /\ Fairness

-----------------------------------------------------------------------------
(* Properties *)

TypeOK ==
  /\ pinned \in BOOLEAN /\ allow_mutations \in BOOLEAN
  /\ session \in {"closed", "open"}
  /\ assessment \in NotReady \cup {Ready, Unknown}
  /\ lock \in Callers \cup {NoCaller}
  /\ pc \in [Callers -> {"idle", "invoked", "waiting", "discover", "reading"}]
  /\ asked \in [Callers -> Requested \cup {None}]
  /\ outcome \in [Callers -> Outcomes]
  /\ sent \subseteq [capability : Requested, copy : Copies, arguments : Arguments]
  /\ cancels \in Nat

\* N concurrent reads mean one surface fetch, and a decision is never taken
\* again: whoever discovers holds the lock and nothing is decided yet
\* (RobinhoodGateway.readiness).
OneDiscovery ==
  \A c \in Callers : pc[c] = "discover" <=> lock = c /\ assessment = Unknown

\* In a deployment that pins another manifest the session is opened, and that is
\* all: in it the provider is asked neither for its tools nor to call one
\* (establish_readiness).  That no session is opened at all, as the docstring of
\* establish_readiness has it, does not hold of open_gateway.
NoRequestWithoutThePin ==
  ~pinned => sent = {} /\ \A c \in Callers : pc[c] \notin {"discover", "reading"}

\* Asking for what the review denies, for what the mutation gate closes and for
\* what is not in the manifest at all have one and the same outcome.
DenialDisclosesNothing ==
  \A c, d \in Callers :
    (/\ pc[c] = "idle" /\ outcome[c] \notin {None, "cancelled"} /\ Denied(asked[c])
     /\ pc[d] = "idle" /\ outcome[d] \notin {None, "cancelled"} /\ Denied(asked[d]))
    => outcome[c] = outcome[d]

\* The gateway keeps the promise of ReadGate: what reaches call_tool is what the
\* review permits, after readiness was established and never against it.  What is
\* sent is a reading of a copy of which some reading validated and some reading
\* used declared names only: for a settled copy, the value that was checked.
Allowed ==
  {cap \in DOMAIN Manifest :
     /\ Manifest[cap].read_allowed /\ Manifest[cap].intact
     /\ Manifest[cap].mutates => allow_mutations}

Permitted ==
  {call \in [capability : Allowed, copy : Copies, arguments : Arguments] :
     /\ call.arguments \in call.copy
     /\ call.copy \cap Manifest[call.capability].validates # {}
     /\ call.copy \cap Manifest[call.capability].declared # {}}

GateOf(a) == IF a = Unknown THEN "undecided" ELSE IF a = Ready THEN "open" ELSE "shut"

Gate == INSTANCE ReadGate WITH gate <- GateOf(assessment), permitted <- Permitted
KeepsTheGate == Gate!Spec

\* Every invoke() returns.
InvokesReturn == \A c \in Callers : pc[c] # "idle" ~> pc[c] = "idle"
=============================================================================
