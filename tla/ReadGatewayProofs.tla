------------------------- MODULE ReadGatewayProofs -------------------------
(* Theorems about ReadGateway, for every manifest and every set of callers. *)
EXTENDS ReadGateway, TLAPS

\* What a caller that has come through preflight did, given what was assessed.
Denies(c) == Denied(asked[c]) /\ Returns(c, "capability_denied")
Refuses(c) == ~Denied(asked[c]) /\ (Returns(c, "not_ready") \/ Returns(c, "input_invalid"))
Passes(c) ==
  /\ ~Denied(asked[c])
  /\ \E call \in Permitted :
       /\ pc' = [pc EXCEPT ![c] = "reading"]
       /\ sent' = {call}
       /\ UNCHANGED outcome

Conclusion(c, assessed) ==
  \/ assessed # Ready /\ Returns(c, assessed)
  \/ assessed = Ready /\ (Denies(c) \/ Refuses(c) \/ Passes(c))

\* Preflight comes to one of four ends, and what it sends is permitted.
LEMMA PreflightConcludes ==
  ASSUME NEW c \in Callers, NEW assessed, Preflight(c, assessed)
  PROVE  Conclusion(c, assessed)
<1> DEFINE cap == asked[c]
<1>1. CASE assessed # Ready /\ Returns(c, assessed)
  BY <1>1 DEF Conclusion
<1>2. CASE assessed = Ready /\ Denied(cap) /\ Returns(c, "capability_denied")
  BY <1>2 DEF Conclusion, Denies
<1>3. CASE assessed = Ready /\ ~Denied(cap) /\ ~Manifest[cap].intact /\ Returns(c, "not_ready")
  BY <1>3 DEF Conclusion, Refuses
<1>4. ASSUME assessed = Ready, ~Denied(cap), Manifest[cap].intact,
             NEW copy \in Copies, NEW validated \in copy, NEW walked \in copy, NEW frozen \in copy,
             IF Accepts(cap, validated, walked)
               THEN Sends(c, copy, frozen) ELSE Returns(c, "input_invalid")
      PROVE  Conclusion(c, assessed)
  <2>1. CASE Accepts(cap, validated, walked)
    <3> DEFINE call == [capability |-> cap, copy |-> copy, arguments |-> frozen]
    <3>1. call \in Permitted
      <4>1. cap \in Allowed
        BY <1>4 DEF Allowed, Denied
      <4>2. frozen \in Arguments
        BY GatewayAssumption
      <4>3. /\ copy \cap Manifest[cap].validates # {}
            /\ copy \cap Manifest[cap].declared # {}
        BY <2>1 DEF Accepts
      <4>4. QED
        BY <4>1, <4>2, <4>3 DEF Permitted
    <3>2. Sends(c, copy, frozen)
      BY <1>4, <2>1
    <3>3. Passes(c)
      BY <1>4, <3>1, <3>2 DEF Passes, Sends
    <3>4. QED
      BY <1>4, <3>3 DEF Conclusion
  <2>2. CASE ~Accepts(cap, validated, walked)
    BY <1>4, <2>2 DEF Conclusion, Refuses
  <2>3. QED
    BY <2>1, <2>2
<1>5. QED
  BY <1>1, <1>2, <1>3, <1>4 DEF Preflight

-----------------------------------------------------------------------------
(* The inductive invariant *)

\* What only a pinned gateway reaches.
PinHolds == NoRequestWithoutThePin /\ (~pinned => assessment # Ready)

\* A denied caller was answered by the assessment, or by the review.
DenialsAgree ==
  \A c \in Callers :
    /\ pc[c] = "reading" => assessment = Ready /\ ~Denied(asked[c])
    /\ assessment = Unknown => outcome[c] \in {None, "cancelled"}
    /\ pc[c] = "idle" /\ outcome[c] \notin {None, "cancelled"} /\ Denied(asked[c])
       => outcome[c] = IF assessment = Ready THEN "capability_denied" ELSE assessment

GateInv == TypeOK /\ OneDiscovery /\ PinHolds /\ DenialsAgree

Decided == NotReady \cup {Ready}

\* The steps of a caller, by what they do to the assessment and the lock: the
\* assessment is left alone, or decided by the caller that discovered, or by
\* the one that found the manifest not to be the pinned one.
Proceeds(c) ==
  /\ assessment # Unknown /\ Conclusion(c, assessment)
  /\ UNCHANGED <<config, session, assessment, lock, asked, cancels>>
StartsDiscovery(c) ==
  /\ assessment = Unknown /\ lock = NoCaller /\ pinned
  /\ lock' = c /\ pc' = [pc EXCEPT ![c] = "discover"]
  /\ UNCHANGED <<config, session, assessment, outcome, sent, asked, cancels>>
FindsNoPin(c) ==
  /\ assessment = Unknown /\ lock = NoCaller /\ ~pinned
  /\ assessment' = "not_ready" /\ lock' = NoCaller /\ Conclusion(c, "not_ready")
  /\ UNCHANGED <<config, session, asked, cancels>>
Decides(c) ==
  /\ pc[c] = "discover"
  /\ \E result \in Decided :
       assessment' = result /\ lock' = NoCaller /\ Conclusion(c, result)
  /\ UNCHANGED <<config, session, asked, cancels>>

LEMMA EstablishShape ==
  ASSUME NEW c \in Callers, Establish(c), assessment = Unknown, lock = NoCaller,
         UNCHANGED <<config, session, asked, cancels>>
  PROVE  StartsDiscovery(c) \/ FindsNoPin(c)
<1>1. CASE pinned
  BY <1>1 DEF Establish, StartsDiscovery
<1>2. CASE ~pinned
  BY <1>2, PreflightConcludes DEF Establish, FindsNoPin
<1>3. QED
  BY <1>1, <1>2

LEMMA CheckReadinessShape ==
  ASSUME NEW c \in Callers, CheckReadiness(c)
  PROVE  \/ Proceeds(c) \/ StartsDiscovery(c) \/ FindsNoPin(c)
         \/ /\ pc' = [pc EXCEPT ![c] = "waiting"]
            /\ UNCHANGED <<config, session, assessment, lock, outcome, sent, asked, cancels>>
<1>1. CASE assessment # Unknown
  BY <1>1, PreflightConcludes DEF CheckReadiness, Proceeds
<1>2. CASE assessment = Unknown /\ lock = NoCaller
  <2>1. Establish(c) /\ UNCHANGED <<config, session, asked, cancels>>
    BY <1>2 DEF CheckReadiness
  <2>2. QED
    BY <1>2, <2>1, EstablishShape
<1>3. CASE assessment = Unknown /\ lock # NoCaller
  BY <1>3 DEF CheckReadiness
<1>4. QED
  BY <1>1, <1>2, <1>3

LEMMA TakeLockShape ==
  ASSUME NEW c \in Callers, TakeLock(c)
  PROVE  Proceeds(c) \/ StartsDiscovery(c) \/ FindsNoPin(c)
<1>1. CASE assessment # Unknown
  BY <1>1, PreflightConcludes DEF TakeLock, Proceeds
<1>2. CASE assessment = Unknown
  <2>1. Establish(c) /\ lock = NoCaller /\ UNCHANGED <<config, session, asked, cancels>>
    BY <1>2 DEF TakeLock
  <2>2. QED
    BY <1>2, <2>1, EstablishShape
<1>3. QED
  BY <1>1, <1>2

LEMMA DiscoveredShape ==
  ASSUME NEW c \in Callers, Discovered(c)
  PROVE  Decides(c)
BY PreflightConcludes DEF Discovered, Decides, Decided

\* A conclusion moves the caller's pc and outcome, and only permitted calls join
\* those that were sent.
LEMMA ConclusionEffect ==
  ASSUME TypeOK, NEW c \in Callers, NEW assessed \in Decided, Conclusion(c, assessed)
  PROVE  /\ pc' \in [Callers -> {"idle", "invoked", "waiting", "discover", "reading"}]
         /\ outcome' \in [Callers -> Outcomes]
         /\ sent' \subseteq [capability : Requested, copy : Copies, arguments : Arguments]
         /\ pc'[c] \in {"idle", "reading"}
         /\ pc'[c] = "idle" => sent' = sent /\ outcome'[c] \in Outcomes \ {None, "cancelled"}
         /\ pc'[c] = "reading" => assessed = Ready /\ ~Denied(asked[c])
         /\ Denied(asked[c]) =>
              /\ pc'[c] = "idle"
              /\ outcome'[c] = IF assessed = Ready THEN "capability_denied" ELSE assessed
         /\ \A d \in Callers \ {c} : pc'[d] = pc[d] /\ outcome'[d] = outcome[d]
<1> USE DEF TypeOK, Decided, NotReady, Failures, Ready, Unknown, None, Outcomes
<1>1. CASE assessed # Ready /\ Returns(c, assessed)
  BY <1>1 DEF Returns
<1>2. CASE assessed = Ready /\ Denies(c)
  BY <1>2 DEF Denies, Returns
<1>3. CASE assessed = Ready /\ Refuses(c)
  BY <1>3 DEF Refuses, Returns
<1>4. CASE assessed = Ready /\ Passes(c)
  <2>1. PICK call \in Permitted : /\ pc' = [pc EXCEPT ![c] = "reading"]
                                 /\ sent' = {call}
                                 /\ UNCHANGED outcome
    BY <1>4 DEF Passes
  <2>2. call \in [capability : Requested, copy : Copies, arguments : Arguments]
    BY GatewayAssumption DEF Permitted, Allowed
  <2>3. QED
    BY <1>4, <2>1, <2>2 DEF Passes
<1>5. QED
  BY <1>1, <1>2, <1>3, <1>4 DEF Conclusion

\* The invariant holds initially and every step keeps it.
LEMMA GateInvariant == Spec => []GateInv
<1> USE GatewayAssumption
<1>1. Init => GateInv
  BY DEF Init, GateInv, TypeOK, OneDiscovery, PinHolds, NoRequestWithoutThePin, DenialsAgree,
         Outcomes, NotReady, Failures, Ready, Unknown, None
<1>2. GateInv /\ [Next]_vars => GateInv'
  <2> SUFFICES ASSUME GateInv, [Next]_vars
               PROVE  GateInv'
    OBVIOUS
  <2> USE DEF GateInv, OneDiscovery, PinHolds, NoRequestWithoutThePin, DenialsAgree, config
  <2>1. ASSUME NEW c \in Callers, Proceeds(c) PROVE GateInv'
    <3>1. assessment \in Decided
      BY <2>1 DEF Proceeds, TypeOK, Decided
    <3>2. Conclusion(c, assessment)
      BY <2>1 DEF Proceeds
    <3>3. TypeOK'
      BY <2>1, <3>1, <3>2, ConclusionEffect DEF Proceeds, TypeOK
    <3>4. OneDiscovery'
      BY <2>1, <3>1, <3>2, ConclusionEffect DEF Proceeds
    <3>5. PinHolds'
      BY <2>1, <3>1, <3>2, ConclusionEffect DEF Proceeds
    <3>6. DenialsAgree'
      BY <2>1, <3>1, <3>2, ConclusionEffect DEF Proceeds, Denied
    <3>7. QED
      BY <3>3, <3>4, <3>5, <3>6
  <2>2. ASSUME NEW c \in Callers, StartsDiscovery(c) PROVE GateInv'
    BY <2>2 DEF StartsDiscovery, TypeOK, Denied
  <2>3. ASSUME NEW c \in Callers, FindsNoPin(c) PROVE GateInv'
    <3>1. "not_ready" \in Decided /\ Conclusion(c, "not_ready")
      BY <2>3 DEF FindsNoPin, Decided, NotReady
    <3>2. TypeOK'
      BY <2>3, <3>1, ConclusionEffect DEF FindsNoPin, TypeOK, NotReady
    <3>3. OneDiscovery'
      BY <2>3, <3>1, ConclusionEffect DEF FindsNoPin, Unknown
    <3>4. PinHolds'
      BY <2>3, <3>1, ConclusionEffect DEF FindsNoPin, Ready
    <3>5. DenialsAgree'
      BY <2>3, <3>1, ConclusionEffect DEF FindsNoPin, Denied, Ready, Unknown, None
    <3>6. QED
      BY <3>2, <3>3, <3>4, <3>5
  <2>4. ASSUME NEW c \in Callers, Decides(c) PROVE GateInv'
    <3>1. PICK result \in Decided :
            assessment' = result /\ lock' = NoCaller /\ Conclusion(c, result)
      BY <2>4 DEF Decides
    <3>2. lock = c /\ assessment = Unknown /\ pinned /\ UNCHANGED <<config, session, asked, cancels>>
      BY <2>4 DEF Decides
    <3>3. TypeOK'
      BY <3>1, <3>2, ConclusionEffect DEF TypeOK, Decided
    <3>4. OneDiscovery'
      BY <3>1, <3>2, ConclusionEffect DEF Decided, NotReady, Failures, Ready, Unknown
    <3>5. PinHolds'
      BY <3>1, <3>2
    <3>6. DenialsAgree'
      BY <3>1, <3>2, ConclusionEffect
         DEF Denied, Decided, NotReady, Failures, Ready, Unknown, None
    <3>7. QED
      BY <3>3, <3>4, <3>5, <3>6
  <2>5. ASSUME NEW c \in Callers, Invoke(c) PROVE GateInv'
    BY <2>5 DEF Invoke, TypeOK, Denied
  <2>6. ASSUME NEW c \in Callers, CheckReadiness(c) PROVE GateInv'
    <3>1. CASE /\ pc' = [pc EXCEPT ![c] = "waiting"]
               /\ UNCHANGED <<config, session, assessment, lock, outcome, sent, asked, cancels>>
      BY <2>6, <3>1 DEF TypeOK, Denied, CheckReadiness
    <3>2. QED
      BY <2>1, <2>2, <2>3, <2>6, <3>1, CheckReadinessShape
  <2>7. ASSUME NEW c \in Callers, TakeLock(c) PROVE GateInv'
    BY <2>1, <2>2, <2>3, <2>7, TakeLockShape
  <2>8. ASSUME NEW c \in Callers, Discovered(c) PROVE GateInv'
    BY <2>4, <2>8, DiscoveredShape
  <2>9. ASSUME NEW c \in Callers, Answered(c) PROVE GateInv'
    BY <2>9 DEF Answered, Returns, TypeOK, Denied, Outcomes, Ready, Unknown
  <2>10. ASSUME NEW c \in Callers, Cancel(c) PROVE GateInv'
    BY <2>10 DEF Cancel, Returns, TypeOK, Denied, Outcomes
  <2>11. CASE UNCHANGED vars
    BY <2>11 DEF vars, TypeOK, Denied
  <2>12. CASE OpenGateway
    BY <2>12 DEF OpenGateway, TypeOK, Denied
  <2>13. QED
    BY <2>5, <2>6, <2>7, <2>8, <2>9, <2>10, <2>11, <2>12 DEF Next, Step
<1>3. QED
  BY <1>1, <1>2, PTL DEF Spec

-----------------------------------------------------------------------------
\* Every variable of the gateway keeps its type: in particular no call ever
\* goes on with an assessment that is still unknown.
THEOREM GatewayTypes == Spec => []TypeOK
BY GateInvariant, PTL DEF GateInv

\* However many callers come at once and whoever is cancelled, one caller
\* discovers at a time, under the lock, and only while nothing is decided.
THEOREM DiscoveryIsSingle == Spec => []OneDiscovery
BY GateInvariant, PTL DEF GateInv

\* Under a pin that does not match, the provider is asked for nothing in the session
\* that is opened all the same: neither for its tools nor to call one.
THEOREM ThePinIsRespected == Spec => []NoRequestWithoutThePin
BY GateInvariant, PTL DEF GateInv, PinHolds

\* Two denied requests have the same outcome, whatever names they asked for.
THEOREM DenialsAreUniform == Spec => []DenialDisclosesNothing
<1>1. DenialsAgree => DenialDisclosesNothing
  BY DEF DenialsAgree, DenialDisclosesNothing
<1>2. QED
  BY <1>1, GateInvariant, PTL DEF GateInv

\* The gateway implements ReadGate: one decision, and only permitted calls sent,
\* only after it was decided that reads may be served.  A permitted call is a reading
\* of the copy that was checked, not of the caller's mapping.
THEOREM GatewayKeepsTheGate == Spec => KeepsTheGate
<1> USE DEF Gate!Next, Gate!Decide, Gate!Send, Gate!DecideAndSend, Gate!vars,
            GateOf, Ready, Unknown
<1>1. Init => Gate!Init
  BY DEF Init, Gate!Init
<1>2. GateInv /\ [Next]_vars => [Gate!Next]_(Gate!vars)
  <2> SUFFICES ASSUME GateInv, [Next]_vars
               PROVE  [Gate!Next]_(Gate!vars)
    OBVIOUS
  <2> USE DEF config
  <2>1. UNCHANGED config => UNCHANGED Permitted
    BY DEF Permitted, Allowed
  <2>2. ASSUME NEW c \in Callers, NEW assessed, Conclusion(c, assessed)
        PROVE  \/ UNCHANGED sent
               \/ assessed = Ready /\ \E call \in Permitted : sent' = {call}
    BY <2>2 DEF Conclusion, Denies, Refuses, Passes, Returns
  <2>3. ASSUME NEW c \in Callers, Proceeds(c) PROVE [Gate!Next]_(Gate!vars)
    <3>1. UNCHANGED <<assessment, Permitted>> /\ assessment # Unknown
      BY <2>1, <2>3 DEF Proceeds
    <3>2. \/ UNCHANGED sent
          \/ assessment = Ready /\ \E call \in Permitted : sent' = {call}
      BY <2>2, <2>3 DEF Proceeds
    <3>3. QED
      BY <3>1, <3>2
  <2>4. ASSUME NEW c \in Callers, StartsDiscovery(c) PROVE [Gate!Next]_(Gate!vars)
    BY <2>1, <2>4 DEF StartsDiscovery
  <2>5. ASSUME NEW c \in Callers, FindsNoPin(c) PROVE [Gate!Next]_(Gate!vars)
    <3>1. UNCHANGED <<sent, Permitted>> /\ assessment = Unknown /\ assessment' = "not_ready"
      BY <2>1, <2>2, <2>5 DEF FindsNoPin
    <3>2. QED
      BY <3>1
  <2>6. ASSUME NEW c \in Callers, Decides(c) PROVE [Gate!Next]_(Gate!vars)
    <3>1. PICK result \in Decided : assessment' = result /\ Conclusion(c, result)
      BY <2>6 DEF Decides
    <3>2. assessment = Unknown /\ UNCHANGED Permitted
      BY <2>1, <2>6 DEF Decides, GateInv, OneDiscovery
    <3>3. \/ UNCHANGED sent
          \/ result = Ready /\ \E call \in Permitted : sent' = {call}
      BY <2>2, <3>1
    <3>4. result # Unknown
      BY DEF Decided, NotReady, Failures
    <3>5. QED
      BY <3>1, <3>2, <3>3, <3>4
  <2>7. ASSUME NEW c \in Callers, Invoke(c) \/ Answered(c) \/ Cancel(c)
        PROVE  [Gate!Next]_(Gate!vars)
    <3>1. UNCHANGED <<assessment, sent, config>>
      BY <2>7 DEF Invoke, Answered, Cancel, Returns
    <3>2. QED
      BY <2>1, <3>1
  <2>8. ASSUME NEW c \in Callers, CheckReadiness(c) PROVE [Gate!Next]_(Gate!vars)
    BY <2>1, <2>3, <2>4, <2>5, <2>8, CheckReadinessShape
  <2>9. ASSUME NEW c \in Callers, TakeLock(c) PROVE [Gate!Next]_(Gate!vars)
    BY <2>3, <2>4, <2>5, <2>9, TakeLockShape
  <2>10. ASSUME NEW c \in Callers, Discovered(c) PROVE [Gate!Next]_(Gate!vars)
    BY <2>6, <2>10, DiscoveredShape
  <2>11. CASE UNCHANGED vars
    BY <2>1, <2>11 DEF vars
  <2>12. CASE OpenGateway
    BY <2>1, <2>12 DEF OpenGateway
  <2>13. QED
    BY <2>7, <2>8, <2>9, <2>10, <2>11, <2>12 DEF Next, Step
<1>3. QED
  BY <1>1, <1>2, GateInvariant, PTL DEF Spec, KeepsTheGate, Gate!Spec

\* Where no copy can be read in two ways, which is where the arguments hold no
\* mapping inside a list, what is sent is the very value that validated against the
\* schema and used only names it declares.
THEOREM SettledCallsWereValidated ==
  ASSUME \A copy \in Copies : Settled(copy)
  PROVE  Spec => [](\A call \in sent :
                      call.arguments \in Manifest[call.capability].validates
                                           \cap Manifest[call.capability].declared)
<1> DEFINE Validated(call) == call.arguments \in Manifest[call.capability].validates
                                                  \cap Manifest[call.capability].declared
           Good == \A call \in sent : Validated(call)
<1>1. \A call \in Permitted : Validated(call)
  <2>1. SUFFICES ASSUME NEW call \in Permitted PROVE Validated(call)
    OBVIOUS
  <2>2. /\ call.copy \in Copies /\ call.arguments \in call.copy
        /\ call.copy \cap Manifest[call.capability].validates # {}
        /\ call.copy \cap Manifest[call.capability].declared # {}
    BY DEF Permitted
  <2>3. PICK a \in Arguments : call.copy = {a}
    BY <2>2 DEF Settled
  <2>4. QED
    BY <2>2, <2>3
<1> HIDE DEF Validated
<1>2. Init => Good
  BY DEF Init
<1>3. Good /\ [Next]_vars => Good'
  <2> SUFFICES ASSUME Good, [Next]_vars PROVE Good'
    OBVIOUS
  <2>1. ASSUME NEW call PROVE Validated(call)' <=> Validated(call)
    BY DEF Validated
  <2>2. ASSUME NEW c \in Callers, NEW assessed, Conclusion(c, assessed) PROVE Good'
    <3>1. UNCHANGED sent \/ \E call \in Permitted : sent' = {call}
      BY <2>2 DEF Conclusion, Denies, Refuses, Passes, Returns
    <3>2. QED
      BY <1>1, <2>1, <3>1
  <2>3. UNCHANGED sent => Good'
    BY <2>1
  <2>4. ASSUME NEW c \in Callers, Proceeds(c) \/ StartsDiscovery(c) \/ FindsNoPin(c) \/ Decides(c)
        PROVE  Good'
    BY <2>2, <2>3, <2>4 DEF Proceeds, StartsDiscovery, FindsNoPin, Decides
  <2>5. ASSUME NEW c \in Callers, Step(c) PROVE Good'
    <3>1. CASE CheckReadiness(c)
      BY <2>3, <2>4, <3>1, CheckReadinessShape
    <3>2. CASE TakeLock(c)
      BY <2>4, <3>2, TakeLockShape
    <3>3. CASE Discovered(c)
      BY <2>4, <3>3, DiscoveredShape
    <3>4. CASE Answered(c)
      BY <2>3, <3>4 DEF Answered, Returns
    <3>5. QED
      BY <2>5, <3>1, <3>2, <3>3, <3>4 DEF Step
  <2>6. ASSUME NEW c \in Callers, Invoke(c) \/ Cancel(c) PROVE Good'
    BY <2>3, <2>6 DEF Invoke, Cancel, Returns
  <2>7. CASE OpenGateway \/ UNCHANGED vars
    BY <2>3, <2>7 DEF OpenGateway, vars
  <2>8. QED
    BY <2>5, <2>6, <2>7 DEF Next
<1>4. QED
  BY <1>2, <1>3, PTL DEF Spec, Validated
=============================================================================
