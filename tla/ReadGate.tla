------------------------------ MODULE ReadGate ------------------------------
(****************************************************************************)
(* What a gateway promises whoever reviewed the manifest.  A gate is opened *)
(* or shut once, and stays so; only through an open gate does a call reach  *)
(* the provider; and a call that does is one the review permits, name and   *)
(* arguments both.                                                          *)
(****************************************************************************)
VARIABLES
  gate,       \* "undecided", "open" or "shut"
  permitted,  \* the calls the review permits under the configuration
  sent        \* the last call that has reached the provider, if any has

vars == <<gate, permitted, sent>>

Init ==
  /\ gate = "undecided"
  /\ sent = {}

Decide ==
  /\ gate = "undecided"
  /\ gate' \in {"open", "shut"}
  /\ UNCHANGED <<permitted, sent>>

Send ==
  /\ gate = "open"
  /\ \E call \in permitted : sent' = {call}
  /\ UNCHANGED <<gate, permitted>>

\* The call that finds the gate undecided may decide it and go through at once.
DecideAndSend ==
  /\ gate = "undecided"
  /\ gate' = "open"
  /\ \E call \in permitted : sent' = {call}
  /\ UNCHANGED permitted

Next == Decide \/ Send \/ DecideAndSend

Spec == Init /\ [][Next]_vars
=============================================================================
