------------------------ MODULE MCTokenRefreshCancel ------------------------
(* Instances of TokenRefreshCancel for TLC: two tasks share process b1. *)
EXTENDS TokenRefreshCancel, TLC

CONSTANTS r1, r2, r3, b1, b2

MCBrokerOf == [t \in Tasks |-> IF t = r3 THEN b2 ELSE b1]
=============================================================================
