--------------------------- MODULE MCTokenRefresh ---------------------------
(* Instances of TokenRefresh for TLC. *)
EXTENDS TokenRefresh, TLC

CONSTANTS r1, r2, r3, in1, in2, out, b1, b2, b3, b4

\* r1 and r2 share a process; the command line runs login and logout in
\* processes of their own.
MCBrokerOf == [t \in Tasks |->
  CASE t \in {r1, r2} -> b1
    [] t = r3         -> b2
    [] t \in {in1, out} -> b3
    [] t = in2        -> b4]
=============================================================================
