-------------------------- MODULE MCProviderSession --------------------------
(* Three calls on one session. *)
EXTENDS ProviderSession, TLC

CONSTANTS c1, c2, c3

CallSymmetry == Permutations({c1, c2, c3})
=============================================================================
