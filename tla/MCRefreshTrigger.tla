--------------------------- MODULE MCRefreshTrigger ---------------------------
(* RefreshTrigger for TLC: the runs of GitHub's list are those of the trigger  *)
(* and the owner.                                                              *)
EXTENDS RefreshTrigger

MCDispatchers == {"owner", "trigger"}
=============================================================================
