------------------------- MODULE MCCallbackListener -------------------------
(* Four connections, of which two strays are one too many.                   *)
EXTENDS CallbackListener, TLC

CONSTANTS k1, k2, k3, k4
=============================================================================
