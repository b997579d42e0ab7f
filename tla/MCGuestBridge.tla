--------------------------- MODULE MCGuestBridge ---------------------------
(* GuestBridge for TLC: two guests, levels just below, at and above Debug. *)
EXTENDS GuestBridge, TLC

CONSTANTS t1, t2
TwoThreads == {t1, t2}
AroundDebug == {0, 1, 2}
=============================================================================
