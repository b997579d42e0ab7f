---------------------------- MODULE MCGuestSpans ----------------------------
(* GuestSpans for TLC: two threads, levels below, at and above Debug.      *)
EXTENDS GuestSpans, TLC

CONSTANTS t1, t2
TwoThreads == {t1, t2}
ThreadSymmetry == Permutations(TwoThreads)
AroundDebug == {0, 1, 2}
=============================================================================
