---------------------------- MODULE MCHostSpans ----------------------------
(* HostSpans for TLC: two host threads whose callers end any id.           *)
EXTENDS HostSpans, TLC

CONSTANTS t1, t2
TwoThreads == {t1, t2}
ThreadSymmetry == Permutations(TwoThreads)
=============================================================================
