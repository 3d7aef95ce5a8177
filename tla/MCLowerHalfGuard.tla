--------------------------- MODULE MCLowerHalfGuard ---------------------------
(* Instances of LowerHalfGuard for TLC.                                    *)
EXTENDS LowerHalfGuard, TLC

CONSTANTS t1, t2
TwoThreads == {t1, t2}
OneThread == {t1}
ThreadSymmetry == Permutations(TwoThreads)
=============================================================================
