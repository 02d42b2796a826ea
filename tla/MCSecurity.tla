----------------------------- MODULE MCSecurity -----------------------------
(***************************************************************************)
(* Values for model-checking Security.                                     *)
(***************************************************************************)
EXTENDS Security, TLC

CONSTANTS t1, t2

OneThread == {t1}
TwoThreads == {t1, t2}
ThreadSymmetry == Permutations(TwoThreads)
=============================================================================
