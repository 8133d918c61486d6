-------------------------- MODULE MC_FidLifecycle --------------------------
(* FidLifecycle instantiated for TLC: two threads, up to two names.        *)
EXTENDS FidLifecycle, TLC

CONSTANTS t1, t2, n1, n2

(* The threads run the same code, so permuting them is a symmetry of the  *)
(* safety runs.                                                            *)
ThreadSymmetry == Permutations({t1, t2})
=============================================================================
