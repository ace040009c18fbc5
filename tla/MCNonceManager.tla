--------------------------- MODULE MCNonceManager ---------------------------
(* Small instances of NonceManager. *)
EXTENDS NonceManager, TLC

CONSTANTS t1, t2, t3

TaskSymmetry == Permutations({t1, t2, t3})
=============================================================================
