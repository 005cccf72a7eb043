---------------------------- MODULE MCLogRecovery -----------------------------
(***************************************************************************)
(* Instances of LogRecovery for TLC.  No action treats one record value    *)
(* differently from another, so they may be permuted.                      *)
(***************************************************************************)
EXTENDS LogRecovery, TLC

Symmetry == Permutations(Val)
===============================================================================
