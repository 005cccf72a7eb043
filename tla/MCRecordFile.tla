----------------------------- MODULE MCRecordFile -----------------------------
(***************************************************************************)
(* The instance of RecordFile for TLC.  It extends the module of proofs so *)
(* that the inductive invariant the proofs use is checked as well.         *)
(***************************************************************************)
EXTENDS RecordFileProofs, TLC
===============================================================================
