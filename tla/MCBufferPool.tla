---------------------------- MODULE MCBufferPool ------------------------------
(***************************************************************************)
(* The instance of BufferPool for TLC: three pages, of which the log and   *)
(* the other file may have one or two each, for two frames.                *)
(***************************************************************************)
EXTENDS BufferPool, TLC

ThreePages == Cardinality(DOMAIN given \cup lost) <= 3
===============================================================================
