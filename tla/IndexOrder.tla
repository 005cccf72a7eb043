------------------------------ MODULE IndexOrder -------------------------------
(***************************************************************************)
(* The order of the entries of an index and the conditions of its scans    *)
(* (comp.cc, ix_indexscan.cc).  An entry is a pair of the value of the     *)
(* indexed attribute and the identifier of the record.  Values and         *)
(* identifiers are natural numbers, for what CompareKey tells apart: a     *)
(* value is less than, equal to or greater than another, and a record      *)
(* comes before another, by page and then by slot.                         *)
(***************************************************************************)
EXTENDS Integers

ScanOps == {"NO", "EQ", "LT", "GT", "LE", "GE"}

(* CompareKey on whole keys: by value, then by record. *)
Before(e, f) == \/ e[1] < f[1]
                \/ e[1] = f[1] /\ e[2] < f[2]

(* The entries a scan with operator op and value v is asked for. *)
Wanted(op, v, e) ==
  \/ op = "NO"
  \/ op = "EQ" /\ e[1] = v
  \/ op = "LT" /\ e[1] < v
  \/ op = "LE" /\ e[1] <= v
  \/ op = "GT" /\ e[1] > v
  \/ op = "GE" /\ e[1] >= v
===============================================================================
