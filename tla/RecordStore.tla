------------------------------ MODULE RecordStore ------------------------------
(***************************************************************************)
(* What a record file promises its callers: a set of records, each named   *)
(* by an identifier that is fresh when the record is inserted and stays    *)
(* with it until it is deleted.  How pages, bitmaps and the free list      *)
(* bring this about is RecordFile's business.                              *)
(***************************************************************************)
CONSTANTS Rid, Val, Empty

VARIABLE store   (* the record each identifier names, Empty when none *)

Init == store = [r \in Rid |-> Empty]

Insert == \E r \in Rid, v \in Val :
  /\ store[r] = Empty
  /\ store' = [store EXCEPT ![r] = v]

Delete == \E r \in Rid :
  /\ store[r] # Empty
  /\ store' = [store EXCEPT ![r] = Empty]

Update == \E r \in Rid, v \in Val :
  /\ store[r] # Empty
  /\ store' = [store EXCEPT ![r] = v]

Next == Insert \/ Delete \/ Update

Spec == Init /\ [][Next]_store
===============================================================================
