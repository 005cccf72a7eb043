------------------------------ MODULE RecordPage ------------------------------
(***************************************************************************)
(* One data page of a record file and the header fields that thread the    *)
(* pages with room into a free list (RM_PageHdr and the slot bitmap of     *)
(* rm_internal.h, RM_FileHdr.firstFree of rm.h).  The operators here are   *)
(* the page edits of rm_filehandle.cc; the modules that keep files apply   *)
(* them to the pages they hold.                                            *)
(*                                                                         *)
(* A page is a record with at least the fields                             *)
(*   num   numRecords of the page header,                                  *)
(*   next  nextFree of the page header,                                    *)
(*   rec   the slots: a value, or Empty when the slot's bitmap bit is 0.   *)
(* The bytes that stay in a slot after its bit is cleared are never read   *)
(* (GetRec and the scan test the bit first), so bit and bytes are one.     *)
(***************************************************************************)
EXTENDS Integers

CONSTANTS
  RecordsPerPage,  (* slots of a page, computed by RM_Manager::CreateFile *)
  Val,             (* the contents a record may have                      *)
  Empty            (* a slot whose bitmap bit is clear                    *)

ASSUME PageAssumption ==
  /\ RecordsPerPage \in Nat \ {0}
  /\ Empty \notin Val

Slots == 0 .. RecordsPerPage - 1

(* RM_PAGE_LIST_END and RM_PAGE_FULL of rm_internal.h. *)
ListEnd  == -1
PageFull == -2

HasRoom(pg) == \E s \in Slots : pg.rec[s] = Empty

(* The lowest slot whose bit is clear; the code returns -1 when there is   *)
(* none, which callers here express by testing HasRoom first.              *)
FindAvailableSlot(pg) ==
  CHOOSE s \in Slots : /\ pg.rec[s] = Empty
                       /\ \A t \in Slots : t < s => pg.rec[t] # Empty

(* What InsertRec does before it logs: count the record and leave the free *)
(* list when the count reaches the capacity.                               *)
CountInsert(pg) ==
  [pg EXCEPT !.num  = @ + 1,
             !.next = IF pg.num + 1 = RecordsPerPage THEN PageFull ELSE @]

(* InsertRec on a page: count the record, leave the free list when the     *)
(* count reaches the capacity, store the record and set its bit.           *)
InsertInto(pg, s, v) ==
  [pg EXCEPT !.rec[s] = v,
             !.num    = @ + 1,
             !.next   = IF pg.num + 1 = RecordsPerPage THEN PageFull ELSE @]

FirstFreeAfterInsert(pg, p) ==
  IF pg.num + 1 = RecordsPerPage THEN pg.next ELSE p

(* Mutant: the count goes down only when the page was full. *)
DeleteFromKeepsCount(pg, s, ff) ==
  [pg EXCEPT !.rec[s] = Empty,
             !.num    = IF @ = RecordsPerPage THEN @ - 1 ELSE @,
             !.next   = IF pg.num = RecordsPerPage THEN ff ELSE @]

(* Mutant: a page put back on the free list forgets the rest of the list. *)
DeleteFromCutsList(pg, s, ff) ==
  [pg EXCEPT !.rec[s] = Empty,
             !.num    = @ - 1,
             !.next   = IF pg.num = RecordsPerPage THEN ListEnd ELSE @]

(* DeleteRec on page p: clear the bit and, when the count was the          *)
(* capacity, push the page on the free list whose head is ff.              *)
DeleteFrom(pg, s, ff) ==
  [pg EXCEPT !.rec[s] = Empty,
             !.num    = @ - 1,
             !.next   = IF pg.num = RecordsPerPage THEN ff ELSE @]

FirstFreeAfterDelete(pg, p, ff) ==
  IF pg.num = RecordsPerPage THEN p ELSE ff

(* UpdateRec and InsertRecAtRid: the slot's bytes (and bit) and nothing    *)
(* else: neither the count nor the free list.                              *)
PutAt(pg, s, v) == [pg EXCEPT !.rec[s] = v]
===============================================================================
