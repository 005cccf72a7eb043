--------------------------- MODULE RecordPageProofs ---------------------------
(***************************************************************************)
(* What the page edits of RecordPage do to the count and to the bitmap of  *)
(* a page, for any page record, whatever fields besides num, next and rec  *)
(* it has.                                                                 *)
(***************************************************************************)
EXTENDS RecordPage, FiniteSetTheorems, WellFoundedInduction, TLAPS

UsedSlots(pg) == {s \in Slots : pg.rec[s] # Empty}

(* The page's count is the number of bits set in its bitmap. *)
Counted(pg) == pg.num = Cardinality(UsedSlots(pg))

(* A set of pages that the edits lead from one to another. *)
SlotArrays == [Slots -> Val \cup {Empty}]

(* A non-empty set of naturals has a least member. *)
LEMMA LeastNatural ==
  ASSUME NEW T, T \subseteq Nat, T # {}
  PROVE  \E x \in T : \A y \in T : x <= y
<1> DEFINE Less == OpToRel(<, Nat)
<1>1. IsWellFoundedOn(Less, Nat)
  BY NatLessThanWellFounded
<1>2. \A x, y \in Nat : <<y, x>> \notin Less => x <= y
  BY DEF OpToRel
<1> HIDE DEF Less
<1>3. PICK x \in T : \A y \in T : ~(<<y, x>> \in Less)
  BY <1>1, WFMin
<1> QED
  BY <1>2, <1>3

(* There are RecordsPerPage slots and a page uses some of them. *)
LEMMA SlotsFinite ==
  /\ IsFiniteSet(Slots)
  /\ Cardinality(Slots) = RecordsPerPage
  /\ \A pg : IsFiniteSet(UsedSlots(pg)) /\ Cardinality(UsedSlots(pg)) \in Nat
<1>1. IsFiniteSet(Slots) /\ Cardinality(Slots) = RecordsPerPage
  BY FS_Interval, PageAssumption DEF Slots
<1>2. \A pg : IsFiniteSet(UsedSlots(pg))
  BY <1>1, FS_Subset DEF UsedSlots
<1> QED
  BY <1>1, <1>2, FS_CardinalityType

(* A page whose count is that of its bitmap is empty when the count is 0,  *)
(* and has an empty slot unless the count is the capacity: the tests the   *)
(* code makes on numRecords are tests of the bitmap.                       *)
LEMMA CountTests ==
  ASSUME NEW pg, Counted(pg)
  PROVE  /\ pg.num \in 0 .. RecordsPerPage
         /\ pg.num = 0 <=> \A s \in Slots : pg.rec[s] = Empty
         /\ pg.num = RecordsPerPage <=> ~HasRoom(pg)
<1>1. UsedSlots(pg) \in SUBSET Slots
  BY DEF UsedSlots
<1>2. /\ Cardinality(UsedSlots(pg)) <= RecordsPerPage
      /\ Cardinality(UsedSlots(pg)) = RecordsPerPage => UsedSlots(pg) = Slots
  BY <1>1, SlotsFinite, FS_Subset
<1>3. Cardinality(UsedSlots(pg)) = 0 <=> UsedSlots(pg) = {}
  BY SlotsFinite, FS_EmptySet
<1>4. UsedSlots(pg) = Slots => Cardinality(UsedSlots(pg)) = RecordsPerPage
  BY SlotsFinite
<1>5. pg.num \in 0 .. RecordsPerPage
  BY <1>2, SlotsFinite, PageAssumption DEF Counted
<1>6. pg.num = 0 <=> \A s \in Slots : pg.rec[s] = Empty
  BY <1>3 DEF Counted, UsedSlots
<1>7. UsedSlots(pg) = Slots <=> ~HasRoom(pg)
  BY DEF UsedSlots, HasRoom
<1> QED
  BY <1>2, <1>4, <1>5, <1>6, <1>7 DEF Counted

(* FindAvailableSlot finds an empty slot when there is one. *)
LEMMA FreeSlotFound ==
  ASSUME NEW pg, HasRoom(pg)
  PROVE  /\ FindAvailableSlot(pg) \in Slots
         /\ pg.rec[FindAvailableSlot(pg)] = Empty
<1> DEFINE T == {s \in Slots : pg.rec[s] = Empty}
<1>1. PICK x \in T : \A y \in T : x <= y
  <2>1. T \subseteq Nat /\ T # {}
    BY PageAssumption DEF HasRoom, Slots
  <2> HIDE DEF T
  <2> QED
    BY <2>1, LeastNatural
<1>2. \A t \in Slots : t < x => pg.rec[t] # Empty
  BY <1>1, PageAssumption DEF Slots
<1> QED
  BY <1>1, <1>2 DEF FindAvailableSlot

(* Storing a record in an empty slot and counting it. *)
LEMMA CountAfterInsert ==
  ASSUME NEW pg, NEW q, NEW s \in Slots, NEW v \in Val,
         pg.rec \in SlotArrays, Counted(pg), pg.rec[s] = Empty,
         q.rec = [pg.rec EXCEPT ![s] = v], q.num = pg.num + 1
  PROVE  Counted(q)
<1>1. UsedSlots(q) = UsedSlots(pg) \cup {s}
  BY PageAssumption DEF UsedSlots, SlotArrays
<1>2. s \notin UsedSlots(pg)
  BY DEF UsedSlots
<1> QED
  BY <1>1, <1>2, SlotsFinite, FS_AddElement DEF Counted

(* Clearing a used slot and uncounting its record. *)
LEMMA CountAfterDelete ==
  ASSUME NEW pg, NEW q, NEW s \in Slots,
         pg.rec \in SlotArrays, Counted(pg), pg.rec[s] # Empty,
         q.rec = [pg.rec EXCEPT ![s] = Empty], q.num = pg.num - 1
  PROVE  Counted(q)
<1>1. UsedSlots(q) = UsedSlots(pg) \ {s}
  BY PageAssumption DEF UsedSlots, SlotArrays
<1>2. s \in UsedSlots(pg)
  BY DEF UsedSlots
<1> QED
  BY <1>1, <1>2, SlotsFinite, FS_RemoveElement DEF Counted

(* Overwriting a used slot. *)
LEMMA CountAfterUpdate ==
  ASSUME NEW pg, NEW q, NEW s \in Slots, NEW v \in Val,
         pg.rec \in SlotArrays, Counted(pg), pg.rec[s] # Empty,
         q.rec = [pg.rec EXCEPT ![s] = v], q.num = pg.num
  PROVE  Counted(q)
<1>1. UsedSlots(q) = UsedSlots(pg)
  BY PageAssumption DEF UsedSlots, SlotArrays
<1> QED
  BY <1>1 DEF Counted
===============================================================================
