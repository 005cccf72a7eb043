----------------------------- MODULE CatalogProofs -----------------------------
(***************************************************************************)
(* Proofs about Catalog: what a finished statement has done to the         *)
(* catalogs survives crashes, and a statement that a crash or an error has *)
(* interrupted harms no relation but its own and those whose records it    *)
(* then reaches.                                                           *)
(*                                                                         *)
(* The inductive invariant Inv says of the four files, in memory and on    *)
(* disk, that they are well formed and that no page of the disk is missing *)
(* in memory; of the free lists, that they lead to pages with room, and    *)
(* those on disk to the same (Near), unless an old header has come back    *)
(* from the disk; and of every relation that is                            *)
(* not broken one of two things: between its statements that it is as      *)
(* declared, in memory and on disk (Settled), and during one that it is as *)
(* the first k items of that statement leave it (InStatement).             *)
(*                                                                         *)
(* The order of the proof: pages, record files, sets of numbers in order,  *)
(* what the files say of one relation (View), what each action does to     *)
(* them (Effect), the four statements item by item, their ends, writes of  *)
(* single pages, sessions, the beginnings of statements, the theorems.     *)
(***************************************************************************)
EXTENDS Catalog, FiniteSetTheorems, WellFoundedInduction, TLAPS

-------------------------------------------------------------------------------
(* Numbers.                                                                *)

(* A non-empty set of naturals has a least member. *)
LEMMA LeastMember ==
  ASSUME NEW T, T \subseteq Nat, T # {}
  PROVE  \E x \in T : \A y \in T : x <= y
<1> DEFINE Less == OpToRel(<, Nat)
<1>1. IsWellFoundedOn(Less, Nat)
  BY NatLessThanWellFounded
<1>2. \A x, y \in Nat : <<y, x>> \notin Less => x <= y
  BY DEF OpToRel
<1> HIDE DEF Less
<1>3. PICK x \in T : \A y \in T : ~(<<y, x>> \in Less)
  BY <1>1, WFMin
<1> QED
  BY <1>2, <1>3

(* Dividing by the records per page. *)
LEMMA Division ==
  ASSUME NEW N \in Nat \ {0}, NEW p \in Nat, NEW s \in 0 .. N - 1
  PROVE  (p * N + s) \div N = p /\ (p * N + s) % N = s
OBVIOUS

(* A record on an earlier page has a smaller identifier.                     *)
LEMMA Multiples ==
  ASSUME NEW N \in Nat \ {0}, NEW p \in Nat, NEW q \in Nat, p < q,
         NEW s \in 0 .. N - 1, NEW t \in 0 .. N - 1
  PROVE  p * N + s < q * N + t
OBVIOUS

(* An identifier of a record says its page and its slot. *)
LEMMA RidParts ==
  ASSUME NEW p \in Nat, NEW s \in Slots
  PROVE  /\ RidOf(p, s) \in Nat
         /\ PageOf(RidOf(p, s)) = p
         /\ SlotOf(RidOf(p, s)) = s
<1>1. PerPage \in Nat \ {0} /\ s \in 0 .. PerPage - 1
  BY CatalogConstants DEF Slots
<1>2. RidOf(p, s) \in Nat
  BY <1>1 DEF RidOf
<1> QED
  BY <1>1, <1>2, Division DEF RidOf, PageOf, SlotOf

(* Identifiers are ordered as pages and slots are.                           *)
LEMMA RidOrder ==
  ASSUME NEW p \in Nat, NEW q \in Nat, NEW s \in Slots, NEW t \in Slots,
         p < q \/ (p = q /\ s < t)
  PROVE  RidOf(p, s) < RidOf(q, t)
<1>1. PerPage \in Nat \ {0} /\ s \in 0 .. PerPage - 1 /\ t \in 0 .. PerPage - 1
  BY CatalogConstants DEF Slots
<1>2. CASE p < q
  BY <1>1, <1>2, Multiples DEF RidOf
<1>3. CASE p = q /\ s < t
  <2>1. p * PerPage \in Nat
    BY <1>1
  <2> QED
    BY <1>1, <1>3, <2>1 DEF RidOf
<1> QED
  BY <1>2, <1>3

-------------------------------------------------------------------------------
(* Pages.  The set of a page's records is R.                               *)

UsedSlots(pg) == {s \in Slots : pg.rec[s] # NoRecord}
Counted(pg) == pg.num = Cardinality(UsedSlots(pg))

PageType(R) == [num : Nat, next : Int, rec : [Slots -> R \union {NoRecord}]]

(* A page's count is that of its bitmap and it is marked full when it is;  *)
(* its link leads to one of the pages D, unless it was never written.      *)
PageOK(pg, R, D) ==
  /\ pg \in PageType(R)
  /\ Counted(pg)
  /\ pg.next = PageFull <=> pg.num = PerPage
  /\ pg.next \in D \union {ListEnd, PageFull} \/ pg = Hole

(* A hole is like an empty page but for its link.                          *)
LEMMA HoleParts ==
  /\ Hole.num = 0 /\ Hole.next = 0 /\ \A s \in Slots : Hole.rec[s] = NoRecord
  /\ PerPage \in Nat \ {0} /\ PageFull # 0 /\ ListEnd # 0 /\ PageFull # ListEnd
  /\ \A R, D : PageOK(Hole, R, D)
<1>1. PerPage \in Nat \ {0} /\ PageFull # 0 /\ ListEnd # 0 /\ PageFull # ListEnd
  BY CatalogConstants DEF PageFull, ListEnd
<1>2. PICK r : r = [s \in Slots |-> NoRecord]
  OBVIOUS
<1>3. Hole = [num |-> 0, next |-> 0, rec |-> r]
  BY <1>2 DEF Hole, BlankPage
<1> HIDE DEF Hole
<1>4. Hole.num = 0 /\ Hole.next = 0 /\ Hole.rec = r
  BY <1>3
<1>5. \A s \in Slots : Hole.rec[s] = NoRecord
  BY <1>2, <1>4
<1>6. UsedSlots(Hole) = {}
  BY <1>5 DEF UsedSlots
<1>7. Counted(Hole)
  BY <1>4, <1>6, FS_EmptySet DEF Counted
<1>8. ASSUME NEW R PROVE Hole \in PageType(R)
  BY <1>2, <1>3 DEF PageType
<1> QED
  BY <1>1, <1>4, <1>5, <1>7, <1>8 DEF PageOK

(* A page has an empty slot unless its count is the capacity.              *)
LEMMA CountTests ==
  ASSUME NEW pg, Counted(pg)
  PROVE  /\ pg.num \in 0 .. PerPage
         /\ pg.num = PerPage <=> ~HasRoom(pg)
         /\ IsFiniteSet(UsedSlots(pg))
         /\ \A s \in Slots : pg.rec[s] # NoRecord => pg.num > 0
<1>1. PerPage \in Nat \ {0}
  BY CatalogConstants
<1>2. IsFiniteSet(Slots) /\ Cardinality(Slots) = PerPage
  BY <1>1, FS_Interval DEF Slots
<1>3. UsedSlots(pg) \in SUBSET Slots
  BY DEF UsedSlots
<1>4. /\ IsFiniteSet(UsedSlots(pg))
      /\ Cardinality(UsedSlots(pg)) <= PerPage
      /\ Cardinality(UsedSlots(pg)) = PerPage => UsedSlots(pg) = Slots
  BY <1>2, <1>3, FS_Subset
<1>5. Cardinality(UsedSlots(pg)) \in Nat
  BY <1>4, FS_CardinalityType
<1>6. UsedSlots(pg) = Slots <=> ~HasRoom(pg)
  BY DEF UsedSlots, HasRoom
<1>7. pg.num \in 0 .. PerPage
  BY <1>1, <1>4, <1>5 DEF Counted
<1>8. pg.num = PerPage <=> ~HasRoom(pg)
  BY <1>2, <1>4, <1>6 DEF Counted
<1>9. ASSUME NEW s \in Slots, pg.rec[s] # NoRecord PROVE pg.num > 0
  <2>1. UsedSlots(pg) # {}
    BY <1>9 DEF UsedSlots
  <2>2. Cardinality(UsedSlots(pg)) # 0
    BY <1>4, <2>1, FS_EmptySet
  <2> QED
    BY <1>5, <2>2 DEF Counted
<1> QED
  BY <1>4, <1>7, <1>8, <1>9

(* FindAvailableSlot finds the lowest empty slot when there is one.        *)
LEMMA SlotFound ==
  ASSUME NEW pg, HasRoom(pg)
  PROVE  /\ FindAvailableSlot(pg) \in Slots
         /\ pg.rec[FindAvailableSlot(pg)] = NoRecord
         /\ \A t \in Slots : t < FindAvailableSlot(pg) => pg.rec[t] # NoRecord
<1> DEFINE T == {s \in Slots : pg.rec[s] = NoRecord}
<1>1. Slots \subseteq Nat
  BY CatalogConstants DEF Slots
<1>2. PICK x \in T : \A y \in T : x <= y
  <2>1. T \subseteq Nat /\ T # {}
    BY <1>1 DEF HasRoom
  <2> HIDE DEF T
  <2> QED
    BY <2>1, LeastMember
<1>3. \A t \in Slots : t < x => pg.rec[t] # NoRecord
  <2>1. \A t \in Slots : t < x => ~(x <= t)
    BY <1>1, <1>2
  <2> QED
    BY <1>2, <2>1
<1> QED
  BY <1>2, <1>3 DEF FindAvailableSlot

(* The edits of a page.                                                    *)
LEMMA InsertIntoOK ==
  ASSUME NEW R, NoRecord \notin R, NEW D, NEW pg, PageOK(pg, R, D), pg # Hole,
         NEW s \in Slots, pg.rec[s] = NoRecord, NEW v \in R
  PROVE  /\ PageOK(InsertInto(pg, s, v), R, D)
         /\ InsertInto(pg, s, v).rec = [pg.rec EXCEPT ![s] = v]
         /\ InsertInto(pg, s, v).num = pg.num + 1
         /\ pg.num # PerPage
         /\ InsertInto(pg, s, v).next =
              IF pg.num + 1 = PerPage THEN PageFull ELSE pg.next
<1> DEFINE q == InsertInto(pg, s, v)
<1>1. pg \in PageType(R) /\ Counted(pg)
  BY DEF PageOK
<1>2. /\ q.rec = [pg.rec EXCEPT ![s] = v]
      /\ q.num = pg.num + 1
      /\ q.next = IF pg.num + 1 = PerPage THEN PageFull ELSE pg.next
      /\ q \in PageType(R)
  <2>1. /\ pg \in [num : Nat, next : Int, rec : [Slots -> R \union {NoRecord}]]
        /\ pg.rec \in [Slots -> R \union {NoRecord}] /\ pg.num \in Nat /\ pg.next \in Int
    BY <1>1 DEF PageType
  <2>2. PageFull \in Int
    BY DEF PageFull
  <2>3. (IF pg.num + 1 = PerPage THEN PageFull ELSE pg.next) \in Int
    BY <2>1, <2>2
  <2>4. [pg.rec EXCEPT ![s] = v] \in [Slots -> R \union {NoRecord}]
    BY <2>1
  <2>5. q = [pg EXCEPT !.rec = [pg.rec EXCEPT ![s] = v], !.num = pg.num + 1,
                       !.next = IF pg.num + 1 = PerPage THEN PageFull ELSE pg.next]
    BY <2>1 DEF InsertInto
  <2>6. pg.num + 1 \in Nat
    BY <2>1
  <2> HIDE DEF q
  <2> QED
    BY <2>1, <2>3, <2>4, <2>5, <2>6 DEF PageType
<1> HIDE DEF q
<1>3. UsedSlots(q) = UsedSlots(pg) \union {s}
  BY <1>1, <1>2 DEF UsedSlots, PageType
<1>4. s \notin UsedSlots(pg)
  BY DEF UsedSlots
<1>5. Counted(q)
  BY <1>1, <1>2, <1>3, <1>4, CountTests, FS_AddElement DEF Counted
<1>6. HasRoom(pg) /\ pg.num \in 0 .. PerPage /\ pg.num # PerPage
  BY <1>1, CountTests DEF HasRoom
<1>7. PerPage \in Nat
  BY CatalogConstants
<1>8. pg.next # PageFull
  BY <1>6 DEF PageOK
<1>9. q.next = PageFull <=> q.num = PerPage
  BY <1>2, <1>6, <1>7, <1>8
<1>10. q.next \in D \union {ListEnd, PageFull}
  BY <1>2 DEF PageOK
<1> QED
  BY <1>2, <1>5, <1>6, <1>9, <1>10 DEF PageOK, q

(* Taking a record from a page, which becomes the first with room if it was full. *)
LEMMA DeleteFromOK ==
  ASSUME NEW R, NoRecord \notin R, NEW D, NEW pg, PageOK(pg, R, D),
         NEW s \in Slots, pg.rec[s] # NoRecord,
         NEW ff \in Int, ff \in D \union {ListEnd}, ff # PageFull
  PROVE  /\ PageOK(DeleteFrom(pg, s, ff), R, D)
         /\ DeleteFrom(pg, s, ff).rec = [pg.rec EXCEPT ![s] = NoRecord]
         /\ DeleteFrom(pg, s, ff).num = pg.num - 1
         /\ DeleteFrom(pg, s, ff).num # PerPage
         /\ DeleteFrom(pg, s, ff).next = IF pg.num = PerPage THEN ff ELSE pg.next
<1> DEFINE q == DeleteFrom(pg, s, ff)
<1>1. pg \in PageType(R) /\ Counted(pg)
  BY DEF PageOK
<1>2. pg.num \in 0 .. PerPage /\ pg.num > 0 /\ IsFiniteSet(UsedSlots(pg))
  BY <1>1, CountTests
<1>3. /\ q.rec = [pg.rec EXCEPT ![s] = NoRecord]
      /\ q.num = pg.num - 1
      /\ q.next = IF pg.num = PerPage THEN ff ELSE pg.next
      /\ q \in PageType(R)
  <2>1. /\ pg \in [num : Nat, next : Int, rec : [Slots -> R \union {NoRecord}]]
        /\ pg.rec \in [Slots -> R \union {NoRecord}] /\ pg.num \in Nat /\ pg.next \in Int
    BY <1>1 DEF PageType
  <2>2. ff \in Int /\ pg.num - 1 \in Nat
    <3>1. PerPage \in Nat
      BY CatalogConstants
    <3> QED
      BY <1>2, <3>1
  <2>3. (IF pg.num = PerPage THEN ff ELSE pg.next) \in Int
    BY <2>1, <2>2
  <2>4. [pg.rec EXCEPT ![s] = NoRecord] \in [Slots -> R \union {NoRecord}]
    BY <2>1
  <2>5. q = [pg EXCEPT !.rec = [pg.rec EXCEPT ![s] = NoRecord], !.num = pg.num - 1,
                       !.next = IF pg.num = PerPage THEN ff ELSE pg.next]
    BY <2>1 DEF DeleteFrom
  <2> QED
    BY <2>1, <2>2, <2>3, <2>4, <2>5 DEF PageType
<1> HIDE DEF q
<1>4. UsedSlots(q) = UsedSlots(pg) \ {s}
  BY <1>1, <1>3 DEF UsedSlots, PageType
<1>5. s \in UsedSlots(pg)
  BY DEF UsedSlots
<1>6. Counted(q)
  BY <1>1, <1>2, <1>3, <1>4, <1>5, FS_RemoveElement DEF Counted
<1>7. PerPage \in Nat
  BY CatalogConstants
<1>8. q.num # PerPage /\ q.next # PageFull
  <2> QED
    BY <1>2, <1>3, <1>7 DEF PageOK
<1>9. q.next \in D \union {ListEnd, PageFull}
  <2>1. pg # Hole
    BY HoleParts
  <2> QED
    BY <1>3, <2>1 DEF PageOK
<1> QED
  BY <1>3, <1>6, <1>8, <1>9 DEF PageOK, q

(* Overwriting a record of a page.                                           *)
LEMMA PutAtOK ==
  ASSUME NEW R, NoRecord \notin R, NEW D, NEW pg, PageOK(pg, R, D),
         NEW s \in Slots, pg.rec[s] # NoRecord, NEW v \in R
  PROVE  /\ PageOK(PutAt(pg, s, v), R, D)
         /\ PutAt(pg, s, v).rec = [pg.rec EXCEPT ![s] = v]
         /\ PutAt(pg, s, v).num = pg.num
         /\ PutAt(pg, s, v).next = pg.next
<1> DEFINE q == PutAt(pg, s, v)
<1>1. pg \in PageType(R) /\ Counted(pg)
  BY DEF PageOK
<1>2. /\ q.rec = [pg.rec EXCEPT ![s] = v]
      /\ q.num = pg.num
      /\ q.next = pg.next
      /\ q \in PageType(R)
  BY <1>1 DEF PageType, PutAt
<1> HIDE DEF q
<1>3. UsedSlots(q) = UsedSlots(pg)
  BY <1>1, <1>2 DEF UsedSlots, PageType
<1>4. pg # Hole
  BY HoleParts
<1> QED
  BY <1>1, <1>2, <1>3, <1>4 DEF PageOK, Counted, q

-------------------------------------------------------------------------------
(* Record files.                                                           *)

Get(f, rid) == f.data[PageOf(rid)].rec[SlotOf(rid)]

(* The identifiers of the records of a file.                               *)
Live(f) == {rid \in UNION {{RidOf(p, s) : s \in Slots} : p \in DOMAIN f.data} :
              Get(f, rid) # NoRecord}

FileType(R) == [data : Seq(PageType(R)), header : Int]

Sane(f, R) ==
  /\ f \in FileType(R)
  /\ f.header \in DOMAIN f.data \union {ListEnd}
  /\ \A p \in DOMAIN f.data : PageOK(f.data[p], R, DOMAIN f.data)

(* The free list: it leads to pages with room, and to each once.           *)
Open(f, p) == f.data[p].num # PerPage /\ f.data[p] # Hole
HeadOpen(f) == f.header # ListEnd => Open(f, f.header)
LinksOpen(f) == \A p \in DOMAIN f.data : f.data[p].next \in DOMAIN f.data => Open(f, f.data[p].next)
HeadUnlinked(f) == \A p \in DOMAIN f.data : f.data[p].next \in DOMAIN f.data => f.data[p].next # f.header
LinksUnique(f) ==
  \A p, q \in DOMAIN f.data : f.data[p].next = f.data[q].next /\ f.data[p].next \in DOMAIN f.data => p = q

Shape(f) == HeadOpen(f) /\ LinksOpen(f) /\ HeadUnlinked(f) /\ LinksUnique(f)

(* A file from which nothing was ever deleted.                             *)
Unlinked(f) == \A p \in DOMAIN f.data : f.data[p].next \in {ListEnd, PageFull} \/ f.data[p] = Hole

(* The pages of f lead where they did, and new ones are full.              *)
SameLinks(g, f) ==
  /\ \A p \in DOMAIN f.data : g.data[p].next = f.data[p].next
  /\ \A p \in DOMAIN g.data \ DOMAIN f.data : g.data[p].next = PageFull

(* The parts of a well-formed record file.                                   *)
LEMMA FileFields ==
  ASSUME NEW R, NEW f, Sane(f, R)
  PROVE  /\ f.data \in Seq(PageType(R)) /\ Len(f.data) \in Nat
         /\ DOMAIN f.data = 1 .. Len(f.data) /\ DOMAIN f.data \subseteq Nat
         /\ f = [data |-> f.data, header |-> f.header]
         /\ \A p \in DOMAIN f.data : f.data[p] \in PageType(R)
BY DEF Sane, FileType, PageOK

(* Identifiers of records and the slots they name.                           *)
LEMMA LiveAt ==
  ASSUME NEW f, DOMAIN f.data \subseteq Nat
  PROVE  /\ \A p \in DOMAIN f.data, s \in Slots :
              /\ Get(f, RidOf(p, s)) = f.data[p].rec[s]
              /\ RidOf(p, s) \in Live(f) <=> f.data[p].rec[s] # NoRecord
         /\ \A rid \in Live(f) :
              /\ rid \in Nat /\ PageOf(rid) \in DOMAIN f.data /\ SlotOf(rid) \in Slots
              /\ rid = RidOf(PageOf(rid), SlotOf(rid))
              /\ Get(f, rid) # NoRecord
<1>1. ASSUME NEW p \in DOMAIN f.data, NEW s \in Slots
      PROVE  /\ Get(f, RidOf(p, s)) = f.data[p].rec[s]
             /\ RidOf(p, s) \in Live(f) <=> f.data[p].rec[s] # NoRecord
  <2>1. PageOf(RidOf(p, s)) = p /\ SlotOf(RidOf(p, s)) = s
    BY RidParts
  <2>2. Get(f, RidOf(p, s)) = f.data[p].rec[s]
    BY <2>1 DEF Get
  <2>3. RidOf(p, s) \in UNION {{RidOf(q, t) : t \in Slots} : q \in DOMAIN f.data}
    OBVIOUS
  <2> QED
    BY <2>2, <2>3 DEF Live
<1>2. ASSUME NEW rid \in Live(f)
      PROVE  /\ rid \in Nat /\ PageOf(rid) \in DOMAIN f.data /\ SlotOf(rid) \in Slots
             /\ rid = RidOf(PageOf(rid), SlotOf(rid))
             /\ Get(f, rid) # NoRecord
  <2>1. PICK p \in DOMAIN f.data, s \in Slots : rid = RidOf(p, s)
    BY DEF Live
  <2>2. Get(f, rid) # NoRecord
    BY DEF Live
  <2> QED
    BY <2>1, <2>2, RidParts
<1> QED
  BY <1>1, <1>2

(* Two files that differ in one slot at most.                              *)
LEMMA OneSlot ==
  ASSUME NEW f, NEW g, DOMAIN f.data \subseteq DOMAIN g.data, DOMAIN g.data \subseteq Nat,
         NEW p \in DOMAIN g.data, NEW s \in Slots,
         \A q \in DOMAIN g.data, t \in Slots :
           ~(q = p /\ t = s) =>
             g.data[q].rec[t] = IF q \in DOMAIN f.data THEN f.data[q].rec[t] ELSE NoRecord
  PROVE  /\ \A x : x # RidOf(p, s) =>
              /\ x \in Live(g) <=> x \in Live(f)
              /\ x \in Live(f) => Get(g, x) = Get(f, x)
         /\ RidOf(p, s) \in Live(g) <=> g.data[p].rec[s] # NoRecord
         /\ Get(g, RidOf(p, s)) = g.data[p].rec[s]
<1>1. DOMAIN f.data \subseteq Nat
  OBVIOUS
<1>2. ASSUME NEW x \in Live(f), x # RidOf(p, s)
      PROVE  x \in Live(g) /\ Get(g, x) = Get(f, x)
  <2>1. /\ PageOf(x) \in DOMAIN f.data /\ SlotOf(x) \in Slots
        /\ x = RidOf(PageOf(x), SlotOf(x)) /\ Get(f, x) # NoRecord
    BY <1>1, LiveAt
  <2>2. g.data[PageOf(x)].rec[SlotOf(x)] = f.data[PageOf(x)].rec[SlotOf(x)]
    BY <1>2, <2>1
  <2>3. Get(g, x) = Get(f, x)
    BY <2>2 DEF Get
  <2>4. PageOf(x) \in DOMAIN g.data
    BY <2>1
  <2>5. RidOf(PageOf(x), SlotOf(x)) \in Live(g)
    BY <2>1, <2>3, <2>4, LiveAt DEF Get
  <2> QED
    BY <2>1, <2>3, <2>5
<1>3. ASSUME NEW x \in Live(g), x # RidOf(p, s)
      PROVE  x \in Live(f)
  <2>1. /\ PageOf(x) \in DOMAIN g.data /\ SlotOf(x) \in Slots
        /\ x = RidOf(PageOf(x), SlotOf(x)) /\ Get(g, x) # NoRecord
    BY LiveAt
  <2>2. g.data[PageOf(x)].rec[SlotOf(x)] # NoRecord
    BY <2>1 DEF Get
  <2>3. /\ PageOf(x) \in DOMAIN f.data
        /\ f.data[PageOf(x)].rec[SlotOf(x)] # NoRecord
    BY <1>3, <2>1, <2>2
  <2> QED
    BY <1>1, <2>1, <2>3, LiveAt
<1>4. /\ RidOf(p, s) \in Live(g) <=> g.data[p].rec[s] # NoRecord
      /\ Get(g, RidOf(p, s)) = g.data[p].rec[s]
  BY LiveAt
<1> QED
  BY <1>2, <1>3, <1>4

(* The page InsertRec takes.                                               *)
LEMMA WithPageOK ==
  ASSUME NEW R, NoRecord \notin R, NEW f, Sane(f, R)
  PROVE  /\ Sane(WithPage(f), R)
         /\ WithPage(f).header \in DOMAIN WithPage(f).data
         /\ DOMAIN f.data \subseteq DOMAIN WithPage(f).data
         /\ \A q \in DOMAIN WithPage(f).data, t \in Slots :
              WithPage(f).data[q].rec[t] = IF q \in DOMAIN f.data THEN f.data[q].rec[t] ELSE NoRecord
         /\ WithPage(f).header = IF f.header = ListEnd THEN Len(f.data) + 1 ELSE f.header
         /\ Shape(f) => Shape(WithPage(f)) /\ HasRoom(Target(f)) /\ Target(f) # Hole
         /\ Unlinked(f) => Unlinked(WithPage(f))
         /\ f.header = ListEnd => /\ HasRoom(Target(f)) /\ Target(f) # Hole /\ Target(f).next = ListEnd
                                  /\ \A t \in Slots : Target(f).rec[t] = NoRecord
<1> DEFINE g == WithPage(f)
           n == Len(f.data)
<1>1. /\ f.data \in Seq(PageType(R)) /\ n \in Nat
      /\ DOMAIN f.data = 1 .. n /\ f = [data |-> f.data, header |-> f.header]
      /\ \A p \in DOMAIN f.data : PageOK(f.data[p], R, DOMAIN f.data)
      /\ f.header \in DOMAIN f.data \union {ListEnd}
  BY FileFields DEF Sane
<1>2. PerPage \in Nat \ {0} /\ Slots # {} /\ ListEnd \notin Nat /\ PageFull \notin Nat /\ ListEnd # PageFull
      /\ ListEnd \in Int
  BY CatalogConstants DEF Slots, ListEnd, PageFull
<1>3. CASE f.header # ListEnd
  <2>1. g = f
    BY <1>3 DEF WithPage
  <2>2. Shape(f) => HasRoom(Target(f)) /\ Target(f) # Hole
    <3>1. f.header \in DOMAIN f.data /\ Counted(f.data[f.header])
      BY <1>1, <1>3 DEF PageOK
    <3>2. Shape(f) => f.data[f.header].num # PerPage /\ f.data[f.header] # Hole
      BY <1>3 DEF Shape, HeadOpen, Open
    <3> QED
      BY <2>1, <3>1, <3>2, CountTests DEF Target
  <2> QED
    BY <1>1, <1>3, <2>1, <2>2
<1>4. CASE f.header = ListEnd
  <2>1. g.data = Append(f.data, BlankPage) /\ g.header = n + 1 /\ g = [data |-> g.data, header |-> g.header]
    BY <1>4 DEF WithPage
  <2>2. PageOK(BlankPage, R, 1 .. n + 1) /\ BlankPage.num = 0 /\ BlankPage.next = ListEnd
        /\ BlankPage # Hole /\ \A t \in Slots : BlankPage.rec[t] = NoRecord
    <3>1. BlankPage \in PageType(R)
      BY <1>2 DEF BlankPage, PageType
    <3>2. BlankPage.num = 0 /\ BlankPage.next = ListEnd /\ \A t \in Slots : BlankPage.rec[t] = NoRecord
      BY DEF BlankPage
    <3>3. UsedSlots(BlankPage) = {}
      BY <3>2 DEF UsedSlots
    <3>4. Counted(BlankPage)
      BY <3>2, <3>3, FS_EmptySet DEF Counted
    <3> QED
      BY <1>2, <3>1, <3>2, <3>4, HoleParts DEF PageOK
  <2>3. BlankPage \in PageType(R)
    BY <2>2 DEF PageOK
  <2>4. /\ g.data \in Seq(PageType(R)) /\ DOMAIN g.data = 1 .. n + 1
        /\ \A q \in 1 .. n : g.data[q] = f.data[q]
        /\ g.data[n + 1] = BlankPage
    BY <1>1, <2>1, <2>3
  <2>5. Sane(g, R)
    <3>1. g \in FileType(R)
      BY <1>1, <2>1, <2>4 DEF FileType
    <3>2. \A q \in 1 .. n : PageOK(f.data[q], R, 1 .. n + 1)
      BY <1>1 DEF PageOK
    <3>3. \A q \in 1 .. n + 1 : PageOK(g.data[q], R, 1 .. n + 1)
      <4> SUFFICES ASSUME NEW q \in 1 .. n + 1 PROVE PageOK(g.data[q], R, 1 .. n + 1)
        OBVIOUS
      <4>1. q \in 1 .. n \/ q = n + 1
        BY <1>1
      <4> QED
        BY <2>2, <2>4, <3>2, <4>1
    <3> QED
      BY <1>1, <2>1, <2>4, <3>1, <3>3 DEF Sane
  <2>6. \A q \in DOMAIN g.data : q \in DOMAIN f.data \/ (q = n + 1 /\ q \notin DOMAIN f.data)
    BY <1>1, <2>4
  <2>7. \A q \in DOMAIN g.data, t \in Slots :
          g.data[q].rec[t] = IF q \in DOMAIN f.data THEN f.data[q].rec[t] ELSE NoRecord
    BY <1>1, <2>2, <2>4, <2>6
  <2>8. Target(f) = BlankPage
    BY <2>1, <2>4 DEF Target
  <2>9. HasRoom(BlankPage)
    BY <1>2, <2>2 DEF HasRoom
  <2>10. Shape(f) => Shape(g)
    <3> SUFFICES ASSUME Shape(f) PROVE Shape(g)
      OBVIOUS
    <3>1. \A q \in DOMAIN g.data : g.data[q].next \in DOMAIN g.data =>
             q \in DOMAIN f.data /\ g.data[q] = f.data[q] /\ f.data[q].next \in DOMAIN f.data
      <4> SUFFICES ASSUME NEW q \in DOMAIN g.data, g.data[q].next \in DOMAIN g.data
                   PROVE  q \in DOMAIN f.data /\ g.data[q] = f.data[q] /\ f.data[q].next \in DOMAIN f.data
        OBVIOUS
      <4>1. ListEnd \notin 1 .. n + 1 /\ PageFull \notin 1 .. n + 1 /\ 0 \notin 1 .. n + 1
        BY <1>1, <1>2
      <4>2. q \in DOMAIN f.data
        BY <2>2, <2>4, <2>6, <4>1
      <4>3. g.data[q] = f.data[q] /\ PageOK(f.data[q], R, DOMAIN f.data) /\ f.data[q].next # 0
        BY <1>1, <2>4, <4>1, <4>2
      <4> QED
        BY <2>4, <4>1, <4>2, <4>3, HoleParts DEF PageOK
    <3>2. HeadOpen(g)
      BY <1>2, <2>1, <2>2, <2>4 DEF HeadOpen, Open
    <3>3. LinksOpen(g)
      BY <1>1, <2>4, <3>1 DEF LinksOpen, Open, Shape
    <3>4. HeadUnlinked(g)
      BY <1>1, <2>1, <2>6, <3>1 DEF HeadUnlinked
    <3>5. LinksUnique(g)
      BY <3>1 DEF LinksUnique, Shape
    <3> QED
      BY <3>2, <3>3, <3>4, <3>5 DEF Shape
  <2>11. Unlinked(f) => Unlinked(g)
    BY <1>1, <2>2, <2>4, <2>6 DEF Unlinked
  <2>12. DOMAIN f.data \subseteq DOMAIN g.data /\ g.header \in DOMAIN g.data
    <3>1. 1 .. n \subseteq 1 .. n + 1 /\ n + 1 \in 1 .. n + 1
      BY <1>1
    <3> HIDE DEF n, g
    <3> QED
      BY <1>1, <2>1, <2>4, <3>1
  <2> HIDE DEF g
  <2> QED
    BY <1>4, <2>1, <2>2, <2>5, <2>7, <2>8, <2>9, <2>10, <2>11, <2>12 DEF g
<1> QED
  BY <1>3, <1>4

(* InsertRec of a record file.                                             *)
LEMMA InsertRecOK ==
  ASSUME NEW R, NoRecord \notin R, NEW f, Sane(f, R), HasRoom(Target(f)), Target(f) # Hole, NEW v \in R
  PROVE  /\ Sane(InsertRec(f, v), R)
         /\ DOMAIN f.data \subseteq DOMAIN InsertRec(f, v).data
         /\ NewRid(f) \in Nat /\ NewRid(f) \notin Live(f)
         /\ Live(InsertRec(f, v)) = Live(f) \union {NewRid(f)}
         /\ Get(InsertRec(f, v), NewRid(f)) = v
         /\ \A x \in Live(f) : Get(InsertRec(f, v), x) = Get(f, x)
         /\ Shape(f) => Shape(InsertRec(f, v))
         /\ Shape(f) /\ InsertRec(f, v).header = f.header => SameLinks(InsertRec(f, v), f)
         /\ Unlinked(f) => /\ Unlinked(InsertRec(f, v))
                           /\ NewRid(InsertRec(f, v)) > NewRid(f)
                           /\ HasRoom(Target(InsertRec(f, v))) /\ Target(InsertRec(f, v)) # Hole
<1> DEFINE g == WithPage(f)
           p == g.header
           s == FindAvailableSlot(Target(f))
           pg == g.data[p]
           h == InsertRec(f, v)
<1>1. /\ Sane(g, R) /\ p \in DOMAIN g.data /\ DOMAIN f.data \subseteq DOMAIN g.data
      /\ \A q \in DOMAIN g.data, t \in Slots :
           g.data[q].rec[t] = IF q \in DOMAIN f.data THEN f.data[q].rec[t] ELSE NoRecord
      /\ Shape(f) => Shape(g)
      /\ Unlinked(f) => Unlinked(g)
  BY WithPageOK
<1>2. /\ g.data \in Seq(PageType(R)) /\ DOMAIN g.data \subseteq Nat
      /\ DOMAIN g.data = 1 .. Len(g.data) /\ Len(g.data) \in Nat
  BY <1>1, FileFields
<1>3. s \in Slots /\ pg.rec[s] = NoRecord /\ \A t \in Slots : t < s => pg.rec[t] # NoRecord
  BY SlotFound DEF Target
<1>4. PageOK(pg, R, DOMAIN g.data) /\ pg # Hole
  BY <1>1 DEF Sane, Target
<1>5. /\ h.data = [g.data EXCEPT ![p] = InsertInto(@, s, v)] 
      /\ h.header = FirstFreeAfterInsert(Target(f), p)
      /\ h = [data |-> h.data, header |-> h.header]
      /\ h.data[p] = InsertInto(pg, s, v)
  <2>1. FindAvailableSlot(pg) = s
    BY DEF Target
  <2>2. h.data = [g.data EXCEPT ![p] = InsertInto(@, FindAvailableSlot(@), v)]
        /\ h.header = FirstFreeAfterInsert(Target(f), p)
        /\ h = [data |-> h.data, header |-> h.header]
    BY DEF InsertRec
  <2> QED
    BY <1>1, <2>1, <2>2
<1>6. NewRid(f) = RidOf(p, s)
  BY DEF NewRid
<1>7. /\ PageOK(h.data[p], R, DOMAIN g.data)
      /\ h.data[p].rec = [pg.rec EXCEPT ![s] = v]
      /\ h.data[p].num = pg.num + 1
      /\ h.data[p] # Hole
      /\ pg.num # PerPage
      /\ h.data[p].next = IF pg.num + 1 = PerPage THEN PageFull ELSE pg.next
  <2>1. /\ PageOK(h.data[p], R, DOMAIN g.data)
        /\ h.data[p].rec = [pg.rec EXCEPT ![s] = v]
        /\ h.data[p].num = pg.num + 1
        /\ pg.num # PerPage
        /\ h.data[p].next = IF pg.num + 1 = PerPage THEN PageFull ELSE pg.next
    BY <1>3, <1>4, <1>5, InsertIntoOK
  <2>2. pg.num \in Nat
    BY <1>4 DEF PageOK, PageType
  <2>3. h.data[p].num # 0
    BY <2>1, <2>2
  <2> QED
    BY <2>1, <2>3, HoleParts
<1> HIDE DEF h, g, p, s
<1>8. DOMAIN h.data = DOMAIN g.data /\ \A q \in DOMAIN g.data : q # p => h.data[q] = g.data[q]
  BY <1>5
<1>9. h.data \in Seq(PageType(R))
  <2>1. h.data[p] \in PageType(R)
    BY <1>7 DEF PageOK
  <2>2. \A q \in 1 .. Len(g.data) : h.data[q] \in PageType(R)
    <3>1. \A q \in 1 .. Len(g.data) : g.data[q] \in PageType(R)
      BY <1>2
    <3> QED
      BY <1>2, <1>8, <2>1, <3>1
  <2>3. h.data = [q \in 1 .. Len(g.data) |-> h.data[q]]
    BY <1>2, <1>5
  <2> QED
    BY <1>2, <2>2, <2>3
<1>10. pg.next \in DOMAIN g.data \union {ListEnd}
  BY <1>4, <1>7 DEF PageOK
<1>11. h.header = IF pg.num + 1 = PerPage THEN pg.next ELSE p
  BY <1>5 DEF FirstFreeAfterInsert, Target, g, p
<1>12. Sane(h, R)
  <2>1. h.header \in DOMAIN h.data \union {ListEnd}
    BY <1>1, <1>8, <1>10, <1>11
  <2>2. h.header \in Int
    <3>1. ListEnd \in Int
      BY DEF ListEnd
    <3> QED
      BY <1>2, <1>8, <2>1, <3>1
  <2>3. h \in FileType(R)
    BY <1>5, <1>9, <2>2 DEF FileType
  <2>4. \A q \in DOMAIN h.data : PageOK(h.data[q], R, DOMAIN h.data)
    BY <1>1, <1>7, <1>8 DEF Sane
  <2> QED
    BY <2>1, <2>3, <2>4 DEF Sane
<1>13. /\ pg.rec \in [Slots -> R \union {NoRecord}] /\ v # NoRecord
       /\ h.data[p].rec[s] = v
       /\ \A t \in Slots : t # s => h.data[p].rec[t] = pg.rec[t]
  BY <1>3, <1>4, <1>7 DEF PageOK, PageType
<1>14. /\ \A x : x # RidOf(p, s) =>
            /\ x \in Live(h) <=> x \in Live(f)
            /\ x \in Live(f) => Get(h, x) = Get(f, x)
       /\ RidOf(p, s) \in Live(h) <=> h.data[p].rec[s] # NoRecord
       /\ Get(h, RidOf(p, s)) = h.data[p].rec[s]
  <2>1. \A q \in DOMAIN h.data, t \in Slots :
           ~(q = p /\ t = s) =>
             h.data[q].rec[t] = IF q \in DOMAIN f.data THEN f.data[q].rec[t] ELSE NoRecord
    BY <1>1, <1>8, <1>13
  <2>2. DOMAIN f.data \subseteq DOMAIN h.data /\ DOMAIN h.data \subseteq Nat /\ p \in DOMAIN h.data
    BY <1>1, <1>2, <1>8
  <2>3. s \in Slots
    BY <1>3
  <2> HIDE DEF pg
  <2>4. \A x : x # RidOf(p, s) =>
          /\ x \in Live(h) <=> x \in Live(f)
          /\ x \in Live(f) => Get(h, x) = Get(f, x)
    BY <2>1, <2>2, <2>3, OneSlot
  <2>5. RidOf(p, s) \in Live(h) <=> h.data[p].rec[s] # NoRecord
    BY <2>1, <2>2, <2>3, OneSlot
  <2>6. Get(h, RidOf(p, s)) = h.data[p].rec[s]
    <3>1. PageOf(RidOf(p, s)) = p /\ SlotOf(RidOf(p, s)) = s
      BY <2>2, <2>3, RidParts
    <3> QED
      BY <3>1 DEF Get
  <2> QED
    BY <2>4, <2>5, <2>6
<1>15. RidOf(p, s) \notin Live(f) /\ RidOf(p, s) \in Nat
  <2>1. p \in Nat /\ DOMAIN f.data \subseteq Nat
    BY <1>1, <1>2
  <2>2. CASE p \in DOMAIN f.data
    <3>1. f.data[p].rec[s] = NoRecord
      BY <1>1, <1>3, <2>2
    <3> QED
      BY <1>3, <2>1, <2>2, <3>1, LiveAt, RidParts
  <2>3. CASE p \notin DOMAIN f.data
    BY <1>3, <2>1, <2>3, LiveAt, RidParts
  <2> QED
    BY <2>2, <2>3
<1>16. Live(h) = Live(f) \union {RidOf(p, s)}
  BY <1>13, <1>14
<1>17. ASSUME Shape(f) PROVE Shape(h)
  <2>1. HeadOpen(g) /\ LinksOpen(g) /\ HeadUnlinked(g) /\ LinksUnique(g)
    BY <1>1, <1>17 DEF Shape
  <2>2. \A q \in DOMAIN g.data : h.data[q].next \in DOMAIN g.data => h.data[q].next = g.data[q].next
    <3>1. PageFull \notin DOMAIN g.data
      BY <1>2 DEF PageFull
    <3> QED
      BY <1>7, <1>8, <3>1
  <2>3. \A q \in DOMAIN g.data : g.data[q].next \in DOMAIN g.data => g.data[q].next # p
    BY <2>1 DEF HeadUnlinked, p
  <2>4. \A q \in DOMAIN g.data : q # p => (Open(h, q) <=> Open(g, q))
    BY <1>8 DEF Open
  <2>5. LinksOpen(h)
    BY <1>8, <2>1, <2>2, <2>3, <2>4 DEF LinksOpen
  <2>6. HeadOpen(h)
    <3>1. CASE pg.num + 1 = PerPage
      <4> SUFFICES ASSUME h.header # ListEnd PROVE Open(h, h.header)
        BY DEF HeadOpen
      <4>1. h.header = g.data[p].next /\ h.header \in DOMAIN g.data
        BY <1>10, <1>11, <3>1
      <4> QED
        BY <1>1, <2>1, <2>3, <2>4, <4>1 DEF LinksOpen
    <3>2. CASE pg.num + 1 # PerPage
      BY <1>7, <1>11, <3>2 DEF HeadOpen, Open
    <3> QED
      BY <3>1, <3>2
  <2>7. HeadUnlinked(h)
    <3> SUFFICES ASSUME NEW q \in DOMAIN g.data, h.data[q].next \in DOMAIN g.data
                 PROVE  h.data[q].next # h.header
      BY <1>8 DEF HeadUnlinked
    <3>1. h.data[q].next = g.data[q].next /\ g.data[q].next # p
      BY <2>2, <2>3
    <3>2. CASE pg.num + 1 = PerPage
      <4>1. h.data[p].next = PageFull /\ PageFull \notin DOMAIN g.data
        BY <1>2, <1>7, <3>2 DEF PageFull
      <4>2. q # p
        BY <4>1
      <4> QED
        BY <1>1, <1>11, <2>1, <3>1, <3>2, <4>2 DEF LinksUnique
    <3>3. CASE pg.num + 1 # PerPage
      BY <1>11, <3>1, <3>3
    <3> QED
      BY <3>2, <3>3
  <2>8. LinksUnique(h)
    BY <1>8, <2>1, <2>2 DEF LinksUnique
  <2> QED
    BY <2>5, <2>6, <2>7, <2>8 DEF Shape
<1>18. ASSUME Unlinked(f)
       PROVE  /\ Unlinked(h) /\ HasRoom(Target(h)) /\ Target(h) # Hole
              /\ NewRid(h) > RidOf(p, s)
  <2>1. \A q \in DOMAIN g.data : g.data[q].next \in {ListEnd, PageFull} \/ g.data[q] = Hole
    BY <1>1, <1>18 DEF Unlinked
  <2>2. Unlinked(h)
    BY <1>1, <1>4, <1>7, <1>8, <2>1 DEF Unlinked
  <2>3. pg.next = ListEnd
    <3>1. DOMAIN g.data \subseteq Nat /\ PageFull # ListEnd
      BY <1>2 DEF PageFull, ListEnd
    <3>2. PageFull \notin DOMAIN g.data \union {ListEnd}
      BY <3>1 DEF PageFull
    <3> QED
      BY <1>1, <1>4, <1>10, <2>1, <3>2
  <2>4. CASE pg.num + 1 = PerPage
    <3>1. h.header = ListEnd
      BY <1>11, <2>3, <2>4
    <3>2. HasRoom(Target(h)) /\ Target(h) # Hole /\ WithPage(h).header = Len(h.data) + 1
      BY <1>12, <3>1, WithPageOK
    <3>3. FindAvailableSlot(Target(h)) \in Slots
      BY <3>2, SlotFound
    <3>4. p < Len(h.data) + 1 /\ p \in Nat /\ Len(h.data) + 1 \in Nat
      <4>1. Len(h.data) \in Nat /\ DOMAIN h.data = 1 .. Len(h.data)
        BY <1>12, FileFields
      <4>2. p \in 1 .. Len(h.data)
        BY <1>1, <1>8, <4>1
      <4> QED
        BY <4>1, <4>2
    <3>5. RidOf(p, s) < RidOf(Len(h.data) + 1, FindAvailableSlot(Target(h)))
      BY <1>3, <3>3, <3>4, RidOrder
    <3>6. RidOf(Len(h.data) + 1, FindAvailableSlot(Target(h))) \in Nat
      BY <3>3, <3>4, RidParts
    <3> QED
      BY <1>15, <2>2, <3>2, <3>5, <3>6 DEF NewRid
  <2>5. CASE pg.num + 1 # PerPage
    <3>1. h.header = p /\ p # ListEnd
      <4>1. p \in Nat
        BY <1>1, <1>2
      <4> QED
        BY <1>11, <2>5, <4>1 DEF ListEnd
    <3>2. WithPage(h) = h /\ Target(h) = h.data[p]
      BY <3>1 DEF WithPage, Target
    <3>3. HasRoom(h.data[p])
      <4>1. h.data[p].num # PerPage /\ Counted(h.data[p])
        BY <1>7, <2>5 DEF PageOK
      <4> QED
        BY <4>1, CountTests
    <3>4. FindAvailableSlot(h.data[p]) \in Slots /\ h.data[p].rec[FindAvailableSlot(h.data[p])] = NoRecord
      BY <3>3, SlotFound
    <3>5. s < FindAvailableSlot(h.data[p])
      <4> DEFINE t == FindAvailableSlot(h.data[p])
      <4>1. t # s /\ pg.rec[t] = NoRecord
        BY <1>13, <3>4
      <4>2. ~(t < s)
        BY <1>3, <3>4, <4>1
      <4>3. t \in Int /\ s \in Int
        BY <1>3, <3>4, CatalogConstants DEF Slots
      <4> HIDE DEF t
      <4>4. s < t
        BY <4>1, <4>2, <4>3
      <4> QED
        BY <4>4 DEF t
    <3>6. p \in Nat
      BY <1>1, <1>2
    <3>7. RidOf(p, s) < RidOf(p, FindAvailableSlot(h.data[p])) /\ RidOf(p, FindAvailableSlot(h.data[p])) \in Nat
      BY <1>3, <3>4, <3>5, <3>6, RidOrder, RidParts
    <3> QED
      BY <1>7, <1>15, <2>2, <3>1, <3>2, <3>3, <3>7 DEF NewRid
  <2> QED
    BY <2>4, <2>5
<1>19. DOMAIN f.data \subseteq DOMAIN h.data
  BY <1>1, <1>8
<1>20. /\ Get(h, RidOf(p, s)) = v
       /\ \A x \in Live(f) : Get(h, x) = Get(f, x)
  BY <1>13, <1>14, <1>15
<1>21. ASSUME Shape(f), h.header = f.header PROVE SameLinks(h, f)
  <2>1. HeadUnlinked(g) /\ g.header = p
    BY <1>1, <1>21 DEF Shape, p
  <2>2. \A q \in DOMAIN g.data : q # p => h.data[q].next = g.data[q].next
    BY <1>8
  <2>3. g.header = IF f.header = ListEnd THEN Len(f.data) + 1 ELSE f.header
    BY WithPageOK DEF g
  <2>4. Len(f.data) \in Nat /\ DOMAIN f.data = 1 .. Len(f.data) /\ DOMAIN f.data \subseteq Nat
    BY FileFields
  <2>5. ListEnd \notin Nat /\ ListEnd # PageFull
    BY DEF ListEnd, PageFull
  <2>6. CASE f.header # ListEnd
    <3>1. g = f /\ p = f.header
      BY <2>1, <2>6 DEF WithPage, g
    <3>2. pg.num + 1 # PerPage
      <4> SUFFICES ASSUME pg.num + 1 = PerPage PROVE FALSE
        OBVIOUS
      <4>1. pg.next = p /\ p \in DOMAIN g.data
        BY <1>1, <1>11, <1>21, <3>1
      <4> QED
        BY <2>1, <4>1 DEF HeadUnlinked
    <3>3. h.data[p].next = pg.next
      BY <1>7, <3>2
    <3> HIDE DEF g
    <3> QED
      BY <1>8, <2>2, <3>1, <3>3 DEF SameLinks
  <2>7. CASE f.header = ListEnd
    <3>1. p = Len(f.data) + 1 /\ p # ListEnd /\ p \notin DOMAIN f.data
      BY <2>1, <2>3, <2>4, <2>5, <2>7
    <3>2. pg.num + 1 = PerPage
      BY <1>11, <1>21, <2>7, <3>1
    <3>3. h.data[p].next = PageFull
      BY <1>7, <3>2
    <3>4. g.data = Append(f.data, BlankPage)
      BY <2>7 DEF WithPage, g
    <3>5. DOMAIN g.data = 1 .. Len(f.data) + 1 /\ \A q \in DOMAIN f.data : g.data[q] = f.data[q]
      <4>1. f.data \in Seq(PageType(R))
        BY FileFields
      <4> QED
        BY <2>4, <3>4, <4>1
    <3>6. \A q \in DOMAIN f.data : q # p /\ q \in DOMAIN g.data
      BY <1>1, <3>1
    <3>7. \A q \in DOMAIN h.data \ DOMAIN f.data : q = p
      BY <1>8, <2>4, <3>1, <3>5
    <3> QED
      BY <2>2, <3>3, <3>5, <3>6, <3>7 DEF SameLinks
  <2> QED
    BY <2>6, <2>7
<1> QED
  BY <1>6, <1>12, <1>15, <1>16, <1>17, <1>18, <1>19, <1>20, <1>21 DEF h

(* DeleteRec of a record that is there.                                    *)
LEMMA DeleteRecOK ==
  ASSUME NEW R, NoRecord \notin R, NEW f, Sane(f, R), NEW rid \in Live(f)
  PROVE  /\ Sane(DeleteRec(f, rid), R)
         /\ DOMAIN DeleteRec(f, rid).data = DOMAIN f.data
         /\ Live(DeleteRec(f, rid)) = Live(f) \ {rid}
         /\ \A x \in Live(f) \ {rid} : Get(DeleteRec(f, rid), x) = Get(f, x)
         /\ Shape(f) => Shape(DeleteRec(f, rid))
         /\ Shape(f) /\ DeleteRec(f, rid).header = f.header => SameLinks(DeleteRec(f, rid), f)
<1> DEFINE p == PageOf(rid)
           s == SlotOf(rid)
           pg == f.data[p]
           h == DeleteRec(f, rid)
<1>1. /\ f.data \in Seq(PageType(R)) /\ DOMAIN f.data \subseteq Nat
      /\ DOMAIN f.data = 1 .. Len(f.data) /\ Len(f.data) \in Nat
  BY FileFields
<1>2. /\ p \in DOMAIN f.data /\ s \in Slots /\ rid = RidOf(p, s) /\ pg.rec[s] # NoRecord
  BY <1>1, LiveAt DEF Get
<1>3. PageOK(pg, R, DOMAIN f.data) /\ f.header \in DOMAIN f.data \union {ListEnd}
  BY <1>2 DEF Sane
<1>4. /\ h.data = [f.data EXCEPT ![p] = DeleteFrom(@, s, f.header)]
      /\ h.header = FirstFreeAfterDelete(pg, p, f.header)
      /\ h = [data |-> h.data, header |-> h.header]
      /\ h.data[p] = DeleteFrom(pg, s, f.header)
  BY <1>2 DEF DeleteRec
<1>5. /\ PageOK(h.data[p], R, DOMAIN f.data)
      /\ h.data[p].rec = [pg.rec EXCEPT ![s] = NoRecord]
      /\ h.data[p].num # PerPage /\ h.data[p] # Hole
      /\ h.data[p].next = IF pg.num = PerPage THEN f.header ELSE pg.next
  <2> DEFINE D == DOMAIN f.data
             ff == f.header
  <2>1. PageOK(pg, R, D) /\ ff \in D \union {ListEnd} /\ s \in Slots /\ pg.rec[s] # NoRecord
    BY <1>1, <1>2, <1>3
  <2>4. ff \in Int /\ ff # PageFull
    BY <1>1, <2>1 DEF ListEnd, PageFull
  <2>2. h.data[p] = DeleteFrom(pg, s, ff)
    BY <1>4
  <2> HIDE DEF D, ff, s, pg
  <2>3. /\ PageOK(DeleteFrom(pg, s, ff), R, D)
        /\ DeleteFrom(pg, s, ff).rec = [pg.rec EXCEPT ![s] = NoRecord]
        /\ DeleteFrom(pg, s, ff).num # PerPage
        /\ DeleteFrom(pg, s, ff).next = IF pg.num = PerPage THEN ff ELSE pg.next
    BY <2>1, <2>4, DeleteFromOK
  <2>5. DeleteFrom(pg, s, ff) # Hole
    <3>1. pg # Hole /\ D \subseteq Nat \ {0}
      BY <1>1, <2>1, HoleParts DEF D
    <3>2. pg.next # 0 /\ ff # 0
      BY <2>1, <3>1, HoleParts DEF PageOK
    <3> QED
      BY <2>3, <3>2, HoleParts
  <2> QED
    BY <2>2, <2>3, <2>5 DEF D, ff
<1>6. h.header = IF pg.num = PerPage THEN p ELSE f.header
  BY <1>4 DEF FirstFreeAfterDelete
<1> HIDE DEF h, p, s
<1>7. DOMAIN h.data = DOMAIN f.data /\ \A q \in DOMAIN f.data : q # p => h.data[q] = f.data[q]
  BY <1>4
<1>8. h.data \in Seq(PageType(R))
  <2>1. h.data[p] \in PageType(R)
    BY <1>5 DEF PageOK
  <2>2. \A q \in 1 .. Len(f.data) : h.data[q] \in PageType(R)
    <3>1. \A q \in 1 .. Len(f.data) : f.data[q] \in PageType(R)
      BY <1>1
    <3> QED
      BY <1>1, <1>7, <2>1, <3>1
  <2>3. h.data = [q \in 1 .. Len(f.data) |-> h.data[q]]
    BY <1>1, <1>4
  <2>4. h.data \in [1 .. Len(f.data) -> PageType(R)]
    BY <2>2, <2>3
  <2>5. Len(f.data) \in Nat
    BY <1>1
  <2> QED
    BY <2>4, <2>5
<1>9. Sane(h, R)
  <2>1. h.header \in DOMAIN h.data \union {ListEnd}
    BY <1>2, <1>3, <1>6, <1>7
  <2>2. h.header \in Int
    <3>1. ListEnd \in Int
      BY DEF ListEnd
    <3> QED
      BY <1>1, <1>7, <2>1, <3>1
  <2>3. h \in FileType(R)
    BY <1>4, <1>8, <2>2 DEF FileType
  <2>4. \A q \in DOMAIN h.data : PageOK(h.data[q], R, DOMAIN h.data)
    BY <1>5, <1>7 DEF Sane
  <2> QED
    BY <2>1, <2>3, <2>4 DEF Sane
<1>10. /\ h.data[p].rec[s] = NoRecord
       /\ \A t \in Slots : t # s => h.data[p].rec[t] = pg.rec[t]
  BY <1>2, <1>3, <1>5 DEF PageOK, PageType
<1>11. /\ \A x : x # RidOf(p, s) =>
            /\ x \in Live(h) <=> x \in Live(f)
            /\ x \in Live(f) => Get(h, x) = Get(f, x)
       /\ RidOf(p, s) \in Live(h) <=> h.data[p].rec[s] # NoRecord
       /\ Get(h, RidOf(p, s)) = h.data[p].rec[s]
  <2>1. \A q \in DOMAIN h.data, t \in Slots :
           ~(q = p /\ t = s) =>
             h.data[q].rec[t] = IF q \in DOMAIN f.data THEN f.data[q].rec[t] ELSE NoRecord
    BY <1>7, <1>10
  <2>2. DOMAIN f.data \subseteq DOMAIN h.data /\ DOMAIN h.data \subseteq Nat /\ p \in DOMAIN h.data
    BY <1>1, <1>2, <1>7
  <2>3. s \in Slots
    BY <1>2
  <2> HIDE DEF pg
  <2> QED
    BY <2>1, <2>2, <2>3, OneSlot
<1>12. Live(h) = Live(f) \ {rid}
  BY <1>2, <1>10, <1>11
<1>13. ASSUME Shape(f) PROVE Shape(h)
  <2>1. HeadOpen(f) /\ LinksOpen(f) /\ HeadUnlinked(f) /\ LinksUnique(f)
    BY <1>13 DEF Shape
  <2>2. \A q \in DOMAIN f.data : q # p => (Open(h, q) <=> Open(f, q))
    BY <1>7 DEF Open
  <2>3. Open(h, p)
    BY <1>5 DEF Open
  <2>4. CASE pg.num # PerPage
    <3>1. \A q \in DOMAIN f.data : h.data[q].next = f.data[q].next
      BY <1>5, <1>7, <2>4
    <3>2. h.header = f.header
      BY <1>6, <2>4
    <3>3. \A q \in DOMAIN f.data : Open(f, q) => Open(h, q)
      BY <2>2, <2>3
    <3>4. HeadOpen(h)
      BY <1>3, <2>1, <3>2, <3>3 DEF HeadOpen
    <3>5. LinksOpen(h)
      BY <1>7, <2>1, <3>1, <3>3 DEF LinksOpen
    <3>6. HeadUnlinked(h)
      BY <1>7, <2>1, <3>1, <3>2 DEF HeadUnlinked
    <3>7. LinksUnique(h)
      BY <1>7, <2>1, <3>1 DEF LinksUnique
    <3> QED
      BY <3>4, <3>5, <3>6, <3>7 DEF Shape
  <2>5. CASE pg.num = PerPage
    <3>1. ~Open(f, p) /\ h.header = p /\ h.data[p].next = f.header
      BY <1>5, <1>6, <2>5 DEF Open
    <3>2. \A q \in DOMAIN f.data : f.data[q].next \in DOMAIN f.data => f.data[q].next # p
      BY <2>1, <3>1 DEF LinksOpen
    <3>3. f.header # p
      BY <1>1, <1>2, <2>1, <3>1 DEF HeadOpen, ListEnd
    <3>4. \A q \in DOMAIN f.data : Open(f, q) => Open(h, q)
      BY <2>2, <2>3
    <3>5. \A q \in DOMAIN f.data : h.data[q].next = IF q = p THEN f.header ELSE f.data[q].next
      BY <1>7, <3>1
    <3>6. HeadOpen(h)
      BY <2>3, <3>1 DEF HeadOpen
    <3>7. LinksOpen(h)
      <4>1. f.header \in DOMAIN f.data => Open(f, f.header)
        <5>1. f.header \in DOMAIN f.data => f.header # ListEnd
          BY <1>1 DEF ListEnd
        <5> QED
          BY <2>1, <5>1 DEF HeadOpen
      <4> QED
        BY <1>7, <2>1, <3>4, <3>5, <4>1 DEF LinksOpen
    <3>8. HeadUnlinked(h)
      BY <1>7, <3>1, <3>2, <3>3, <3>5 DEF HeadUnlinked
    <3>9. LinksUnique(h)
      BY <1>7, <2>1, <3>5 DEF LinksUnique, HeadUnlinked
    <3> QED
      BY <3>6, <3>7, <3>8, <3>9 DEF Shape
  <2> QED
    BY <2>4, <2>5
<1>14. \A x \in Live(f) \ {rid} : Get(h, x) = Get(f, x)
  BY <1>2, <1>11
<1>15. ASSUME Shape(f), h.header = f.header PROVE SameLinks(h, f)
  <2>1. pg.num # PerPage
    <3> SUFFICES ASSUME pg.num = PerPage PROVE FALSE
      OBVIOUS
    <3>1. f.header = p /\ p # ListEnd
      BY <1>1, <1>2, <1>6, <1>15 DEF ListEnd
    <3> QED
      BY <1>15, <3>1 DEF Shape, HeadOpen, Open
  <2> QED
    BY <1>5, <1>7, <2>1 DEF SameLinks
<1> QED
  BY <1>7, <1>9, <1>12, <1>13, <1>14, <1>15 DEF h

(* UpdateRec of a record that is there.                                    *)
LEMMA UpdateRecOK ==
  ASSUME NEW R, NoRecord \notin R, NEW f, Sane(f, R), NEW rid \in Live(f), NEW v \in R
  PROVE  /\ Sane(UpdateRec(f, rid, v), R)
         /\ DOMAIN UpdateRec(f, rid, v).data = DOMAIN f.data
         /\ UpdateRec(f, rid, v).header = f.header
         /\ Live(UpdateRec(f, rid, v)) = Live(f)
         /\ Get(UpdateRec(f, rid, v), rid) = v
         /\ \A x \in Live(f) \ {rid} : Get(UpdateRec(f, rid, v), x) = Get(f, x)
         /\ Shape(f) => Shape(UpdateRec(f, rid, v))
         /\ Unlinked(f) => Unlinked(UpdateRec(f, rid, v))
         /\ SameLinks(UpdateRec(f, rid, v), f)
<1> DEFINE p == PageOf(rid)
           s == SlotOf(rid)
           pg == f.data[p]
           h == UpdateRec(f, rid, v)
<1>1. /\ f.data \in Seq(PageType(R)) /\ DOMAIN f.data \subseteq Nat
      /\ DOMAIN f.data = 1 .. Len(f.data) /\ Len(f.data) \in Nat
      /\ f = [data |-> f.data, header |-> f.header]
  BY FileFields
<1>2. /\ p \in DOMAIN f.data /\ s \in Slots /\ rid = RidOf(p, s) /\ pg.rec[s] # NoRecord
  BY <1>1, LiveAt DEF Get
<1>3. PageOK(pg, R, DOMAIN f.data) /\ f.header \in DOMAIN f.data \union {ListEnd} /\ f \in FileType(R)
  BY <1>2 DEF Sane
<1>4. /\ h.data = [f.data EXCEPT ![p] = PutAt(@, s, v)]
      /\ h.header = f.header
      /\ h = [data |-> h.data, header |-> h.header]
      /\ h.data[p] = PutAt(pg, s, v)
  <2>1. PICK w, z : w = PutAt(pg, s, v) /\ z = [f.data EXCEPT ![p] = w]
    OBVIOUS
  <2>2. h = [f EXCEPT !.data = z]
    BY <2>1 DEF UpdateRec
  <2>3. h = [data |-> z, header |-> f.header]
    BY <1>1, <2>2
  <2>4. z[p] = w
    BY <1>2, <2>1
  <2> HIDE DEF h, p, s, pg
  <2>5. h.data = z /\ h.header = f.header /\ h = [data |-> h.data, header |-> h.header]
    BY <2>3
  <2> QED
    BY <2>1, <2>4, <2>5 DEF pg
<1>5. /\ PageOK(h.data[p], R, DOMAIN f.data)
      /\ h.data[p].rec = [pg.rec EXCEPT ![s] = v]
      /\ h.data[p].num = pg.num
      /\ h.data[p].next = pg.next
  BY <1>2, <1>3, <1>4, PutAtOK
<1> HIDE DEF h, p, s
<1>7. DOMAIN h.data = DOMAIN f.data /\ \A q \in DOMAIN f.data : q # p => h.data[q] = f.data[q]
  BY <1>4
<1>8. h.data \in Seq(PageType(R))
  <2>1. h.data[p] \in PageType(R)
    BY <1>5 DEF PageOK
  <2>2. \A q \in 1 .. Len(f.data) : h.data[q] \in PageType(R)
    <3>1. \A q \in 1 .. Len(f.data) : f.data[q] \in PageType(R)
      BY <1>1
    <3> QED
      BY <1>1, <1>7, <2>1, <3>1
  <2>3. h.data = [q \in 1 .. Len(f.data) |-> h.data[q]]
    BY <1>1, <1>4
  <2>4. h.data \in [1 .. Len(f.data) -> PageType(R)]
    BY <2>2, <2>3
  <2>5. Len(f.data) \in Nat
    BY <1>1
  <2> QED
    BY <2>4, <2>5
<1>9. Sane(h, R)
  <2>1. h.header \in Int
    BY <1>3, <1>4 DEF FileType
  <2>2. h \in FileType(R)
    BY <1>4, <1>8, <2>1 DEF FileType
  <2>3. \A q \in DOMAIN h.data : PageOK(h.data[q], R, DOMAIN h.data)
    BY <1>5, <1>7 DEF Sane
  <2> QED
    BY <1>3, <1>4, <1>7, <2>2, <2>3 DEF Sane
<1>10. /\ h.data[p].rec[s] = v /\ v # NoRecord
       /\ \A t \in Slots : t # s => h.data[p].rec[t] = pg.rec[t]
  BY <1>2, <1>3, <1>5 DEF PageOK, PageType
<1>11. /\ \A x : x # RidOf(p, s) =>
            /\ x \in Live(h) <=> x \in Live(f)
            /\ x \in Live(f) => Get(h, x) = Get(f, x)
       /\ RidOf(p, s) \in Live(h) <=> h.data[p].rec[s] # NoRecord
       /\ Get(h, RidOf(p, s)) = h.data[p].rec[s]
  <2>1. \A q \in DOMAIN h.data, t \in Slots :
           ~(q = p /\ t = s) =>
             h.data[q].rec[t] = IF q \in DOMAIN f.data THEN f.data[q].rec[t] ELSE NoRecord
    BY <1>7, <1>10
  <2>2. DOMAIN f.data \subseteq DOMAIN h.data /\ DOMAIN h.data \subseteq Nat /\ p \in DOMAIN h.data
    BY <1>1, <1>2, <1>7
  <2>3. s \in Slots
    BY <1>2
  <2> HIDE DEF pg
  <2> QED
    BY <2>1, <2>2, <2>3, OneSlot
<1>12. Live(h) = Live(f) /\ Get(h, rid) = v
  BY <1>2, <1>10, <1>11
<1>13. \A q \in DOMAIN f.data : /\ h.data[q].next = f.data[q].next /\ h.data[q].num = f.data[q].num
                                /\ h.data[q] = Hole <=> f.data[q] = Hole
  <2>1. h.data[p] # Hole /\ f.data[p] # Hole
    BY <1>2, <1>10, HoleParts
  <2> QED
    BY <1>5, <1>7, <2>1
<1>14. Shape(f) => Shape(h)
  <2> SUFFICES ASSUME HeadOpen(f), LinksOpen(f), HeadUnlinked(f), LinksUnique(f)
               PROVE  HeadOpen(h) /\ LinksOpen(h) /\ HeadUnlinked(h) /\ LinksUnique(h)
    BY DEF Shape
  <2>1. HeadOpen(h)
    BY <1>3, <1>4, <1>13 DEF HeadOpen, Open
  <2>2. LinksOpen(h)
    BY <1>7, <1>13 DEF LinksOpen, Open
  <2>3. HeadUnlinked(h)
    BY <1>4, <1>7, <1>13 DEF HeadUnlinked
  <2>4. LinksUnique(h)
    BY <1>7, <1>13 DEF LinksUnique
  <2> QED
    BY <2>1, <2>2, <2>3, <2>4
<1>15. Unlinked(f) => Unlinked(h)
  BY <1>7, <1>13 DEF Unlinked
<1>16. \A x \in Live(f) \ {rid} : Get(h, x) = Get(f, x)
  BY <1>2, <1>11
<1>17. SameLinks(h, f)
  BY <1>7, <1>13 DEF SameLinks
<1> QED
  BY <1>4, <1>7, <1>9, <1>12, <1>14, <1>15, <1>16, <1>17 DEF h

-------------------------------------------------------------------------------
(* Sets of numbers in order.                                               *)

Rank(S, x) == Cardinality({y \in S : y < x})

(* The ranks of the members of a finite set of numbers are 0, 1, ...         *)
LEMMA RankOK ==
  ASSUME NEW S, IsFiniteSet(S), S \subseteq Nat
  PROVE  /\ Cardinality(S) \in Nat
         /\ \A x \in S : Rank(S, x) \in 0 .. Cardinality(S) - 1
         /\ \A x, y \in S : x < y => Rank(S, x) < Rank(S, y)
         /\ \A k \in 0 .. Cardinality(S) - 1 : \E x \in S : Rank(S, x) = k
<1> DEFINE n == Cardinality(S)
           Below(x) == {y \in S : y < x}
           rank == [x \in S |-> Rank(S, x)]
<1>1. n \in Nat
  BY FS_CardinalityType
<1>2. \A x \in S : IsFiniteSet(Below(x)) /\ Rank(S, x) = Cardinality(Below(x)) /\ Rank(S, x) \in 0 .. n - 1
  <2> TAKE x \in S
  <2>1. Below(x) \in SUBSET S /\ Below(x) # S
    <3>1. ~(x < x)
      OBVIOUS
    <3> QED
      BY <3>1
  <2>2. Rank(S, x) = Cardinality(Below(x))
    BY DEF Rank
  <2>3. IsFiniteSet(Below(x)) /\ Cardinality(Below(x)) <= n /\ Cardinality(Below(x)) # n
    <3> HIDE DEF Below
    <3> QED
      BY <2>1, FS_Subset
  <2>4. Cardinality(Below(x)) \in Nat
    BY <2>3, FS_CardinalityType
  <2> QED
    BY <1>1, <2>2, <2>3, <2>4
<1>3. ASSUME NEW x \in S, NEW y \in S, x < y PROVE Rank(S, x) < Rank(S, y)
  <2>1. Below(x) \in SUBSET Below(y) /\ Below(x) # Below(y)
    <3>1. x \in Below(y) /\ x \notin Below(x)
      BY <1>3
    <3>2. \A z \in S : z < x => z < y
      BY <1>3
    <3> QED
      BY <3>1, <3>2
  <2>2. /\ Cardinality(Below(x)) <= Cardinality(Below(y))
        /\ Cardinality(Below(x)) # Cardinality(Below(y))
        /\ Cardinality(Below(x)) \in Nat /\ Cardinality(Below(y)) \in Nat
    <3> HIDE DEF Below
    <3> QED
      BY <1>2, <2>1, FS_Subset, FS_CardinalityType
  <2> QED
    BY <1>2, <2>2
<1>4. rank \in Injection(S, 0 .. n - 1)
  <2>1. rank \in [S -> 0 .. n - 1]
    BY <1>2
  <2>2. \A x, y \in S : rank[x] = rank[y] => x = y
    <3> SUFFICES ASSUME NEW x \in S, NEW y \in S, x # y PROVE rank[x] # rank[y]
      OBVIOUS
    <3>1. x < y \/ y < x
      OBVIOUS
    <3>2. rank[x] \in Int /\ rank[y] \in Int /\ rank[x] = Rank(S, x) /\ rank[y] = Rank(S, y)
      <4>1. rank[x] = Rank(S, x) /\ rank[y] = Rank(S, y)
        OBVIOUS
      <4>2. Rank(S, x) \in 0 .. n - 1 /\ Rank(S, y) \in 0 .. n - 1
        BY <1>2
      <4> HIDE DEF rank, n
      <4> QED
        BY <1>1, <4>1, <4>2
    <3> QED
      BY <1>3, <3>1, <3>2
  <2> HIDE DEF rank
  <2> QED
    BY <2>1, <2>2 DEF Injection, IsInjective
<1>5. IsFiniteSet(0 .. n - 1) /\ Cardinality(0 .. n - 1) = n
  <2>1. 0 \in Int /\ n - 1 \in Int
    BY <1>1
  <2>2. IsFiniteSet(0 .. n - 1) /\ Cardinality(0 .. n - 1) = IF 0 > n - 1 THEN 0 ELSE n - 1 - 0 + 1
    <3> HIDE DEF n
    <3> QED
      BY <2>1, FS_Interval
  <2> QED
    BY <1>1, <2>2
<1>6. rank \in Surjection(S, 0 .. n - 1)
  <2> HIDE DEF rank
  <2> QED
    BY <1>4, <1>5, FS_Injection
<1>7. ASSUME NEW k \in 0 .. n - 1 PROVE \E x \in S : Rank(S, x) = k
  <2>1. \E x \in S : rank[x] = k
    <3> HIDE DEF rank
    <3> QED
      BY <1>6 DEF Surjection
  <2> QED
    BY <2>1
<1> QED
  BY <1>1, <1>2, <1>3, <1>7

(* InOrder lists the members of a finite set of numbers, each once, ascending. *)
LEMMA InOrderOK ==
  ASSUME NEW S, IsFiniteSet(S), S \subseteq Nat
  PROVE  /\ Cardinality(S) \in Nat
         /\ InOrder(S) \in [1 .. Cardinality(S) -> S]
         /\ \A x \in S : \E i \in 1 .. Cardinality(S) : InOrder(S)[i] = x
         /\ \A i, j \in 1 .. Cardinality(S) : i < j => InOrder(S)[i] < InOrder(S)[j]
<1> DEFINE n == Cardinality(S)
           q == InOrder(S)
<1>1. /\ n \in Nat
      /\ \A x \in S : Rank(S, x) \in 0 .. n - 1
      /\ \A x, y \in S : x < y => Rank(S, x) < Rank(S, y)
      /\ \A k \in 0 .. n - 1 : \E x \in S : Rank(S, x) = k
  BY RankOK
<1>2. q = [i \in 1 .. n |-> CHOOSE x \in S : Rank(S, x) = i - 1]
  BY DEF InOrder, Rank
<1> HIDE DEF n, q
<1>3. ASSUME NEW i \in 1 .. n PROVE q[i] \in S /\ Rank(S, q[i]) = i - 1
  <2>1. i - 1 \in 0 .. n - 1
    BY <1>1
  <2>2. \E x \in S : Rank(S, x) = i - 1
    BY <1>1, <2>1
  <2> QED
    BY <1>2, <2>2
<1>4. q \in [1 .. n -> S]
  BY <1>2, <1>3
<1>5. ASSUME NEW i \in 1 .. n, NEW j \in 1 .. n, i < j PROVE q[i] < q[j]
  <2>1. q[i] \in Nat /\ q[j] \in Nat /\ Rank(S, q[i]) < Rank(S, q[j]) /\ Rank(S, q[i]) \in Int /\ Rank(S, q[j]) \in Int
    <3>1. q[i] \in S /\ Rank(S, q[i]) = i - 1 /\ q[j] \in S /\ Rank(S, q[j]) = j - 1
      BY <1>3
    <3>2. i \in Int /\ j \in Int
      BY <1>1
    <3>3. i - 1 < j - 1 /\ i - 1 \in Int /\ j - 1 \in Int
      BY <1>5, <3>2
    <3>4. q[i] \in Nat /\ q[j] \in Nat
      BY <3>1
    <3> QED
      BY <3>1, <3>3, <3>4
  <2>2. ~(q[j] < q[i]) /\ q[i] # q[j]
    <3>1. q[j] < q[i] => Rank(S, q[j]) < Rank(S, q[i])
      BY <1>1, <1>3
    <3> QED
      BY <2>1, <3>1
  <2> QED
    BY <2>1, <2>2
<1>6. ASSUME NEW x \in S PROVE \E i \in 1 .. n : q[i] = x
  <2> DEFINE i == Rank(S, x) + 1
  <2>1. i \in 1 .. n /\ i - 1 = Rank(S, x)
    BY <1>1
  <2> HIDE DEF i
  <2>2. q[i] \in S /\ Rank(S, q[i]) = Rank(S, x) /\ Rank(S, x) \in Int
    BY <1>1, <1>3, <2>1
  <2>3. x \in Nat /\ q[i] \in Nat
    BY <2>2
  <2>4. ~(x < q[i]) /\ ~(q[i] < x)
    <3>1. x < q[i] => Rank(S, x) < Rank(S, q[i])
      BY <1>1, <2>2
    <3>2. q[i] < x => Rank(S, q[i]) < Rank(S, x)
      BY <1>1, <2>2
    <3> QED
      BY <2>2, <3>1, <3>2
  <2>5. q[i] = x
    BY <2>3, <2>4
  <2> QED
    BY <2>1, <2>5
<1> QED
  BY <1>1, <1>4, <1>5, <1>6 DEF n, q

(* Numbers that ascend are in order already.                               *)
LEMMA AscendingInOrder ==
  ASSUME NEW n \in Nat, NEW q \in [1 .. n -> Nat],
         \A i, j \in 1 .. n : i < j => q[i] < q[j]
  PROVE  /\ IsFiniteSet({q[i] : i \in 1 .. n})
         /\ Cardinality({q[i] : i \in 1 .. n}) = n
         /\ InOrder({q[i] : i \in 1 .. n}) = q
<1> DEFINE S == {q[i] : i \in 1 .. n}
<1>1. \A i, j \in 1 .. n : q[i] = q[j] => i = j
  <2> SUFFICES ASSUME NEW i \in 1 .. n, NEW j \in 1 .. n, i # j PROVE q[i] # q[j]
    OBVIOUS
  <2>1. i < j \/ j < i
    OBVIOUS
  <2>2. q[i] \in Nat /\ q[j] \in Nat
    OBVIOUS
  <2> QED
    BY <2>1, <2>2
<1>2. q \in Bijection(1 .. n, S)
  <2>1. q \in [1 .. n -> S]
    OBVIOUS
  <2>2. \A y \in S : \E i \in 1 .. n : q[i] = y
    OBVIOUS
  <2> HIDE DEF S
  <2> QED
    BY <1>1, <2>1, <2>2 DEF Bijection, Injection, Surjection, IsInjective
<1>3. IsFiniteSet(1 .. n) /\ Cardinality(1 .. n) = n
  BY FS_Interval
<1>4. IsFiniteSet(S) /\ Cardinality(S) = n
  <2> HIDE DEF S
  <2> QED
    BY <1>2, <1>3, FS_Bijection DEF ExistsBijection
<1>5. S \subseteq Nat
  OBVIOUS
<1> HIDE DEF S
<1> DEFINE r == InOrder(S)
<1>6. /\ r \in [1 .. n -> S]
      /\ \A x \in S : \E i \in 1 .. n : r[i] = x
      /\ \A i, j \in 1 .. n : i < j => r[i] < r[j]
  BY <1>4, <1>5, InOrderOK
<1> HIDE DEF r
<1>7. ASSUME \E i \in 1 .. n : r[i] # q[i] PROVE FALSE
  <2> DEFINE T == {i \in 1 .. n : r[i] # q[i]}
  <2>1. T # {} /\ T \subseteq Nat
    BY <1>7
  <2> HIDE DEF T
  <2>2. PICK k \in T : \A i \in T : k <= i
    BY <2>1, LeastMember
  <2>3. k \in 1 .. n /\ r[k] # q[k] /\ \A i \in 1 .. n : i < k => r[i] = q[i]
    <3>1. k \in 1 .. n /\ r[k] # q[k]
      BY DEF T
    <3>2. \A i \in 1 .. n : i < k => ~(k <= i)
      BY <3>1
    <3> QED
      BY <2>2, <3>1, <3>2 DEF T
  <2>4. r[k] \in Nat /\ q[k] \in Nat /\ r[k] \in S /\ q[k] \in S
    BY <1>5, <1>6, <2>3 DEF S
  <2>5. ~(r[k] < q[k])
    <3> SUFFICES ASSUME r[k] < q[k] PROVE FALSE
      OBVIOUS
    <3>1. PICK i \in 1 .. n : q[i] = r[k]
      BY <2>4 DEF S
    <3>2. i < k
      <4>1. ~(k < i) /\ k # i
        <5>1. k < i => q[k] < q[i]
          BY <2>3
        <5> QED
          BY <2>4, <3>1, <5>1
      <4> QED
        BY <2>3, <4>1
    <3>3. r[i] = r[k] /\ r[i] < r[k]
      BY <1>6, <2>3, <3>1, <3>2
    <3> QED
      BY <2>4, <3>3
  <2>6. ~(q[k] < r[k])
    <3> SUFFICES ASSUME q[k] < r[k] PROVE FALSE
      OBVIOUS
    <3>1. PICK i \in 1 .. n : r[i] = q[k]
      BY <1>6, <2>4
    <3>2. i < k
      <4>1. ~(k < i) /\ k # i
        <5>1. k < i => r[k] < r[i]
          BY <1>6, <2>3
        <5> QED
          BY <2>4, <3>1, <5>1
      <4> QED
        BY <2>3, <4>1
    <3>3. q[i] = q[k] /\ q[i] < q[k]
      BY <2>3, <3>1, <3>2
    <3> QED
      BY <2>4, <3>3
  <2> QED
    BY <2>3, <2>4, <2>5, <2>6
<1>8. r = q
  BY <1>6, <1>7
<1> QED
  BY <1>4, <1>8 DEF r, S

-------------------------------------------------------------------------------
(* The four files.                                                         *)

AllFiles   == {"relcat", "attrcat", "relIndex", "attrIndex"}
IndexFiles == {"relIndex", "attrIndex"}
RecordOf   == [relcat |-> RelRecord, attrcat |-> AttrRecord]
IndexType  == [data : SUBSET (Names \X Nat), header : Int]

FilesOK(m) ==
  /\ m = [f \in AllFiles |-> m[f]]
  /\ \A c \in RecordFiles : Sane(m[c], RecordOf[c])
  /\ \A c \in IndexFiles : m[c] \in IndexType /\ IsFiniteSet(m[c].data)

(* The pages on disk are among those in memory.                            *)
Within(d, m) == \A c \in RecordFiles : DOMAIN d[c].data \subseteq DOMAIN m[c].data

(* The records of a relation in a catalog, and the entries for it in an    *)
(* index.                                                                  *)
Of(f, rel) == {rid \in Live(f) : Get(f, rid).rel = rel}
EntriesFor(f, rel) == {e[2] : e \in {x \in f.data : x[1] = rel}}

(* The names of the four files and the types of their records.               *)
LEMMA Names4 ==
  /\ IndexOf["relcat"] = "relIndex" /\ IndexOf["attrcat"] = "attrIndex"
  /\ AllFiles = RecordFiles \union IndexFiles
  /\ \A c \in RecordFiles : IndexOf[c] \in IndexFiles /\ c \notin IndexFiles /\ c \in AllFiles
  /\ RecordOf["relcat"] = RelRecord /\ RecordOf["attrcat"] = AttrRecord
  /\ \A c \in RecordFiles : NoRecord \notin RecordOf[c]
BY CatalogConstants DEF IndexOf, AllFiles, RecordFiles, IndexFiles, RecordOf

(* Quotient and remainder give the number back.                              *)
LEMMA DivisionBack ==
  ASSUME NEW N \in Nat \ {0}, NEW r \in Nat
  PROVE  r \div N \in Nat /\ r % N \in 0 .. N - 1 /\ (r \div N) * N + (r % N) = r
OBVIOUS

(* What the tests of the code read.                                        *)
LEMMA ReadsRecords ==
  ASSUME NEW c \in RecordFiles, FilesOK(mem)
  PROVE  /\ \A rid \in Nat : IsRec(c, rid) <=> rid \in Live(mem[c])
         /\ \A rid : Rec(c, rid) = Get(mem[c], rid)
         /\ \A rel : RidsWith(c, rel) = Of(mem[c], rel)
         /\ Live(mem[c]) \subseteq Nat
         /\ \A rid \in Live(mem[c]) : Get(mem[c], rid) \in RecordOf[c]
<1>1. /\ Sane(mem[c], RecordOf[c])
      /\ DOMAIN mem[c].data \subseteq Nat
      /\ \A p \in DOMAIN mem[c].data : mem[c].data[p] \in PageType(RecordOf[c])
  BY FileFields DEF FilesOK
<1>2. ASSUME NEW rid \in Nat PROVE IsRec(c, rid) <=> rid \in Live(mem[c])
  <2>1. PerPage \in Nat \ {0}
    BY CatalogConstants
  <2>2. PageOf(rid) \in Nat /\ SlotOf(rid) \in Slots /\ RidOf(PageOf(rid), SlotOf(rid)) = rid
    BY <2>1, DivisionBack DEF PageOf, SlotOf, Slots, RidOf
  <2>3. IsRec(c, rid) <=> PageOf(rid) \in DOMAIN mem[c].data /\ mem[c].data[PageOf(rid)].rec[SlotOf(rid)] # NoRecord
    BY DEF IsRec
  <2> QED
    BY <1>1, <2>2, <2>3, LiveAt
<1>3. \A rid : Rec(c, rid) = Get(mem[c], rid)
  BY DEF Rec, Get
<1>4. Live(mem[c]) \subseteq Nat
  BY <1>1, LiveAt
<1>5. ASSUME NEW rid \in Live(mem[c]) PROVE Get(mem[c], rid) \in RecordOf[c]
  <2>1. PageOf(rid) \in DOMAIN mem[c].data /\ SlotOf(rid) \in Slots /\ Get(mem[c], rid) # NoRecord
    BY <1>1, LiveAt
  <2>2. mem[c].data[PageOf(rid)].rec \in [Slots -> RecordOf[c] \union {NoRecord}]
    BY <1>1, <2>1 DEF PageType
  <2>3. Get(mem[c], rid) \in RecordOf[c] \union {NoRecord}
    BY <2>1, <2>2 DEF Get
  <2> QED
    BY <2>1, <2>3
<1>6. ASSUME NEW rel PROVE RidsWith(c, rel) = Of(mem[c], rel)
  <2> DEFINE U == UNION {{RidOf(p, s) : s \in Slots} : p \in DOMAIN mem[c].data}
  <2>1. \A rid \in U : rid \in Nat
    BY <1>1, RidParts
  <2>2. Live(mem[c]) = {rid \in U : Get(mem[c], rid) # NoRecord}
    BY DEF Live
  <2>3. RidsWith(c, rel) = {rid \in U : IsRec(c, rid) /\ Rec(c, rid).rel = rel}
    BY DEF RidsWith
  <2> HIDE DEF U
  <2> QED
    BY <1>2, <1>3, <2>1, <2>2, <2>3 DEF Of
<1> QED
  BY <1>2, <1>3, <1>4, <1>5, <1>6

(* Lookup lists the entries of a relation, each once, ascending.             *)
LEMMA LooksUp ==
  ASSUME NEW c \in RecordFiles, FilesOK(mem), NEW rel
  PROVE  LET S == EntriesFor(mem[IndexOf[c]], rel)
             n == Cardinality(S)
             q == Lookup(c, rel)
         IN  /\ n \in Nat /\ IsFiniteSet(S) /\ S \subseteq Nat
             /\ q = InOrder(S) /\ q \in [1 .. n -> S] /\ Len(q) = n /\ DOMAIN q = 1 .. n
             /\ q \in Seq(S)
             /\ \A x \in S : \E i \in 1 .. n : q[i] = x
             /\ \A i, j \in 1 .. n : i < j => q[i] < q[j]
             /\ ToSet(q) = S
<1> DEFINE S == EntriesFor(mem[IndexOf[c]], rel)
           n == Cardinality(S)
           q == Lookup(c, rel)
           E == {x \in mem[IndexOf[c]].data : x[1] = rel}
<1>1. mem[IndexOf[c]].data \subseteq Names \X Nat /\ IsFiniteSet(mem[IndexOf[c]].data)
  BY Names4 DEF FilesOK, IndexType
<1>2. IsFiniteSet(E) /\ E \subseteq Names \X Nat
  BY <1>1, FS_Subset
<1>3. S \subseteq Nat
  BY <1>2 DEF EntriesFor
<1>4. IsFiniteSet(S)
  <2> DEFINE g == [e \in E |-> e[2]]
  <2>1. g \in Surjection(E, S)
    <3>1. g \in [E -> S]
      BY DEF EntriesFor
    <3>2. \A y \in S : \E e \in E : g[e] = y
      BY DEF EntriesFor
    <3> HIDE DEF g, S, E
    <3> QED
      BY <3>1, <3>2 DEF Surjection
  <2> HIDE DEF g, S, E
  <2> QED
    BY <1>2, <2>1, FS_Surjection
<1>5. q = InOrder(S)
  BY DEF Lookup, EntriesFor
<1> HIDE DEF S, q, n
<1>6. /\ n \in Nat /\ q \in [1 .. n -> S]
      /\ \A x \in S : \E i \in 1 .. n : q[i] = x
      /\ \A i, j \in 1 .. n : i < j => q[i] < q[j]
  BY <1>3, <1>4, <1>5, InOrderOK DEF n
<1>7. Len(q) = n /\ DOMAIN q = 1 .. n /\ q \in Seq(S)
  BY <1>6
<1>8. ToSet(q) = S
  BY <1>6, <1>7 DEF ToSet
<1> QED
  BY <1>3, <1>4, <1>5, <1>6, <1>7, <1>8 DEF S, q, n

-------------------------------------------------------------------------------
(* What the files say of a relation: its records in a catalog, as a function *)
(* of their identifiers, its files, and the attributes said to have an index. *)

View(f, rel) == [rid \in Of(f, rel) |-> Get(f, rid)]
Rels(rel)  == View(mem["relcat"], rel)
Attrs(rel) == View(mem["attrcat"], rel)

IndexedOf(rel) == {x[2] : x \in {y \in indexed : y[1] = rel}}

WithIndex(g) == {rid \in DOMAIN g : g[rid].indexNo # -1}
FilesAt(rel, g, S) == {<<rel, g[rid].indexNo>> : rid \in S}
AttrsAt(g, S) == {g[rid].attr : rid \in S}

(* The record h of a table with n attributes, at r, has counted cnt indexes. *)
Table(h, rel, n, r, cnt) == h = [rid \in {r} |-> [rel |-> rel, attrCount |-> n, indexCount |-> cnt]]

(* The records g are those of the first m attributes of D, at rho.           *)
Described(g, D, rho, m) ==
  /\ rho \in [1 .. m -> DOMAIN g]
  /\ \A i, j \in 1 .. m : rho[i] = rho[j] => i = j
  /\ \A rid \in DOMAIN g : \E i \in 1 .. m : rho[i] = rid
  /\ \A i \in 1 .. m : g[rho[i]].attr = D[i] /\ g[rho[i]].offset = i

Ascending(rho, m) == \A i, j \in 1 .. m : i < j => rho[i] < rho[j]

(* No two attributes have the same index.                                    *)
Distinct(g) == \A p, q \in WithIndex(g) : g[p].indexNo = g[q].indexNo => p = q

(* The numbers of the indexes of S are distinct and have been counted.       *)
Numbers(g, S, cnt) ==
  \A p \in S : g[p].indexNo < cnt /\ \A q \in S : g[p].indexNo = g[q].indexNo => p = q

(* A relation that has been declared as D: its records g and h, its files F  *)
(* and its indexed attributes I.                                             *)
Known(rel, D, g, h, F, I, inOrder) ==
  \E r \in DOMAIN h, rho \in [1 .. Len(D) -> DOMAIN g] :
    /\ Table(h, rel, Len(D), r, h[r].indexCount)
    /\ Described(g, D, rho, Len(D))
    /\ inOrder => Ascending(rho, Len(D))
    /\ Numbers(g, WithIndex(g), h[r].indexCount)
    /\ F = {<<rel>>} \union FilesAt(rel, g, WithIndex(g))
    /\ I = AttrsAt(g, WithIndex(g))

Consistent(rel) == \A c \in RecordFiles : EntriesFor(mem[IndexOf[c]], rel) = Of(mem[c], rel)

AgreeOn(f, rel) ==
  IF f \in RecordFiles THEN View(mem[f], rel) = View(disk[f], rel)
  ELSE EntriesFor(mem[f], rel) = EntriesFor(disk[f], rel)

Contents(rel) ==
  IF rel \notin DOMAIN declared
  THEN DOMAIN Rels(rel) = {} /\ DOMAIN Attrs(rel) = {} /\ FilesOf(rel) = {} /\ IndexedOf(rel) = {}
  ELSE Known(rel, declared[rel], Attrs(rel), Rels(rel), FilesOf(rel), IndexedOf(rel), ~dropped)

(* A relation between statements.                                            *)
Settled(rel) == Consistent(rel) /\ (\A f \in AllFiles : AgreeOn(f, rel)) /\ Contents(rel)

-------------------------------------------------------------------------------
(* A relation in the course of a statement, of which the first k of N items  *)
(* have been done.                                                           *)

Remaining(P, N, k) == stmt.todo = [j \in 1 .. N - k |-> P[j + k]]

FlushOrder == <<"relcat", "attrcat", "relIndex", "attrIndex">>
Flushing(f) == [do |-> "force", file |-> f]
NewAttr(rel, D, i) == [rel |-> rel, attr |-> D[i], offset |-> i, indexNo |-> -1]
NewRel(rel, D) == [rel |-> rel, attrCount |-> Len(D), indexCount |-> 0]

CreatePlan(rel, D) ==
  [i \in 1 .. Len(D) + 6 |->
     IF i <= Len(D) THEN [do |-> "insert", file |-> "attrcat", rec |-> NewAttr(rel, D, i)]
     ELSE IF i = Len(D) + 1 THEN [do |-> "insert", file |-> "relcat", rec |-> NewRel(rel, D)]
     ELSE IF i = Len(D) + 6 THEN [do |-> "create", file |-> <<rel>>]
     ELSE Flushing(FlushOrder[i - (Len(D) + 1)])]

FlushedUpTo(k, n, rel) == \A j \in 1 .. 4 : k >= n + j => AgreeOn(FlushOrder[j], rel)

(* The attributes inserted so far have ascending identifiers, and the next   *)
(* one will have a greater one.                                              *)
InsertsAscend(rho, m, k, n) ==
  /\ Ascending(rho, m)
  /\ 0 < k /\ k <= n => /\ HasRoom(Target(mem["attrcat"])) /\ Target(mem["attrcat"]) # Hole
                        /\ NewRid(mem["attrcat"]) > rho[k]

Creating(rel, D, k) ==
  LET n == Len(D)
      m == IF k < n THEN k ELSE n
      g == Attrs(rel)
      h == Rels(rel)
  IN  /\ Remaining(CreatePlan(rel, D), n + 6, k)
      /\ rel \notin DOMAIN declared /\ IndexedOf(rel) = {}
      /\ \E rho \in [1 .. m -> DOMAIN g] :
           Described(g, D, rho, m) /\ (~dropped => InsertsAscend(rho, m, k, n))
      /\ WithIndex(g) = {}
      /\ IF k <= n THEN DOMAIN h = {} ELSE \E r \in DOMAIN h : Table(h, rel, n, r, 0)
      /\ FilesOf(rel) = IF k < n + 6 THEN {} ELSE {<<rel>>}
      /\ FlushedUpTo(k, n + 1, rel)

DropPlan(rel, r, rids) ==
  [i \in 1 .. Len(rids) + 6 |->
     IF i = 1 THEN [do |-> "dropRel", rid |-> r]
     ELSE IF i = 2 THEN [do |-> "destroy", file |-> <<rel>>]
     ELSE IF i <= Len(rids) + 2 THEN [do |-> "dropAttr", rid |-> rids[i - 2]]
     ELSE Flushing(FlushOrder[i - (Len(rids) + 2)])]

Left(rids, k) == {rids[j] : j \in {i \in 1 .. Len(rids) : i + 2 > k}}

Dropping(rel, r, rids, k) ==
  LET g == Attrs(rel)
  IN  /\ Remaining(DropPlan(rel, r, rids), Len(rids) + 6, k)
      /\ rel \in DOMAIN declared
      /\ \A i, j \in 1 .. Len(rids) : rids[i] = rids[j] => i = j
      /\ DOMAIN Rels(rel) = IF k = 0 THEN {r} ELSE {}
      /\ DOMAIN g = Left(rids, k)
      /\ Distinct(g)
      /\ FilesOf(rel) = (IF k < 2 THEN {<<rel>>} ELSE {}) \union FilesAt(rel, g, WithIndex(g))
      /\ FlushedUpTo(k, Len(rids) + 2, rel)

IndexPlan(rel, attr, r, a, n, o, cnt) ==
  <<[do |-> "create", file |-> <<rel, cnt>>], [do |-> "open"],
    [do |-> "update", file |-> "relcat", rid |-> r,
     rec |-> [rel |-> rel, attrCount |-> n, indexCount |-> cnt + 1]],
    [do |-> "update", file |-> "attrcat", rid |-> a,
     rec |-> [rel |-> rel, attr |-> attr, offset |-> o, indexNo |-> cnt]],
    Flushing("relcat"), Flushing("attrcat")>>

DropIndexPlan(rel, attr, a, o, x) ==
  <<[do |-> "destroy", file |-> <<rel, x>>],
    [do |-> "update", file |-> "attrcat", rid |-> a,
     rec |-> [rel |-> rel, attr |-> attr, offset |-> o, indexNo |-> -1]],
    Flushing("attrcat")>>

(* A table of which the index of the attribute at a is made or dropped; the  *)
(* other attributes with an index are S.                                     *)
Altered(rel, D, r, a, attr, o, x, cnt, S) ==
  LET g == Attrs(rel)
  IN  /\ Table(Rels(rel), rel, Len(D), r, cnt)
      /\ \E rho \in [1 .. Len(D) -> DOMAIN g] :
           Described(g, D, rho, Len(D)) /\ (~dropped => Ascending(rho, Len(D)))
      /\ a \in DOMAIN g /\ g[a] = [rel |-> rel, attr |-> attr, offset |-> o, indexNo |-> x]
      /\ S = WithIndex(g) \ {a}
      /\ Numbers(g, S, cnt)
      /\ rel \in DOMAIN declared /\ declared[rel] = D

IndexingAt(rel, attr, k, D, r, a, o, cnt, S) ==
  /\ Remaining(IndexPlan(rel, attr, r, a, Len(D), o, cnt), 6, k)
  /\ Altered(rel, D, r, a, attr, o, IF k < 4 THEN -1 ELSE cnt, IF k < 3 THEN cnt ELSE cnt + 1, S)
  /\ \A q \in S : Attrs(rel)[q].indexNo < cnt
  /\ FilesOf(rel) = {<<rel>>} \union FilesAt(rel, Attrs(rel), S) \union (IF k < 1 THEN {} ELSE {<<rel, cnt>>})
  /\ IndexedOf(rel) = AttrsAt(Attrs(rel), S)
  /\ \A f \in IndexFiles : AgreeOn(f, rel)
  /\ k >= 5 => AgreeOn("relcat", rel)
  /\ k >= 6 => AgreeOn("attrcat", rel)

Indexing(rel, attr, k) ==
  \E D \in Declarations, r, a, o, cnt \in Nat : \E S \in SUBSET Nat : IndexingAt(rel, attr, k, D, r, a, o, cnt, S)

UnindexingAt(rel, attr, k, D, r, a, o, x, cnt, S) ==
  /\ Remaining(DropIndexPlan(rel, attr, a, o, x), 3, k)
  /\ Altered(rel, D, r, a, attr, o, IF k < 2 THEN x ELSE -1, cnt, S)
  /\ x < cnt /\ \A q \in S : Attrs(rel)[q].indexNo # x
  /\ FilesOf(rel) = {<<rel>>} \union FilesAt(rel, Attrs(rel), S) \union (IF k < 1 THEN {<<rel, x>>} ELSE {})
  /\ IndexedOf(rel) = AttrsAt(Attrs(rel), S) \union {attr}
  /\ attr \notin AttrsAt(Attrs(rel), S)
  /\ \A f \in IndexFiles \union {"relcat"} : AgreeOn(f, rel)
  /\ k >= 3 => AgreeOn("attrcat", rel)

Unindexing(rel, attr, k) ==
  \E D \in Declarations, r, a, o, x, cnt \in Nat : \E S \in SUBSET Nat :
    UnindexingAt(rel, attr, k, D, r, a, o, x, cnt, S)

InStatement(rel) ==
  /\ Consistent(rel)
  /\ \/ /\ stmt.type = "createTable"
        /\ \E k \in 0 .. Len(stmt.attrs) + 6 : Creating(rel, stmt.attrs, k)
     \/ /\ stmt.type = "dropTable"
        /\ \E r \in Nat, rids \in Seq(Nat) : \E k \in 0 .. Len(rids) + 6 : Dropping(rel, r, rids, k)
     \/ /\ stmt.type = "createIndex"
        /\ \E k \in 0 .. 6 : Indexing(rel, stmt.attr, k)
     \/ /\ stmt.type = "dropIndex"
        /\ \E k \in 0 .. 3 : Unindexing(rel, stmt.attr, k)

(* What is left of a statement, whatever the relation.                       *)
ItemOK(j) ==
  LET it == stmt.todo[j]
  IN  \/ /\ it.do = "insert" /\ it.file \in RecordFiles
         /\ it.rec \in RecordOf[it.file] /\ it.rec.rel = stmt.rel
      \/ /\ it.do = "update" /\ it.file \in RecordFiles /\ stmt.type # "dropTable"
         /\ it.rid \in Live(mem[it.file]) /\ it.rec \in RecordOf[it.file]
         /\ it.rec.rel = Get(mem[it.file], it.rid).rel
      \/ it.do = "dropRel" /\ j = 1 /\ stmt.type = "dropTable" /\ it.rid \in Live(mem["relcat"])
      \/ it.do = "dropAttr" /\ stmt.type = "dropTable" /\ it.rid \in Nat
      \/ it.do = "force" /\ it.file \in AllFiles
      \/ it.do = "create" /\ it.file[1] = stmt.rel
      \/ it.do = "destroy" /\ it.file[1] = stmt.rel /\ stmt.type # "createTable"
      \/ it.do = "open"

StmtForm ==
  \/ stmt = [type |-> "createTable", rel |-> stmt.rel, attrs |-> stmt.attrs, todo |-> stmt.todo]
     /\ stmt.attrs \in Declarations
  \/ stmt = [type |-> "dropTable", rel |-> stmt.rel, todo |-> stmt.todo] /\ dropped
  \/ \E what \in {"createIndex", "dropIndex"} :
       stmt = [type |-> what, rel |-> stmt.rel, attr |-> stmt.attr, todo |-> stmt.todo]
       /\ stmt.attr \in Attributes

StmtOK ==
  \/ stmt = Idle
  \/ /\ stmt # Idle
     /\ StmtForm
     /\ stmt.rel \in Names
     /\ \E n \in Nat : stmt.todo = [j \in 1 .. n |-> stmt.todo[j]] /\ \A j \in 1 .. n : ItemOK(j)

HistoryOK ==
  /\ DOMAIN declared \subseteq Names /\ \A r \in DOMAIN declared : declared[r] \in Declarations
  /\ indexed \subseteq Names \X Attributes
  /\ dropped \in BOOLEAN
  /\ headers \in {"saved", "moved", "stale"}

(* The pages of d, of which some may be older than those of m, lead where    *)
(* those lead, or are holes where m has a full page; the new ones are full.  *)
Near(d, m) ==
  /\ \A p \in DOMAIN d.data :
       \/ d.data[p].next = m.data[p].next
       \/ d.data[p] = Hole /\ m.data[p].next = PageFull
  /\ \A p \in DOMAIN m.data \ DOMAIN d.data : m.data[p].next = PageFull

HeadersOK ==
  \A c \in RecordFiles :
    /\ headers # "stale" => Shape(mem[c])
    /\ headers = "saved" => mem[c].header = disk[c].header /\ Near(disk[c], mem[c])
    /\ ~dropped => Unlinked(mem[c]) /\ Unlinked(disk[c])

LogOK == LogFile \notin broken => <<LogFile>> \in files /\ LogFile \notin DOMAIN declared

RelationsOK ==
  db = "open" => \A rel \in Names \ broken :
    IF stmt # Idle /\ stmt.rel = rel THEN InStatement(rel) ELSE Settled(rel)

Inv ==
  /\ FilesOK(mem) /\ FilesOK(disk)
  /\ Within(disk, mem)
  /\ StmtOK /\ HistoryOK /\ HeadersOK /\ LogOK /\ RelationsOK
  /\ FailsOnlyWhenBroken

-------------------------------------------------------------------------------
(* How the edits of a file change what it says of a relation.                *)

(* The record with identifier x becomes v, or is added.                      *)
Put(g, x, v) == [y \in DOMAIN g \union {x} |-> IF y = x THEN v ELSE g[y]]
Without(g, x) == [y \in DOMAIN g \ {x} |-> g[y]]

(* What a view is.                                                           *)
LEMMA ViewParts ==
  ASSUME NEW f, NEW rel
  PROVE  /\ DOMAIN View(f, rel) = Of(f, rel)
         /\ \A x \in Of(f, rel) : View(f, rel)[x] = Get(f, x)
BY DEF View

(* Two files with the same records of a relation have the same view of it.   *)
LEMMA ViewsEqual ==
  ASSUME NEW f, NEW g, NEW rel, Of(f, rel) = Of(g, rel),
         \A x \in Of(f, rel) : Get(f, x) = Get(g, x)
  PROVE  View(f, rel) = View(g, rel)
BY DEF View

(* What is said of a relation depends on the pages only, not on the header.  *)
LEMMA SameData ==
  ASSUME NEW f, NEW g, f.data = g.data
  PROVE  /\ Live(f) = Live(g)
         /\ \A x : Get(f, x) = Get(g, x)
         /\ \A rel : View(f, rel) = View(g, rel) /\ Of(f, rel) = Of(g, rel)
         /\ \A rel : EntriesFor(f, rel) = EntriesFor(g, rel)
<1>1. \A x : Get(f, x) = Get(g, x)
  BY DEF Get
<1>2. Live(f) = Live(g)
  BY <1>1 DEF Live
<1>3. \A rel : Of(f, rel) = Of(g, rel)
  BY <1>1, <1>2 DEF Of
<1>4. \A rel : View(f, rel) = View(g, rel)
  BY <1>1, <1>3 DEF View
<1> QED
  BY <1>1, <1>2, <1>3, <1>4 DEF EntriesFor

(* An insertion adds to the view of the record's relation, and to no other.  *)
LEMMA ViewInsert ==
  ASSUME NEW R, NoRecord \notin R, NEW f, Sane(f, R), HasRoom(Target(f)), Target(f) # Hole, NEW v \in R
  PROVE  /\ \A rel : rel # v.rel => View(InsertRec(f, v), rel) = View(f, rel)
         /\ View(InsertRec(f, v), v.rel) = Put(View(f, v.rel), NewRid(f), v)
<1> DEFINE g == InsertRec(f, v)
           x == NewRid(f)
<1>1. /\ Live(g) = Live(f) \union {x} /\ Get(g, x) = v /\ x \notin Live(f)
      /\ \A y \in Live(f) : Get(g, y) = Get(f, y)
  BY InsertRecOK
<1> HIDE DEF g, x
<1>2. ASSUME NEW rel, rel # v.rel PROVE View(g, rel) = View(f, rel)
  <2>1. Of(g, rel) = Of(f, rel)
    BY <1>1, <1>2 DEF Of
  <2>2. \A y \in Of(g, rel) : Get(g, y) = Get(f, y)
    BY <1>1, <2>1 DEF Of
  <2> QED
    BY <2>1, <2>2, ViewsEqual
<1>3. Of(g, v.rel) = Of(f, v.rel) \union {x}
  BY <1>1 DEF Of
<1>4. \A y \in Of(f, v.rel) : Get(g, y) = Get(f, y) /\ y # x
  BY <1>1 DEF Of
<1>5. View(g, v.rel) = Put(View(f, v.rel), x, v)
  BY <1>1, <1>3, <1>4 DEF View, Put
<1> QED
  BY <1>2, <1>5 DEF g, x

(* A deletion takes from the view of the record's relation, and from no other. *)
LEMMA ViewDelete ==
  ASSUME NEW R, NoRecord \notin R, NEW f, Sane(f, R), NEW x \in Live(f)
  PROVE  /\ \A rel : rel # Get(f, x).rel => View(DeleteRec(f, x), rel) = View(f, rel)
         /\ View(DeleteRec(f, x), Get(f, x).rel) = Without(View(f, Get(f, x).rel), x)
<1> DEFINE g == DeleteRec(f, x)
           v == Get(f, x)
<1>1. Live(g) = Live(f) \ {x} /\ \A y \in Live(f) \ {x} : Get(g, y) = Get(f, y)
  BY DeleteRecOK
<1> HIDE DEF g
<1>2. ASSUME NEW rel, rel # v.rel PROVE View(g, rel) = View(f, rel)
  <2>1. Of(g, rel) = Of(f, rel)
    BY <1>1, <1>2 DEF Of
  <2>2. \A y \in Of(g, rel) : Get(g, y) = Get(f, y)
    BY <1>1 DEF Of
  <2> QED
    BY <2>1, <2>2, ViewsEqual
<1> HIDE DEF v
<1>3. Of(g, v.rel) = Of(f, v.rel) \ {x}
  BY <1>1 DEF Of
<1>4. \A y \in Of(g, v.rel) : Get(g, y) = Get(f, y)
  BY <1>1 DEF Of
<1>5. View(g, v.rel) = Without(View(f, v.rel), x)
  BY <1>3, <1>4 DEF View, Without
<1> QED
  BY <1>2, <1>5 DEF g, v

(* An update changes the view of the record's relation, and of no other.     *)
LEMMA ViewUpdate ==
  ASSUME NEW R, NoRecord \notin R, NEW f, Sane(f, R), NEW x \in Live(f),
         NEW v \in R, v.rel = Get(f, x).rel
  PROVE  /\ \A rel : rel # v.rel => View(UpdateRec(f, x, v), rel) = View(f, rel)
         /\ View(UpdateRec(f, x, v), v.rel) = Put(View(f, v.rel), x, v)
         /\ x \in Of(f, v.rel)
<1> DEFINE g == UpdateRec(f, x, v)
<1>1. /\ Live(g) = Live(f) /\ Get(g, x) = v
      /\ \A y \in Live(f) \ {x} : Get(g, y) = Get(f, y)
  BY UpdateRecOK
<1> HIDE DEF g
<1>2. \A rel : Of(g, rel) = Of(f, rel)
  BY <1>1 DEF Of
<1>3. ASSUME NEW rel, rel # v.rel PROVE View(g, rel) = View(f, rel)
  <2>1. \A y \in Of(g, rel) : Get(g, y) = Get(f, y)
    BY <1>1, <1>3 DEF Of
  <2> QED
    BY <1>2, <2>1, ViewsEqual
<1>4. x \in Of(f, v.rel)
  BY DEF Of
<1>5. \A y \in Of(f, v.rel) : Get(g, y) = IF y = x THEN v ELSE Get(f, y)
  BY <1>1 DEF Of
<1>6. View(g, v.rel) = Put(View(f, v.rel), x, v)
  BY <1>2, <1>4, <1>5 DEF View, Put
<1> QED
  BY <1>3, <1>4, <1>6 DEF g

-------------------------------------------------------------------------------
(* The four files after an edit of one catalog, g, and of its index, whose   *)
(* entries become X.                                                         *)

Edited(m2, m, c, g, X) ==
  /\ m2 = [f \in AllFiles |-> m2[f]]
  /\ m2[c] = g
  /\ m2[IndexOf[c]] = [m[IndexOf[c]] EXCEPT !.data = X]
  /\ \A f \in AllFiles \ {c, IndexOf[c]} : m2[f] = m[f]

(* What a step leaves of all relations but those of T.                       *)
Elsewhere(m2, m, T) ==
  \A rel : rel \notin T =>
    /\ \A c \in RecordFiles : View(m2[c], rel) = View(m[c], rel)
    /\ \A i \in IndexFiles : EntriesFor(m2[i], rel) = EntriesFor(m[i], rel)

(* The files are well formed after an edit that leaves its catalog so.       *)
LEMMA EditedOK ==
  ASSUME NEW m, FilesOK(m), NEW c \in RecordFiles, NEW m2, NEW g, NEW X, Edited(m2, m, c, g, X),
         Sane(g, RecordOf[c]), X \subseteq Names \X Nat, IsFiniteSet(X)
  PROVE  /\ FilesOK(m2)
         /\ m2[IndexOf[c]].data = X
<1>1. /\ IndexOf[c] \in IndexFiles /\ c \notin IndexFiles /\ c \in AllFiles
      /\ RecordFiles \subseteq AllFiles /\ IndexFiles \subseteq AllFiles
  BY Names4
<1>2. \A d \in RecordFiles : d \notin IndexFiles
  BY Names4
<1>3. ASSUME NEW d \in RecordFiles PROVE Sane(m2[d], RecordOf[d])
  <2>1. CASE d = c
    BY <2>1 DEF Edited
  <2>2. CASE d # c
    BY <1>1, <1>2, <2>2 DEF Edited, FilesOK
  <2> QED
    BY <2>1, <2>2
<1>4. m[IndexOf[c]] \in IndexType
  BY <1>1 DEF FilesOK
<1>5. /\ m2[IndexOf[c]].data = X
      /\ m2[IndexOf[c]] \in IndexType
  BY <1>4 DEF IndexType, Edited
<1>6. ASSUME NEW i \in IndexFiles PROVE m2[i] \in IndexType /\ IsFiniteSet(m2[i].data)
  <2>1. CASE i = IndexOf[c]
    BY <1>5, <2>1
  <2>2. CASE i # IndexOf[c]
    BY <1>1, <1>2, <2>2 DEF Edited, FilesOK
  <2> QED
    BY <2>1, <2>2
<1>7. m2 = [f \in AllFiles |-> m2[f]]
  BY DEF Edited
<1> QED
  BY <1>3, <1>5, <1>6, <1>7 DEF FilesOK

(* Relations other than T are as before when the edits of the catalog and of *)
(* its index are of T only.                                                  *)
LEMMA EditedElsewhere ==
  ASSUME NEW m, NEW c \in RecordFiles, NEW m2, NEW g, NEW X, Edited(m2, m, c, g, X),
         m[IndexOf[c]] \in IndexType, NEW T,
         \A rel : rel \notin T => View(g, rel) = View(m[c], rel),
         \A e : e[1] \notin T => (e \in X <=> e \in m[IndexOf[c]].data)
  PROVE  Elsewhere(m2, m, T)
<1>1. /\ IndexOf[c] \in IndexFiles /\ c \notin IndexFiles /\ c \in AllFiles
      /\ RecordFiles \subseteq AllFiles /\ IndexFiles \subseteq AllFiles
  BY Names4
<1>2. \A d \in RecordFiles : d \notin IndexFiles
  BY Names4
<1>3. m2[IndexOf[c]].data = X
  BY DEF IndexType, Edited
<1> SUFFICES ASSUME NEW rel, rel \notin T
             PROVE  /\ \A d \in RecordFiles : View(m2[d], rel) = View(m[d], rel)
                    /\ \A i \in IndexFiles : EntriesFor(m2[i], rel) = EntriesFor(m[i], rel)
  BY DEF Elsewhere
<1>4. ASSUME NEW d \in RecordFiles PROVE View(m2[d], rel) = View(m[d], rel)
  <2>1. CASE d = c
    BY <2>1 DEF Edited
  <2>2. CASE d # c
    <3>1. m2[d] = m[d]
      BY <1>1, <1>2, <2>2 DEF Edited
    <3> QED
      BY <3>1
  <2> QED
    BY <2>1, <2>2
<1>5. ASSUME NEW i \in IndexFiles PROVE EntriesFor(m2[i], rel) = EntriesFor(m[i], rel)
  <2>1. CASE i = IndexOf[c]
    <3>1. {x \in m2[i].data : x[1] = rel} = {x \in m[i].data : x[1] = rel}
      BY <1>3, <2>1
    <3> QED
      BY <3>1 DEF EntriesFor
  <2>2. CASE i # IndexOf[c]
    <3>1. m2[i] = m[i]
      BY <1>1, <1>2, <2>2 DEF Edited
    <3> QED
      BY <3>1
  <2> QED
    BY <2>1, <2>2
<1> QED
  BY <1>4, <1>5

(* The entries of a relation after one of them has been removed.             *)
LEMMA EntryRemoved ==
  ASSUME NEW f, f.data \subseteq Names \X Nat, NEW g, NEW rel, NEW x, g.data = f.data \ {<<rel, x>>}
  PROVE  EntriesFor(g, rel) = EntriesFor(f, rel) \ {x}
<1>1. ASSUME NEW y \in EntriesFor(g, rel) PROVE y \in EntriesFor(f, rel) \ {x}
  <2>1. PICK e \in f.data : e # <<rel, x>> /\ e[1] = rel /\ e[2] = y
    BY DEF EntriesFor
  <2>2. e = <<e[1], e[2]>>
    OBVIOUS
  <2>3. y # x
    BY <2>1, <2>2
  <2> QED
    BY <2>1, <2>3 DEF EntriesFor
<1>2. ASSUME NEW y \in EntriesFor(f, rel) \ {x} PROVE y \in EntriesFor(g, rel)
  BY <1>2 DEF EntriesFor
<1> QED
  BY <1>1, <1>2

(* No page is lost and the free lists stay in order, and the links as they   *)
(* are when the header is; no link is made; no record is lost or changes     *)
(* hands.                                                                    *)
Keeps(m2, m) ==
  \A d \in RecordFiles : /\ DOMAIN m[d].data \subseteq DOMAIN m2[d].data
                         /\ Shape(m[d]) => Shape(m2[d])
                         /\ Shape(m[d]) /\ m2[d].header = m[d].header => SameLinks(m2[d], m[d])
KeepsUnlinked(m2, m) == \A d \in RecordFiles : Unlinked(m[d]) => Unlinked(m2[d])
KeepsRelations(m2, m) ==
  \A d \in RecordFiles : \A x \in Live(m[d]) : x \in Live(m2[d]) /\ Get(m2[d], x).rel = Get(m[d], x).rel

(* An edit keeps of the files what it keeps of its catalog.                  *)
LEMMA EditedKeeps ==
  ASSUME NEW m, NEW c \in RecordFiles, NEW m2, NEW g, NEW X, Edited(m2, m, c, g, X)
  PROVE  /\ (/\ DOMAIN m[c].data \subseteq DOMAIN g.data /\ (Shape(m[c]) => Shape(g))
             /\ Shape(m[c]) /\ g.header = m[c].header => SameLinks(g, m[c])) => Keeps(m2, m)
         /\ (Unlinked(m[c]) => Unlinked(g)) => KeepsUnlinked(m2, m)
         /\ (\A x \in Live(m[c]) : x \in Live(g) /\ Get(g, x).rel = Get(m[c], x).rel) => KeepsRelations(m2, m)
<1>1. \A d \in RecordFiles : m2[d] = IF d = c THEN g ELSE m[d]
  <2>1. \A d \in RecordFiles : d \in AllFiles /\ d # IndexOf[c]
    BY Names4
  <2> QED
    BY <2>1 DEF Edited
<1>2. \A d \in RecordFiles : SameLinks(m[d], m[d])
  BY DEF SameLinks
<1> QED
  BY <1>1, <1>2 DEF Keeps, KeepsUnlinked, KeepsRelations

(* A record of a catalog is of one of the relations.                         *)
LEMMA RecordRel ==
  ASSUME NEW c \in RecordFiles, NEW v \in RecordOf[c]
  PROVE  v.rel \in Names
<1>1. CASE c = "relcat"
  BY <1>1, Names4 DEF RelRecord
<1>2. CASE c = "attrcat"
  BY <1>2, Names4 DEF AttrRecord
<1> QED
  BY <1>1, <1>2 DEF RecordFiles

(* The types of a catalog and of its index.                                  *)
LEMMA IndexData ==
  ASSUME NEW m, FilesOK(m), NEW c \in RecordFiles
  PROVE  /\ m[IndexOf[c]] \in IndexType
         /\ m[IndexOf[c]].data \subseteq Names \X Nat
         /\ IsFiniteSet(m[IndexOf[c]].data)
         /\ Sane(m[c], RecordOf[c]) /\ NoRecord \notin RecordOf[c]
BY Names4 DEF FilesOK, IndexType

(* The files after an insertion.                                             *)
LEMMA InsertStep ==
  ASSUME NEW m, FilesOK(m), NEW c \in RecordFiles, NEW v \in RecordOf[c], HasRoom(Target(m[c])),
         Target(m[c]) # Hole,
         NEW m2, NEW X, X = m[IndexOf[c]].data \/ X = m[IndexOf[c]].data \union {<<v.rel, NewRid(m[c])>>},
         Edited(m2, m, c, InsertRec(m[c], v), X)
  PROVE  /\ FilesOK(m2) /\ m2[IndexOf[c]].data = X
         /\ Elsewhere(m2, m, {v.rel})
         /\ Keeps(m2, m) /\ KeepsUnlinked(m2, m) /\ KeepsRelations(m2, m)
<1> DEFINE g == InsertRec(m[c], v)
           x == NewRid(m[c])
           old == m[IndexOf[c]].data
<1>1. /\ m[IndexOf[c]] \in IndexType /\ old \subseteq Names \X Nat /\ IsFiniteSet(old)
      /\ Sane(m[c], RecordOf[c]) /\ NoRecord \notin RecordOf[c]
  BY IndexData
<1>2. /\ Sane(g, RecordOf[c]) /\ DOMAIN m[c].data \subseteq DOMAIN g.data
      /\ x \in Nat /\ Live(g) = Live(m[c]) \union {x}
      /\ \A y \in Live(m[c]) : Get(g, y) = Get(m[c], y)
      /\ Shape(m[c]) => Shape(g)
      /\ Shape(m[c]) /\ g.header = m[c].header => SameLinks(g, m[c])
      /\ Unlinked(m[c]) => Unlinked(g)
  BY <1>1, InsertRecOK
<1>3. \A rel : rel # v.rel => View(g, rel) = View(m[c], rel)
  BY <1>1, ViewInsert
<1> HIDE DEF g, x
<1>4. v.rel \in Names
  BY RecordRel
<1>5. X \subseteq Names \X Nat /\ IsFiniteSet(X)
  <2>1. CASE X = old
    BY <1>1, <2>1
  <2>2. CASE X = old \union {<<v.rel, x>>}
    <3>1. IsFiniteSet(X)
      BY <1>1, <2>2, FS_AddElement
    <3> QED
      BY <1>1, <1>2, <1>4, <2>2, <3>1
  <2> QED
    BY <2>1, <2>2 DEF x
<1>6. Edited(m2, m, c, g, X)
  BY DEF g
<1>7. FilesOK(m2) /\ m2[IndexOf[c]].data = X
  BY <1>2, <1>5, <1>6, EditedOK
<1>8. \A e : e[1] \notin {v.rel} => (e \in X <=> e \in old)
  BY DEF x
<1>9. Elsewhere(m2, m, {v.rel})
  BY <1>1, <1>3, <1>6, <1>8, EditedElsewhere
<1>10. Keeps(m2, m) /\ KeepsUnlinked(m2, m) /\ KeepsRelations(m2, m)
  BY <1>2, <1>6, EditedKeeps
<1> QED
  BY <1>7, <1>9, <1>10

(* The files after a deletion.                                               *)
LEMMA DeleteStep ==
  ASSUME NEW m, FilesOK(m), NEW c \in RecordFiles, NEW x \in Live(m[c]), NEW rel, NEW m2,
         Edited(m2, m, c, DeleteRec(m[c], x), m[IndexOf[c]].data \ {<<rel, x>>})
  PROVE  /\ FilesOK(m2) /\ m2[IndexOf[c]].data = m[IndexOf[c]].data \ {<<rel, x>>}
         /\ Elsewhere(m2, m, {rel, Get(m[c], x).rel})
         /\ Keeps(m2, m)
<1> DEFINE g == DeleteRec(m[c], x)
           old == m[IndexOf[c]].data
           X == old \ {<<rel, x>>}
           T == {rel, Get(m[c], x).rel}
<1>1. /\ m[IndexOf[c]] \in IndexType /\ old \subseteq Names \X Nat /\ IsFiniteSet(old)
      /\ Sane(m[c], RecordOf[c]) /\ NoRecord \notin RecordOf[c]
  BY IndexData
<1>2. /\ Sane(g, RecordOf[c]) /\ DOMAIN m[c].data \subseteq DOMAIN g.data
      /\ Shape(m[c]) => Shape(g)
      /\ Shape(m[c]) /\ g.header = m[c].header => SameLinks(g, m[c])
  BY <1>1, DeleteRecOK
<1>3. \A r : r \notin T => View(g, r) = View(m[c], r)
  BY <1>1, ViewDelete
<1>4. Edited(m2, m, c, g, X)
  OBVIOUS
<1>5. X \subseteq Names \X Nat /\ IsFiniteSet(X)
  BY <1>1, FS_Subset
<1>6. \A e : e[1] \notin T => (e \in X <=> e \in old)
  OBVIOUS
<1> HIDE DEF g, X, T
<1>7. FilesOK(m2) /\ m2[IndexOf[c]].data = X
  BY <1>2, <1>4, <1>5, EditedOK
<1>8. Elsewhere(m2, m, T)
  BY <1>1, <1>3, <1>4, <1>6, EditedElsewhere
<1>9. Keeps(m2, m)
  BY <1>2, <1>4, EditedKeeps
<1> QED
  BY <1>7, <1>8, <1>9 DEF X, T

(* The files after an update.                                                *)
LEMMA UpdateStep ==
  ASSUME NEW m, FilesOK(m), NEW c \in RecordFiles, NEW x \in Live(m[c]), NEW v \in RecordOf[c],
         v.rel = Get(m[c], x).rel, NEW m2,
         Edited(m2, m, c, UpdateRec(m[c], x, v), m[IndexOf[c]].data)
  PROVE  /\ FilesOK(m2) /\ m2[IndexOf[c]].data = m[IndexOf[c]].data
         /\ Elsewhere(m2, m, {v.rel})
         /\ Keeps(m2, m) /\ KeepsUnlinked(m2, m) /\ KeepsRelations(m2, m)
<1> DEFINE g == UpdateRec(m[c], x, v)
           X == m[IndexOf[c]].data
<1>1. /\ m[IndexOf[c]] \in IndexType /\ X \subseteq Names \X Nat /\ IsFiniteSet(X)
      /\ Sane(m[c], RecordOf[c]) /\ NoRecord \notin RecordOf[c]
  BY IndexData
<1>2. /\ Sane(g, RecordOf[c]) /\ DOMAIN m[c].data \subseteq DOMAIN g.data
      /\ Shape(m[c]) => Shape(g)
      /\ SameLinks(g, m[c])
      /\ Unlinked(m[c]) => Unlinked(g)
      /\ \A y \in Live(m[c]) : y \in Live(g) /\ Get(g, y).rel = Get(m[c], y).rel
  BY <1>1, UpdateRecOK
<1>3. \A r : r \notin {v.rel} => View(g, r) = View(m[c], r)
  BY <1>1, ViewUpdate
<1>4. Edited(m2, m, c, g, X)
  OBVIOUS
<1> HIDE DEF g
<1>5. FilesOK(m2) /\ m2[IndexOf[c]].data = X
  BY <1>1, <1>2, <1>4, EditedOK
<1>6. Elsewhere(m2, m, {v.rel})
  BY <1>1, <1>3, <1>4, EditedElsewhere
<1>7. Keeps(m2, m) /\ KeepsUnlinked(m2, m) /\ KeepsRelations(m2, m)
  BY <1>2, <1>4, EditedKeeps
<1> QED
  BY <1>5, <1>6, <1>7

-------------------------------------------------------------------------------
(* The statement being executed.                                             *)

(* The length, head and tail of what is left.                                *)
LEMMA Todo ==
  ASSUME NEW t, NEW n \in Nat, t = [j \in 1 .. n |-> t[j]]
  PROVE  /\ Len(t) = n
         /\ t # <<>> <=> n > 0
         /\ n > 0 => Head(t) = t[1] /\ Tail(t) = [j \in 1 .. n - 1 |-> t[j + 1]]
<1>1. PICK T : \A j \in 1 .. n : t[j] \in T
  <2>1. \A j \in 1 .. n : t[j] \in {t[i] : i \in 1 .. n}
    OBVIOUS
  <2> QED
    BY <2>1
<1>2. t \in [1 .. n -> T]
  BY <1>1
<1>3. t \in Seq(T)
  BY <1>2
<1>4. Len(t) = n /\ (t # <<>> <=> n > 0)
  BY <1>2, <1>3
<1>5. n > 0 => Head(t) = t[1] /\ Tail(t) = [j \in 1 .. n - 1 |-> t[j + 1]]
  BY <1>3, <1>4
<1> QED
  BY <1>4, <1>5

(* The item to be done next, and those after it.                             *)
LEMMA Current ==
  ASSUME StmtOK, stmt.todo # <<>>
  PROVE  /\ stmt # Idle /\ StmtForm /\ stmt.rel \in Names
         /\ Now = stmt.todo[1] /\ ItemOK(1)
         /\ \E n \in Nat \ {0} :
              /\ Tail(stmt.todo) = [j \in 1 .. n - 1 |-> stmt.todo[j + 1]]
              /\ \A j \in 1 .. n : ItemOK(j)
<1>1. stmt # Idle
  BY DEF Idle
<1>2. PICK n \in Nat : stmt.todo = [j \in 1 .. n |-> stmt.todo[j]] /\ \A j \in 1 .. n : ItemOK(j)
  BY <1>1 DEF StmtOK
<1>3. n > 0 /\ Now = stmt.todo[1] /\ Tail(stmt.todo) = [j \in 1 .. n - 1 |-> stmt.todo[j + 1]]
  BY <1>2, Todo DEF Now
<1>4. ItemOK(1)
  BY <1>2, <1>3
<1> QED
  <2>1. StmtForm /\ stmt.rel \in Names
    BY <1>1 DEF StmtOK
  <2>2. n \in Nat \ {0}
    BY <1>3
  <2> QED
    BY <1>1, <1>2, <1>3, <1>4, <2>1, <2>2

(* A statement that goes on is the same statement with one item less.        *)
LEMMA Continues ==
  ASSUME StmtForm, Continue
  PROVE  /\ stmt' # Idle /\ stmt'.rel = stmt.rel /\ stmt'.type = stmt.type
         /\ stmt'.todo = Tail(stmt.todo)
         /\ stmt.type = "createTable" => stmt'.attrs = stmt.attrs
         /\ stmt.type \in {"createIndex", "dropIndex"} => stmt'.attr = stmt.attr
         /\ UNCHANGED dropped => StmtForm'
<1> DEFINE t == Tail(stmt.todo)
<1>0. stmt' = [stmt EXCEPT !.todo = t]
  BY DEF Continue
<1> HIDE DEF t
<1>1. CASE stmt = [type |-> "createTable", rel |-> stmt.rel, attrs |-> stmt.attrs, todo |-> stmt.todo]
           /\ stmt.attrs \in Declarations
  <2>1. stmt' = [type |-> "createTable", rel |-> stmt.rel, attrs |-> stmt.attrs, todo |-> t]
    BY <1>0, <1>1
  <2>2. stmt'.type = "createTable" /\ stmt'.rel = stmt.rel /\ stmt'.attrs = stmt.attrs /\ stmt'.todo = t
    BY <2>1
  <2>3. stmt.type = "createTable"
    BY <1>1
  <2>4. stmt' # Idle
    BY <2>1 DEF Idle
  <2>5. StmtForm'
    BY <1>1, <2>1, <2>2 DEF StmtForm
  <2> QED
    BY <2>2, <2>3, <2>4, <2>5 DEF t
<1>2. CASE stmt = [type |-> "dropTable", rel |-> stmt.rel, todo |-> stmt.todo] /\ dropped
  <2>1. stmt' = [type |-> "dropTable", rel |-> stmt.rel, todo |-> t]
    BY <1>0, <1>2
  <2>2. stmt'.type = "dropTable" /\ stmt'.rel = stmt.rel /\ stmt'.todo = t
    BY <2>1
  <2>3. stmt.type = "dropTable"
    BY <1>2
  <2>4. stmt' # Idle
    BY <2>1 DEF Idle
  <2>5. UNCHANGED dropped => StmtForm'
    BY <1>2, <2>1, <2>2 DEF StmtForm
  <2> QED
    BY <2>2, <2>3, <2>4, <2>5 DEF t
<1>3. ASSUME NEW what \in {"createIndex", "dropIndex"},
             stmt = [type |-> what, rel |-> stmt.rel, attr |-> stmt.attr, todo |-> stmt.todo],
             stmt.attr \in Attributes
      PROVE  /\ stmt' # Idle /\ stmt'.rel = stmt.rel /\ stmt'.type = stmt.type
             /\ stmt'.todo = t
             /\ stmt.type = "createTable" => stmt'.attrs = stmt.attrs
             /\ stmt.type \in {"createIndex", "dropIndex"} => stmt'.attr = stmt.attr
             /\ StmtForm'
  <2>1. stmt' = [type |-> what, rel |-> stmt.rel, attr |-> stmt.attr, todo |-> t]
    BY <1>0, <1>3
  <2>2. stmt'.type = what /\ stmt'.rel = stmt.rel /\ stmt'.attr = stmt.attr /\ stmt'.todo = t
    BY <2>1
  <2>3. stmt.type = what
    BY <1>3
  <2>4. stmt' # Idle
    BY <2>1 DEF Idle
  <2>5. StmtForm'
    BY <1>3, <2>1, <2>2 DEF StmtForm
  <2> QED
    BY <2>2, <2>3, <2>4, <2>5
<1> QED
  BY <1>1, <1>2, <1>3 DEF StmtForm, t

-------------------------------------------------------------------------------
(* What each action does to the files.                                       *)

(* The two forms in which the actions edit the files.                        *)
LEMMA MakesEdited ==
  ASSUME NEW m, FilesOK(m), NEW c \in RecordFiles, NEW g, NEW X
  PROVE  /\ Edited([m EXCEPT ![c] = g], m, c, g, m[IndexOf[c]].data)
         /\ Edited([m EXCEPT ![c] = g, ![IndexOf[c]].data = X], m, c, g, X)
<1>1. /\ IndexOf[c] \in AllFiles /\ c \in AllFiles /\ c # IndexOf[c]
  BY Names4
<1>2. m = [f \in AllFiles |-> m[f]] /\ m[IndexOf[c]] \in IndexType
  BY Names4 DEF FilesOK
<1>3. m[IndexOf[c]] = [m[IndexOf[c]] EXCEPT !.data = m[IndexOf[c]].data]
  BY <1>2 DEF IndexType
<1>4. Edited([m EXCEPT ![c] = g], m, c, g, m[IndexOf[c]].data)
  BY <1>1, <1>2, <1>3 DEF Edited
<1>5. Edited([m EXCEPT ![c] = g, ![IndexOf[c]].data = X], m, c, g, X)
  BY <1>1, <1>2 DEF Edited
<1> QED
  BY <1>4, <1>5

(* InsertRecord edits the files, and then fails or goes on.                  *)
LEMMA InsertFiles ==
  ASSUME FilesOK(mem), StmtOK, InsertRecord, HasRoom(Target(mem[Now.file])),
         Target(mem[Now.file]) # Hole
  PROVE  LET c == Now.file
             e == <<stmt.rel, NewRid(mem[c])>>
         IN  /\ stmt # Idle /\ StmtForm /\ stmt.rel \in Names
             /\ c \in RecordFiles /\ Now.rec \in RecordOf[c] /\ Now.rec.rel = stmt.rel
             /\ IF e \in mem[IndexOf[c]].data THEN Fail ELSE Reached(stmt.rel)
             /\ Edited(mem', mem, c, InsertRec(mem[c], Now.rec), mem[IndexOf[c]].data \union {e})
<1> DEFINE c == Now.file
           e == <<stmt.rel, NewRid(mem[c])>>
           old == mem[IndexOf[c]].data
<1>1. Now.do = "insert" /\ stmt.todo # <<>>
  BY DEF InsertRecord, Doing, Now
<1>2. stmt # Idle /\ StmtForm /\ stmt.rel \in Names /\ ItemOK(1) /\ Now = stmt.todo[1]
  BY <1>1, Current
<1>3. c \in RecordFiles /\ Now.rec \in RecordOf[c] /\ Now.rec.rel = stmt.rel
  BY <1>1, <1>2 DEF ItemOK
<1>4. CASE e \in old
  <2>1. Fail /\ mem' = [mem EXCEPT ![c] = InsertRec(mem[c], Now.rec)]
    BY <1>4 DEF InsertRecord
  <2>2. Edited(mem', mem, c, InsertRec(mem[c], Now.rec), old)
    BY <1>3, <2>1, MakesEdited
  <2>3. old = old \union {e}
    BY <1>4
  <2> QED
    BY <1>2, <1>3, <1>4, <2>1, <2>2, <2>3
<1>5. CASE e \notin old
  <2>1. Reached(stmt.rel)
    BY <1>5 DEF InsertRecord
  <2>2. mem' = [mem EXCEPT ![c] = InsertRec(mem[c], Now.rec), ![IndexOf[c]].data = old \union {e}]
    <3>1. c # IndexOf[c]
      BY <1>3, Names4
    <3> QED
      BY <1>5, <3>1 DEF InsertRecord
  <2>3. Edited(mem', mem, c, InsertRec(mem[c], Now.rec), old \union {e})
    BY <1>3, <2>2, MakesEdited
  <2> QED
    BY <1>2, <1>3, <1>5, <2>1, <2>3
<1> QED
  BY <1>4, <1>5

(* DeleteRecord edits the files.                                             *)
LEMMA DeleteFiles ==
  ASSUME FilesOK(mem), NEW c \in RecordFiles, NEW x, DeleteRecord(c, x)
  PROVE  Edited(mem', mem, c, DeleteRec(mem[c], x), mem[IndexOf[c]].data \ {<<stmt.rel, x>>})
<1>1. c # IndexOf[c]
  BY Names4
<1>2. mem' = [mem EXCEPT ![c] = DeleteRec(mem[c], x), ![IndexOf[c]].data = mem[IndexOf[c]].data \ {<<stmt.rel, x>>}]
  BY <1>1 DEF DeleteRecord
<1> QED
  BY <1>2, MakesEdited

(* UpdateRecord edits the files.                                             *)
LEMMA UpdateFiles ==
  ASSUME FilesOK(mem), StmtOK, UpdateRecord
  PROVE  LET c == Now.file
         IN  /\ stmt # Idle /\ StmtForm /\ stmt.rel \in Names /\ stmt.type # "dropTable"
             /\ c \in RecordFiles /\ Now.rec \in RecordOf[c] /\ Now.rid \in Live(mem[c])
             /\ Now.rec.rel = Get(mem[c], Now.rid).rel
             /\ Reached(Now.rec.rel)
             /\ Edited(mem', mem, c, UpdateRec(mem[c], Now.rid, Now.rec), mem[IndexOf[c]].data)
<1>1. Now.do = "update" /\ stmt.todo # <<>>
  BY DEF UpdateRecord, Doing, Now
<1>2. stmt # Idle /\ StmtForm /\ stmt.rel \in Names /\ ItemOK(1) /\ Now = stmt.todo[1]
  BY <1>1, Current
<1>3. /\ stmt.type # "dropTable"
      /\ Now.file \in RecordFiles /\ Now.rec \in RecordOf[Now.file] /\ Now.rid \in Live(mem[Now.file])
      /\ Now.rec.rel = Get(mem[Now.file], Now.rid).rel
  BY <1>1, <1>2 DEF ItemOK
<1>4. mem' = [mem EXCEPT ![Now.file] = UpdateRec(mem[Now.file], Now.rid, Now.rec)] /\ Reached(Now.rec.rel)
  BY DEF UpdateRecord
<1>5. Edited(mem', mem, Now.file, UpdateRec(mem[Now.file], Now.rid, Now.rec), mem[IndexOf[Now.file]].data)
  BY <1>3, <1>4, MakesEdited
<1> QED
  BY <1>2, <1>3, <1>4, <1>5

(* What every step of a statement does and leaves.                           *)
Effect ==
  /\ FilesOK(mem') /\ Elsewhere(mem', mem, {stmt.rel} \union broken') /\ Keeps(mem', mem)
  /\ ~dropped => KeepsUnlinked(mem', mem)
  /\ stmt.type # "dropTable" => KeepsRelations(mem', mem)
  /\ broken \subseteq broken'
  /\ \A rel : rel # stmt.rel => FilesOf(rel)' = FilesOf(rel)
  /\ stmt.rel # LogFile => (<<LogFile>> \in files' <=> <<LogFile>> \in files)
  /\ stmt.type = "createTable" => files \subseteq files'
  /\ \/ Continue /\ UNCHANGED <<failed, db>>
     \/ Fail /\ db' \in {db, "torn"}
     \/ db' = "corrupt" /\ UNCHANGED <<mem, disk, files, stmt, broken, failed>>
        /\ \E c \in RecordFiles : ~HasRoom(Target(mem[c])) \/ Target(mem[c]) = Hole
  /\ \/ UNCHANGED disk
     \/ UNCHANGED mem /\ \E f \in AllFiles : disk' = [disk EXCEPT ![f].data = mem[f].data]

(* No change is one that keeps everything.                                   *)
LEMMA Still ==
  ASSUME NEW m, NEW T
  PROVE  Elsewhere(m, m, T) /\ Keeps(m, m) /\ KeepsUnlinked(m, m) /\ KeepsRelations(m, m)
BY DEF Elsewhere, Keeps, KeepsUnlinked, KeepsRelations, SameLinks

(* A step that leaves all but S leaves all but a larger T.                   *)
LEMMA Wider ==
  ASSUME NEW m, NEW m2, NEW S, NEW T, S \subseteq T, Elsewhere(m2, m, S)
  PROVE  Elsewhere(m2, m, T)
BY DEF Elsewhere

(* Which relations a failure, and going on, leave broken.                    *)
LEMMA Broken ==
  /\ Fail => broken' = broken \union {stmt.rel}
  /\ \A r : Reached(r) => /\ Continue /\ failed' = failed /\ broken \subseteq broken'
                          /\ broken' \subseteq broken \union {r}
                          /\ r \in {stmt.rel} \union broken'
                          /\ r = stmt.rel => broken' = broken
BY DEF Fail, Reached

(* Files of relations when none is made or destroyed.                        *)
LEMMA FilesSame ==
  ASSUME UNCHANGED files
  PROVE  /\ \A rel : FilesOf(rel)' = FilesOf(rel)
         /\ <<LogFile>> \in files' <=> <<LogFile>> \in files
BY DEF FilesOf

(* Files of relations when one of the statement's relation is made or destroyed. *)
LEMMA FilesEdited ==
  ASSUME NEW f, f[1] = stmt.rel, files' = files \union {f} \/ files' = files \ {f}
  PROVE  /\ \A rel : rel # stmt.rel => FilesOf(rel)' = FilesOf(rel)
         /\ stmt.rel # LogFile => (<<LogFile>> \in files' <=> <<LogFile>> \in files)
<1>1. ASSUME NEW rel, rel # stmt.rel PROVE FilesOf(rel)' = FilesOf(rel)
  <2>1. \A x : x[1] = rel => x # f
    BY <1>1
  <2> QED
    BY <2>1 DEF FilesOf
<1>2. <<LogFile>>[1] = LogFile
  OBVIOUS
<1>3. stmt.rel # LogFile => <<LogFile>> # f
  BY <1>2
<1> QED
  BY <1>1, <1>3

(* The effect of InsertRecord.                                               *)
LEMMA InsertEffect ==
  ASSUME FilesOK(mem), StmtOK, InsertRecord
  PROVE  Effect
<1> DEFINE c == Now.file
           x == NewRid(mem[c])
           X == mem[IndexOf[c]].data \union {<<stmt.rel, x>>}
<1>0. UNCHANGED <<disk, files>>
  BY DEF InsertRecord
<1>1. CASE HasRoom(Target(mem[c])) /\ Target(mem[c]) # Hole
  <2>1. /\ c \in RecordFiles /\ Now.rec \in RecordOf[c] /\ Now.rec.rel = stmt.rel
        /\ Fail \/ Reached(stmt.rel)
        /\ Edited(mem', mem, c, InsertRec(mem[c], Now.rec), X)
    BY <1>1, InsertFiles
  <2>2. /\ FilesOK(mem') /\ Elsewhere(mem', mem, {stmt.rel})
        /\ Keeps(mem', mem) /\ KeepsUnlinked(mem', mem) /\ KeepsRelations(mem', mem)
    <3> HIDE DEF c
    <3>1. X = mem[IndexOf[c]].data \union {<<Now.rec.rel, NewRid(mem[c])>>}
      BY <2>1
    <3> HIDE DEF X, x
    <3>2. Now.rec.rel = stmt.rel
      BY <2>1
    <3> DEFINE v == Now.rec
    <3>4. c \in RecordFiles /\ v \in RecordOf[c] /\ HasRoom(Target(mem[c])) /\ Target(mem[c]) # Hole
      BY <1>1, <2>1
    <3>5. X = mem[IndexOf[c]].data \/ X = mem[IndexOf[c]].data \union {<<v.rel, NewRid(mem[c])>>}
      BY <3>1
    <3>6. Edited(mem', mem, c, InsertRec(mem[c], v), X)
      BY <2>1
    <3> HIDE DEF v
    <3>7. /\ FilesOK(mem') /\ Elsewhere(mem', mem, {v.rel})
          /\ Keeps(mem', mem) /\ KeepsUnlinked(mem', mem) /\ KeepsRelations(mem', mem)
      BY <3>4, <3>5, <3>6, InsertStep
    <3>3. /\ FilesOK(mem') /\ Elsewhere(mem', mem, {Now.rec.rel})
          /\ Keeps(mem', mem) /\ KeepsUnlinked(mem', mem) /\ KeepsRelations(mem', mem)
      BY <3>7 DEF v
    <3> QED
      BY <3>2, <3>3
  <2>3. Elsewhere(mem', mem, {stmt.rel} \union broken')
    BY <2>2, Wider
  <2>4. broken \subseteq broken'
    BY <2>1, Broken
  <2>5. (Fail /\ db' \in {db, "torn"}) \/ (Continue /\ UNCHANGED <<failed, db>>)
    <3>1. db = "open"
      BY DEF InsertRecord, Doing
    <3>2. (Fail /\ db' \in {"open", "torn"}) \/ (Reached(stmt.rel) /\ UNCHANGED db)
      BY <1>1 DEF InsertRecord
    <3> QED
      BY <3>1, <3>2, Broken
  <2> QED
    BY <1>0, <2>2, <2>3, <2>4, <2>5, FilesSame DEF Effect
<1>2. CASE ~HasRoom(Target(mem[c])) \/ Target(mem[c]) = Hole
  <2>1. db' = "corrupt" /\ UNCHANGED <<mem, stmt, broken, failed>>
    BY <1>2 DEF InsertRecord
  <2>2. c \in RecordFiles
    <3>1. Now.do = "insert" /\ stmt.todo # <<>>
      BY DEF InsertRecord, Doing, Now
    <3> QED
      BY <3>1, Current DEF ItemOK
  <2>3. Elsewhere(mem', mem, {stmt.rel} \union broken') /\ Keeps(mem', mem) /\ KeepsUnlinked(mem', mem) /\ KeepsRelations(mem', mem)
    BY <2>1, Still
  <2> QED
    BY <1>0, <1>2, <2>1, <2>2, <2>3, FilesSame DEF Effect
<1> QED
  BY <1>1, <1>2

(* The effect of DropRelation.                                               *)
LEMMA DropRelationEffect ==
  ASSUME FilesOK(mem), StmtOK, DropRelation
  PROVE  Effect /\ stmt.type = "dropTable" /\ dropped
<1> DEFINE x == Now.rid
           rel == Get(mem["relcat"], x).rel
<1>0. UNCHANGED <<disk, files, db>> /\ Now.do = "dropRel" /\ stmt.todo # <<>> /\ DeleteRecord("relcat", x)
  BY DEF DropRelation, Doing, Now
<1>1. StmtForm /\ stmt.type = "dropTable" /\ x \in Live(mem["relcat"])
  BY <1>0, Current DEF ItemOK
<1>2. dropped
  BY <1>1 DEF StmtForm
<1>3. "relcat" \in RecordFiles
  BY DEF RecordFiles
<1>4. Edited(mem', mem, "relcat", DeleteRec(mem["relcat"], x), mem[IndexOf["relcat"]].data \ {<<stmt.rel, x>>})
  BY <1>0, <1>3, DeleteFiles
<1>5. /\ FilesOK(mem') /\ Keeps(mem', mem)
      /\ Elsewhere(mem', mem, {stmt.rel, rel})
  BY <1>1, <1>3, <1>4, DeleteStep
<1>6. Reached(rel)
  BY <1>0 DEF DeleteRecord, Rec, Get
<1>7. /\ Continue /\ failed' = failed /\ broken \subseteq broken'
      /\ rel \in {stmt.rel} \union broken'
  BY <1>6, Broken
<1>8. Elsewhere(mem', mem, {stmt.rel} \union broken')
  BY <1>5, <1>7, Wider
<1> QED
  BY <1>0, <1>1, <1>2, <1>5, <1>7, <1>8, FilesSame DEF Effect

(* The effect of DropAttribute.                                              *)
LEMMA DropAttributeEffect ==
  ASSUME FilesOK(mem), StmtOK, DropAttribute
  PROVE  Effect /\ stmt.type = "dropTable" /\ dropped
<1> DEFINE x == Now.rid
           n == Rec("attrcat", x).indexNo
           rel == Get(mem["attrcat"], x).rel
<1>0. UNCHANGED <<disk, db>> /\ Now.do = "dropAttr" /\ stmt.todo # <<>>
  BY DEF DropAttribute, Doing, Now
<1>1. StmtForm /\ stmt.type = "dropTable" /\ x \in Nat
  BY <1>0, Current DEF ItemOK
<1>2. dropped
  BY <1>1 DEF StmtForm
<1>3. "attrcat" \in RecordFiles
  BY DEF RecordFiles
<1>4. CASE Fail /\ UNCHANGED <<mem, files>>
  <2>1. Elsewhere(mem', mem, {stmt.rel} \union broken') /\ Keeps(mem', mem)
    BY <1>4, Still
  <2>2. broken \subseteq broken'
    BY <1>4, Broken
  <2> QED
    BY <1>0, <1>1, <1>2, <1>4, <2>1, <2>2, FilesSame DEF Effect
<1>5. CASE IsRec("attrcat", x) /\ DeleteRecord("attrcat", x) /\ files' = files \ {<<stmt.rel, n>>}
  <2>1. x \in Live(mem["attrcat"])
    BY <1>1, <1>3, <1>5, ReadsRecords
  <2>2. Edited(mem', mem, "attrcat", DeleteRec(mem["attrcat"], x), mem[IndexOf["attrcat"]].data \ {<<stmt.rel, x>>})
    BY <1>3, <1>5, DeleteFiles
  <2>3. /\ FilesOK(mem') /\ Keeps(mem', mem)
        /\ Elsewhere(mem', mem, {stmt.rel, rel})
    BY <1>3, <2>1, <2>2, DeleteStep
  <2>4. Reached(rel)
    BY <1>5 DEF DeleteRecord, Rec, Get
  <2>5. /\ Continue /\ failed' = failed /\ broken \subseteq broken'
        /\ rel \in {stmt.rel} \union broken'
    BY <2>4, Broken
  <2>6. Elsewhere(mem', mem, {stmt.rel} \union broken')
    BY <2>3, <2>5, Wider
  <2>7. /\ \A r : r # stmt.rel => FilesOf(r)' = FilesOf(r)
        /\ stmt.rel # LogFile => (<<LogFile>> \in files' <=> <<LogFile>> \in files)
    <3>1. <<stmt.rel, n>>[1] = stmt.rel
      OBVIOUS
    <3> HIDE DEF n
    <3> QED
      BY <1>5, <3>1, FilesEdited
  <2> QED
    BY <1>0, <1>1, <1>2, <2>3, <2>5, <2>6, <2>7 DEF Effect
<1>6. (Fail /\ UNCHANGED <<mem, files>>)
      \/ (IsRec("attrcat", x) /\ DeleteRecord("attrcat", x) /\ files' = files \ {<<stmt.rel, n>>})
  BY DEF DropAttribute
<1> QED
  BY <1>4, <1>5, <1>6

(* The effect of UpdateRecord.                                               *)
LEMMA UpdateEffect ==
  ASSUME FilesOK(mem), StmtOK, UpdateRecord
  PROVE  Effect
<1> DEFINE c == Now.file
<1>0. UNCHANGED <<disk, files, db>>
  BY DEF UpdateRecord
<1>1. /\ c \in RecordFiles /\ Now.rec \in RecordOf[c] /\ Now.rid \in Live(mem[c])
      /\ Now.rec.rel = Get(mem[c], Now.rid).rel
      /\ Reached(Now.rec.rel)
      /\ Edited(mem', mem, c, UpdateRec(mem[c], Now.rid, Now.rec), mem[IndexOf[c]].data)
  BY UpdateFiles
<1>2. /\ FilesOK(mem') /\ Elsewhere(mem', mem, {Now.rec.rel})
      /\ Keeps(mem', mem) /\ KeepsUnlinked(mem', mem) /\ KeepsRelations(mem', mem)
  <2> HIDE DEF c
  <2> QED
    BY <1>1, UpdateStep
<1>3. /\ Continue /\ failed' = failed /\ broken \subseteq broken'
      /\ Now.rec.rel \in {stmt.rel} \union broken'
  BY <1>1, Broken
<1>4. Elsewhere(mem', mem, {stmt.rel} \union broken')
  BY <1>2, <1>3, Wider
<1> QED
  BY <1>0, <1>2, <1>3, <1>4, FilesSame DEF Effect

(* The effect of opening, creating and destroying files.                     *)
LEMMA FileEffect ==
  ASSUME FilesOK(mem), StmtOK, OpenRelation \/ CreateOrDestroyFile
  PROVE  Effect
<1>0. UNCHANGED <<mem, disk, db>>
  BY DEF OpenRelation, CreateOrDestroyFile
<1>1. Elsewhere(mem', mem, {stmt.rel} \union broken') /\ Keeps(mem', mem) /\ KeepsUnlinked(mem', mem) /\ KeepsRelations(mem', mem)
  BY <1>0, Still
<1>2. Fail \/ Reached(stmt.rel)
  BY DEF OpenRelation, CreateOrDestroyFile
<1>3. broken \subseteq broken' /\ (Fail \/ (Continue /\ UNCHANGED failed))
  BY <1>2, Broken
<1>4. /\ \A r : r # stmt.rel => FilesOf(r)' = FilesOf(r)
      /\ stmt.rel # LogFile => (<<LogFile>> \in files' <=> <<LogFile>> \in files)
      /\ stmt.type = "createTable" => files \subseteq files'
  <2>1. CASE UNCHANGED files
    BY <2>1, FilesSame
  <2>2. CASE CreateOrDestroyFile /\ ~ UNCHANGED files
    <3>1. Now.do \in {"create", "destroy"} /\ stmt.todo # <<>>
      BY <2>2 DEF CreateOrDestroyFile, Doing, Now
    <3>2. Now.file[1] = stmt.rel /\ (Now.do = "destroy" => stmt.type # "createTable")
      BY <3>1, Current DEF ItemOK
    <3>3. files' = files \union {Now.file} \/ (files' = files \ {Now.file} /\ Now.do = "destroy")
      BY <2>2, <3>1 DEF CreateOrDestroyFile
    <3>4. stmt.type = "createTable" => files \subseteq files'
      BY <3>2, <3>3
    <3> QED
      BY <3>2, <3>3, <3>4, FilesEdited
  <2>3. OpenRelation => UNCHANGED files
    BY DEF OpenRelation
  <2> QED
    BY <2>1, <2>2, <2>3
<1> QED
  BY <1>0, <1>1, <1>3, <1>4 DEF Effect

(* The effect of ForcePages.                                                 *)
LEMMA ForceEffect ==
  ASSUME FilesOK(mem), StmtOK, ForcePages
  PROVE  Effect
<1>0. /\ UNCHANGED <<mem, files, db, broken, failed>> /\ Continue
      /\ disk' = [disk EXCEPT ![Now.file].data = mem[Now.file].data]
  BY DEF ForcePages
<1>1. Elsewhere(mem', mem, {stmt.rel} \union broken') /\ Keeps(mem', mem) /\ KeepsUnlinked(mem', mem) /\ KeepsRelations(mem', mem)
  BY <1>0, Still
<1>2. Now.file \in AllFiles
  <2>1. Now.do = "force" /\ stmt.todo # <<>>
    BY DEF ForcePages, Doing, Now
  <2> QED
    BY <2>1, Current DEF ItemOK
<1> QED
  BY <1>0, <1>1, <1>2, FilesSame DEF Effect

(* Every step of a statement has this effect.                                *)
LEMMA StepEffect ==
  ASSUME FilesOK(mem), StmtOK, Step
  PROVE  Effect
BY InsertEffect, DropRelationEffect, DropAttributeEffect, UpdateEffect, FileEffect, ForceEffect DEF Step

-------------------------------------------------------------------------------
(* The pages of a file in memory under the header on disk.                   *)

Mixed(d, m, f) == [d[f] EXCEPT !.data = m[f].data]

(* The free list depends on the pages and the header.                        *)
LEMMA ShapeBy ==
  ASSUME NEW f, NEW g, f.data = g.data
  PROVE  /\ f.header = g.header => Shape(f) = Shape(g)
         /\ Unlinked(f) = Unlinked(g)
BY DEF Shape, HeadOpen, LinksOpen, HeadUnlinked, LinksUnique, Open, Unlinked

(* Pages that lead where those of a file in order do are in order.           *)
LEMMA NearShape ==
  ASSUME NEW R, NEW d, NEW m, Sane(d, R), Sane(m, R), DOMAIN d.data \subseteq DOMAIN m.data,
         Shape(m), d.header = m.header, Near(d, m)
  PROVE  Shape(d)
<1>1. /\ DOMAIN d.data = 1 .. Len(d.data) /\ DOMAIN m.data = 1 .. Len(m.data)
      /\ Len(d.data) \in Nat /\ Len(m.data) \in Nat
  BY FileFields
<1>2. /\ \A p \in DOMAIN d.data : PageOK(d.data[p], R, DOMAIN d.data)
      /\ \A p \in DOMAIN m.data : PageOK(m.data[p], R, DOMAIN m.data)
      /\ d.header \in DOMAIN d.data \union {ListEnd}
  BY DEF Sane
<1>3. 0 \notin DOMAIN m.data /\ PageFull \notin DOMAIN m.data /\ ListEnd \notin DOMAIN m.data
  BY <1>1 DEF PageFull, ListEnd
<1>4. ASSUME NEW p \in DOMAIN d.data, Open(m, p) PROVE Open(d, p)
  <2>1. m.data[p].num # PerPage /\ m.data[p] # Hole /\ p \in DOMAIN m.data
    BY <1>4 DEF Open
  <2>2. PageOK(d.data[p], R, DOMAIN d.data) /\ PageOK(m.data[p], R, DOMAIN m.data)
    BY <1>2, <2>1
  <2>3. m.data[p].next # PageFull /\ m.data[p].next # 0
    BY <1>3, <2>1, <2>2, HoleParts DEF PageOK
  <2>4. d.data[p].next = m.data[p].next
    BY <2>3 DEF Near
  <2> QED
    BY <2>2, <2>3, <2>4, HoleParts DEF PageOK, Open
<1>5. ASSUME NEW p \in DOMAIN d.data, d.data[p].next \in DOMAIN d.data
      PROVE  d.data[p].next = m.data[p].next /\ m.data[p].next \in DOMAIN m.data /\ p \in DOMAIN m.data
  <2>1. d.data[p] # Hole
    BY <1>3, <1>5, HoleParts
  <2> QED
    BY <1>5, <2>1 DEF Near
<1>6. HeadOpen(d)
  <2> SUFFICES ASSUME d.header # ListEnd PROVE Open(d, d.header)
    BY DEF HeadOpen
  <2> QED
    BY <1>2, <1>4 DEF Shape, HeadOpen
<1>7. LinksOpen(d)
  BY <1>4, <1>5 DEF Shape, LinksOpen
<1>8. HeadUnlinked(d)
  BY <1>5 DEF Shape, HeadUnlinked
<1>9. LinksUnique(d)
  BY <1>5 DEF Shape, LinksUnique
<1> QED
  BY <1>6, <1>7, <1>8, <1>9 DEF Shape

(* A mixed file is well formed.                                              *)
LEMMA MixedOK ==
  ASSUME NEW m, NEW d, FilesOK(m), FilesOK(d), Within(d, m)
  PROVE  /\ \A c \in RecordFiles : /\ Sane(Mixed(d, m, c), RecordOf[c])
                                   /\ Mixed(d, m, c).data = m[c].data /\ Mixed(d, m, c).header = d[c].header
         /\ \A i \in IndexFiles : /\ Mixed(d, m, i) \in IndexType /\ IsFiniteSet(Mixed(d, m, i).data)
                                  /\ Mixed(d, m, i).data = m[i].data
<1>1. ASSUME NEW c \in RecordFiles
      PROVE  /\ Sane(Mixed(d, m, c), RecordOf[c])
             /\ Mixed(d, m, c).data = m[c].data /\ Mixed(d, m, c).header = d[c].header
  <2> DEFINE R == RecordOf[c]
             g == Mixed(d, m, c)
  <2>1. Sane(m[c], R) /\ Sane(d[c], R) /\ DOMAIN d[c].data \subseteq DOMAIN m[c].data
    BY DEF FilesOK, Within
  <2>2. d[c] = [data |-> d[c].data, header |-> d[c].header]
    BY <2>1, FileFields
  <2>3. g.data = m[c].data /\ g.header = d[c].header /\ g = [data |-> m[c].data, header |-> d[c].header]
    BY <2>2 DEF Mixed
  <2>4. m[c].data \in Seq(PageType(R)) /\ d[c].header \in Int
    BY <2>1 DEF Sane, FileType
  <2>5. d[c].header \in DOMAIN m[c].data \union {ListEnd}
    BY <2>1 DEF Sane
  <2>6. \A p \in DOMAIN m[c].data : PageOK(m[c].data[p], R, DOMAIN m[c].data)
    BY <2>1 DEF Sane
  <2> HIDE DEF g, R
  <2>7. g \in FileType(R)
    BY <2>3, <2>4 DEF FileType
  <2>8. Sane(g, R)
    BY <2>3, <2>5, <2>6, <2>7 DEF Sane
  <2> QED
    BY <2>3, <2>8 DEF g, R
<1>2. ASSUME NEW i \in IndexFiles
      PROVE  /\ Mixed(d, m, i) \in IndexType /\ IsFiniteSet(Mixed(d, m, i).data)
             /\ Mixed(d, m, i).data = m[i].data
  <2>1. m[i] \in IndexType /\ d[i] \in IndexType /\ IsFiniteSet(m[i].data)
    BY DEF FilesOK
  <2>2. Mixed(d, m, i) \in IndexType /\ Mixed(d, m, i).data = m[i].data
    BY <2>1 DEF IndexType, Mixed
  <2> QED
    BY <2>1, <2>2
<1> QED
  BY <1>1, <1>2

(* The disk after the pages of one file have been forced.                    *)
LEMMA ForcedOK ==
  ASSUME NEW m, NEW d, FilesOK(m), FilesOK(d), Within(d, m), NEW f \in AllFiles,
         NEW d2, d2 = [d EXCEPT ![f].data = m[f].data]
  PROVE  /\ FilesOK(d2) /\ Within(d2, m)
         /\ \A g \in AllFiles : d2[g] = IF g = f THEN Mixed(d, m, f) ELSE d[g]
<1>1. d = [g \in AllFiles |-> d[g]]
  BY DEF FilesOK
<1>2. \A g \in AllFiles : d2[g] = IF g = f THEN Mixed(d, m, f) ELSE d[g]
  BY <1>1 DEF Mixed
<1>3. d2 = [g \in AllFiles |-> d2[g]]
  BY <1>1
<1>4. RecordFiles \subseteq AllFiles /\ IndexFiles \subseteq AllFiles
  BY Names4
<1>5. ASSUME NEW c \in RecordFiles PROVE Sane(d2[c], RecordOf[c])
  <2>1. Sane(d[c], RecordOf[c]) /\ Sane(Mixed(d, m, c), RecordOf[c])
    BY MixedOK DEF FilesOK
  <2>2. d2[c] = Mixed(d, m, c) \/ d2[c] = d[c]
    BY <1>2, <1>4
  <2> QED
    BY <2>1, <2>2
<1>6. ASSUME NEW i \in IndexFiles PROVE d2[i] \in IndexType /\ IsFiniteSet(d2[i].data)
  <2>1. /\ d[i] \in IndexType /\ IsFiniteSet(d[i].data)
        /\ Mixed(d, m, i) \in IndexType /\ IsFiniteSet(Mixed(d, m, i).data)
    BY MixedOK DEF FilesOK
  <2>2. d2[i] = Mixed(d, m, i) \/ d2[i] = d[i]
    BY <1>2, <1>4
  <2> QED
    BY <2>1, <2>2
<1>7. Within(d2, m)
  BY <1>2, <1>4, MixedOK DEF Within
<1> QED
  BY <1>2, <1>3, <1>5, <1>6, <1>7 DEF FilesOK

(* The disk after a step: each file is as before or has the pages in memory. *)
LEMMA StepDisk ==
  ASSUME FilesOK(mem), FilesOK(disk), Within(disk, mem), Effect
  PROVE  /\ FilesOK(disk') /\ Within(disk', mem')
         /\ \A c \in RecordFiles : /\ disk'[c].header = disk[c].header
                                   /\ disk'[c].data \in {disk[c].data, mem[c].data}
                                   /\ disk'[c] = disk[c] \/ mem'[c] = mem[c]
         /\ \A i \in IndexFiles : disk'[i].data = disk[i].data \/ (disk'[i].data = mem[i].data /\ mem'[i] = mem[i])
         /\ \A c \in RecordFiles : disk'[c].data = disk[c].data \/ (disk'[c].data = mem[c].data /\ mem'[c] = mem[c])
<1>1. CASE UNCHANGED disk
  <2>1. Keeps(mem', mem)
    BY DEF Effect
  <2>2. Within(disk', mem')
    BY <1>1, <2>1 DEF Within, Keeps
  <2> QED
    BY <1>1, <2>2
<1>2. ASSUME UNCHANGED mem, NEW f \in AllFiles, disk' = [disk EXCEPT ![f].data = mem[f].data]
      PROVE  /\ FilesOK(disk') /\ Within(disk', mem')
             /\ \A c \in RecordFiles : disk'[c].header = disk[c].header /\ disk'[c].data \in {disk[c].data, mem[c].data}
             /\ \A g \in AllFiles : disk'[g].data = disk[g].data \/ disk'[g].data = mem[g].data
  <2> DEFINE d2 == [disk EXCEPT ![f].data = mem[f].data]
  <2>0. /\ FilesOK(d2) /\ Within(d2, mem)
        /\ \A g \in AllFiles : d2[g] = IF g = f THEN Mixed(disk, mem, f) ELSE disk[g]
    <3>1. d2 = [disk EXCEPT ![f].data = mem[f].data]
      OBVIOUS
    <3> HIDE DEF d2
    <3>2. FilesOK(d2) /\ Within(d2, mem)
      BY <3>1, ForcedOK
    <3>3. \A g \in AllFiles : d2[g] = IF g = f THEN Mixed(disk, mem, f) ELSE disk[g]
      <4>1. disk = [g \in AllFiles |-> disk[g]]
        BY DEF FilesOK
      <4> QED
        BY <3>1, <4>1 DEF Mixed
    <3> QED
      BY <3>2, <3>3
  <2>1. /\ FilesOK(disk') /\ Within(disk', mem)
        /\ \A g \in AllFiles : disk'[g] = IF g = f THEN Mixed(disk, mem, f) ELSE disk[g]
    BY <1>2, <2>0
  <2>2. RecordFiles \subseteq AllFiles /\ IndexFiles \subseteq AllFiles /\ AllFiles = RecordFiles \union IndexFiles
    BY Names4
  <2>3. \A c \in RecordFiles : disk'[c].header = disk[c].header /\ disk'[c].data \in {disk[c].data, mem[c].data}
    BY <2>1, <2>2, MixedOK
  <2>4. \A g \in AllFiles : disk'[g].data = disk[g].data \/ disk'[g].data = mem[g].data
    BY <2>1, <2>2, MixedOK
  <2> QED
    BY <1>2, <2>1, <2>3, <2>4
<1>3. RecordFiles \subseteq AllFiles /\ IndexFiles \subseteq AllFiles
  BY Names4
<1> QED
  BY <1>1, <1>2, <1>3 DEF Effect

(* Files with the same pages lead to the same pages.                         *)
LEMMA NearSame ==
  ASSUME NEW d, NEW m, d.data = m.data
  PROVE  Near(d, m)
BY DEF Near

(* A step keeps the free lists in order.                                     *)
LEMMA HeadersStep ==
  ASSUME FilesOK(mem), FilesOK(disk), Within(disk, mem), Effect, HistoryOK, HeadersOK, Step
  PROVE  HeadersOK'
<1>1. /\ headers' = IF headers = "saved" /\ \E c \in RecordFiles : mem'[c].header # mem[c].header
                    THEN "moved" ELSE headers
      /\ UNCHANGED dropped
  BY DEF Step
<1> SUFFICES ASSUME NEW c \in RecordFiles
             PROVE  /\ headers' # "stale" => Shape(mem'[c])
                    /\ headers' = "saved" => mem'[c].header = disk'[c].header /\ Near(disk'[c], mem'[c])
                    /\ ~dropped' => Unlinked(mem'[c]) /\ Unlinked(disk'[c])
  BY DEF HeadersOK
<1>2. /\ Shape(mem[c]) => Shape(mem'[c])
      /\ ~dropped => (Unlinked(mem[c]) => Unlinked(mem'[c]))
  BY DEF Effect, Keeps, KeepsUnlinked
<1>3. /\ disk'[c].header = disk[c].header /\ disk'[c].data \in {disk[c].data, mem[c].data}
      /\ disk'[c].data = disk[c].data \/ (disk'[c].data = mem[c].data /\ mem'[c] = mem[c])
  BY StepDisk
<1>4. headers' # "stale" => Shape(mem'[c])
  <2>1. headers' # "stale" => headers # "stale"
    BY <1>1
  <2> QED
    BY <1>2, <2>1 DEF HeadersOK
<1>5. ASSUME headers' = "saved" PROVE mem'[c].header = disk'[c].header /\ Near(disk'[c], mem'[c])
  <2>1. headers = "saved" /\ mem'[c].header = mem[c].header
    BY <1>1, <1>5
  <2>2. Shape(mem[c]) /\ mem[c].header = disk[c].header /\ Near(disk[c], mem[c])
    BY <2>1 DEF HeadersOK
  <2>4. SameLinks(mem'[c], mem[c]) /\ DOMAIN disk[c].data \subseteq DOMAIN mem[c].data
        /\ DOMAIN mem[c].data \subseteq DOMAIN mem'[c].data
    BY <2>1, <2>2 DEF Effect, Keeps, Within
  <2>3. Near(disk'[c], mem'[c])
    <3>1. CASE disk'[c].data = disk[c].data
      BY <2>2, <2>4, <3>1 DEF Near, SameLinks
    <3>2. CASE disk'[c].data = mem[c].data /\ mem'[c] = mem[c]
      <4>1. disk'[c].data = mem'[c].data
        BY <3>2
      <4> QED
        BY <4>1, NearSame
    <3> QED
      BY <1>3, <3>1, <3>2
  <2> QED
    BY <1>3, <2>1, <2>2, <2>3
<1>6. ASSUME ~dropped' PROVE Unlinked(mem'[c]) /\ Unlinked(disk'[c])
  <2>1. Unlinked(mem[c]) /\ Unlinked(disk[c]) /\ ~dropped
    BY <1>1, <1>6 DEF HeadersOK
  <2>2. Unlinked(disk'[c]) = Unlinked(disk[c]) \/ Unlinked(disk'[c]) = Unlinked(mem[c])
    BY <1>3, ShapeBy
  <2> QED
    BY <1>2, <2>1, <2>2
<1> QED
  BY <1>4, <1>5, <1>6

(* A step leaves a well-formed statement.                                    *)
LEMMA StmtStep ==
  ASSUME FilesOK(mem), StmtOK, Effect, UNCHANGED dropped, stmt.todo # <<>>
  PROVE  StmtOK'
<1>1. CASE Fail
  BY <1>1 DEF Fail, StmtOK
<1>2. CASE UNCHANGED <<mem, stmt>>
  <2>1. \A j : ItemOK(j) <=> ItemOK(j)'
    BY <1>2 DEF ItemOK
  <2>2. StmtForm <=> StmtForm'
    BY <1>2 DEF StmtForm
  <2> QED
    BY <1>2, <2>1, <2>2 DEF StmtOK
<1>3. CASE Continue
  <2>1. /\ stmt # Idle /\ StmtForm /\ stmt.rel \in Names
    BY Current
  <2>2. PICK n \in Nat \ {0} : /\ Tail(stmt.todo) = [j \in 1 .. n - 1 |-> stmt.todo[j + 1]]
                               /\ \A j \in 1 .. n : ItemOK(j)
    BY Current
  <2>3. /\ stmt' # Idle /\ stmt'.rel = stmt.rel /\ stmt'.type = stmt.type
        /\ stmt'.todo = [j \in 1 .. n - 1 |-> stmt.todo[j + 1]] /\ StmtForm'
    BY <1>3, <2>1, <2>2, Continues
  <2>4. n - 1 \in Nat /\ \A j \in 1 .. n - 1 : stmt'.todo[j] = stmt.todo[j + 1] /\ j + 1 \in 1 .. n /\ j + 1 # 1
    BY <2>3
  <2>5. stmt'.todo = [j \in 1 .. n - 1 |-> stmt'.todo[j]]
    BY <2>3
  <2>6. ASSUME NEW j \in 1 .. n - 1 PROVE ItemOK(j)'
    <3> DEFINE it == stmt.todo[j + 1]
    <3>1. ItemOK(j + 1) /\ stmt'.todo[j] = it /\ j + 1 # 1
      BY <2>2, <2>4
    <3>2. ASSUME it.do = "update", it.file \in RecordFiles, stmt.type # "dropTable",
                 it.rid \in Live(mem[it.file]), it.rec \in RecordOf[it.file],
                 it.rec.rel = Get(mem[it.file], it.rid).rel
          PROVE  ItemOK(j)'
      <4>1. KeepsRelations(mem', mem)
        BY <3>2 DEF Effect
      <4>2. it.rid \in Live(mem'[it.file]) /\ Get(mem'[it.file], it.rid).rel = it.rec.rel
        BY <3>2, <4>1 DEF KeepsRelations
      <4> QED
        BY <2>3, <3>1, <3>2, <4>2 DEF ItemOK
    <3>3. ASSUME it.do # "update" PROVE ItemOK(j)'
      BY <2>3, <3>1, <3>3 DEF ItemOK
    <3> QED
      BY <3>1, <3>2, <3>3 DEF ItemOK
  <2> QED
    BY <2>1, <2>3, <2>4, <2>5, <2>6 DEF StmtOK
<1> QED
  BY <1>1, <1>2, <1>3 DEF Effect

-------------------------------------------------------------------------------
(* Relations of which a step changes nothing.                                *)

SameView(rel) ==
  /\ \A c \in RecordFiles : View(mem'[c], rel) = View(mem[c], rel)
  /\ \A i \in IndexFiles : EntriesFor(mem'[i], rel) = EntriesFor(mem[i], rel)

(* Consistency depends on the views and the entries only.                    *)
LEMMA ConsistentBy ==
  ASSUME NEW rel, SameView(rel)
  PROVE  Consistent(rel) <=> Consistent(rel)'
<1>1. \A c \in RecordFiles : Of(mem'[c], rel) = Of(mem[c], rel)
  BY ViewParts DEF SameView
<1>2. \A c \in RecordFiles : EntriesFor(mem'[IndexOf[c]], rel) = EntriesFor(mem[IndexOf[c]], rel)
  BY Names4 DEF SameView
<1> QED
  BY <1>1, <1>2 DEF Consistent

(* The views of a relation of which nothing changes.                         *)
LEMMA ViewsBy ==
  ASSUME NEW rel, SameView(rel)
  PROVE  Rels(rel)' = Rels(rel) /\ Attrs(rel)' = Attrs(rel)
BY DEF SameView, Rels, Attrs, RecordFiles

(* A relation is known as D also when the order no longer matters.           *)
LEMMA KnownBy ==
  ASSUME NEW rel, NEW D, NEW g, NEW h, NEW F, NEW I, NEW old, Known(rel, D, g, h, F, I, old),
         NEW new, new => old
  PROVE  Known(rel, D, g, h, F, I, new)
BY DEF Known

(* Contents of a relation of which nothing changes.                          *)
LEMMA ContentsBy ==
  ASSUME NEW rel, SameView(rel), FilesOf(rel)' = FilesOf(rel), IndexedOf(rel)' = IndexedOf(rel),
         rel \in DOMAIN declared' <=> rel \in DOMAIN declared,
         rel \in DOMAIN declared => declared'[rel] = declared[rel],
         dropped => dropped', Contents(rel)
  PROVE  Contents(rel)'
<1>1. Rels(rel)' = Rels(rel) /\ Attrs(rel)' = Attrs(rel)
  BY ViewsBy
<1>2. CASE rel \notin DOMAIN declared
  BY <1>1, <1>2 DEF Contents
<1>3. CASE rel \in DOMAIN declared
  <2>1. Known(rel, declared[rel], Attrs(rel), Rels(rel), FilesOf(rel), IndexedOf(rel), ~dropped)
    BY <1>3 DEF Contents
  <2>2. ~dropped' => ~dropped
    OBVIOUS
  <2>3. Known(rel, declared'[rel], Attrs(rel)', Rels(rel)', FilesOf(rel)', IndexedOf(rel)', ~dropped')
    <3>1. Known(rel, declared[rel], Attrs(rel), Rels(rel), FilesOf(rel), IndexedOf(rel), ~dropped')
      BY <2>1, <2>2, KnownBy
    <3> QED
      BY <1>1, <1>3, <3>1
  <2> QED
    BY <1>3, <2>3 DEF Contents
<1> QED
  BY <1>2, <1>3

(* A step changes nothing of the relations outside T.                        *)
LEMMA ElsewhereView ==
  ASSUME NEW T, Elsewhere(mem', mem, T), NEW rel, rel \notin T
  PROVE  SameView(rel)
BY DEF Elsewhere, SameView

(* What memory and disk agree on they agree on after a step.                 *)
LEMMA AgreeBy ==
  ASSUME NEW rel, SameView(rel), NEW f \in AllFiles,
         disk'[f].data = disk[f].data \/ (disk'[f].data = mem[f].data /\ mem'[f] = mem[f]),
         AgreeOn(f, rel)
  PROVE  AgreeOn(f, rel)'
<1>1. CASE f \in RecordFiles
  <2>1. View(mem[f], rel) = View(disk[f], rel)
    BY <1>1 DEF AgreeOn
  <2>2. View(mem'[f], rel) = View(mem[f], rel)
    BY <1>1 DEF SameView
  <2>3. View(disk'[f], rel) = View(disk[f], rel) \/ View(disk'[f], rel) = View(mem[f], rel)
    BY SameData
  <2> QED
    BY <1>1, <2>1, <2>2, <2>3 DEF AgreeOn
<1>2. CASE f \notin RecordFiles
  <2>0. f \in IndexFiles
    BY <1>2, Names4
  <2>1. EntriesFor(mem[f], rel) = EntriesFor(disk[f], rel)
    BY <1>2 DEF AgreeOn
  <2>2. EntriesFor(mem'[f], rel) = EntriesFor(mem[f], rel)
    BY <2>0 DEF SameView
  <2>3. EntriesFor(disk'[f], rel) = EntriesFor(disk[f], rel) \/ EntriesFor(disk'[f], rel) = EntriesFor(mem[f], rel)
    BY SameData
  <2> QED
    BY <1>2, <2>1, <2>2, <2>3 DEF AgreeOn
<1> QED
  BY <1>1, <1>2

(* A step leaves the relations that are not its statement's, nor broken.     *)
LEMMA OthersSettled ==
  ASSUME FilesOK(mem), FilesOK(disk), Within(disk, mem), Effect, UNCHANGED <<declared, indexed, dropped>>,
         NEW rel, rel \notin {stmt.rel} \union broken', Settled(rel)
  PROVE  Settled(rel)'
<1>1. SameView(rel)
  BY ElsewhereView DEF Effect
<1>2. FilesOf(rel)' = FilesOf(rel)
  BY DEF Effect
<1>3. IndexedOf(rel)' = IndexedOf(rel)
  BY DEF IndexedOf
<1>4. Consistent(rel)'
  BY <1>1, ConsistentBy DEF Settled
<1>5. Contents(rel)'
  BY <1>1, <1>2, <1>3, ContentsBy DEF Settled
<1>6. ASSUME NEW f \in AllFiles PROVE AgreeOn(f, rel)'
  <2>1. f \in RecordFiles \/ f \in IndexFiles
    BY Names4
  <2>2. disk'[f].data = disk[f].data \/ (disk'[f].data = mem[f].data /\ mem'[f] = mem[f])
    BY <2>1, StepDisk
  <2>3. AgreeOn(f, rel)
    BY DEF Settled
  <2> QED
    BY <1>1, <2>2, <2>3, AgreeBy
<1> QED
  BY <1>4, <1>5, <1>6 DEF Settled

-------------------------------------------------------------------------------
(* What the actions do to the relation of the statement itself.              *)

(* The next item says which action a step is.                                *)
LEMMA WhichAction ==
  ASSUME Step
  PROVE  /\ db = "open" /\ stmt.todo # <<>>
         /\ Now.do = "insert" => InsertRecord
         /\ Now.do = "dropRel" => DropRelation
         /\ Now.do = "dropAttr" => DropAttribute
         /\ Now.do = "update" => UpdateRecord
         /\ Now.do = "open" => OpenRelation
         /\ Now.do \in {"create", "destroy"} => CreateOrDestroyFile
         /\ Now.do = "force" => ForcePages
         /\ UNCHANGED <<declared, indexed, dropped>>
BY DEF Step, InsertRecord, DropRelation, DropAttribute, UpdateRecord, OpenRelation, CreateOrDestroyFile,
       ForcePages, Doing, Now

(* The files that an edit leaves.                                            *)
LEMMA EditedRest ==
  ASSUME NEW m, NEW c \in RecordFiles, NEW m2, NEW g, NEW X, Edited(m2, m, c, g, X)
  PROVE  /\ m2[c] = g
         /\ \A d \in RecordFiles : d # c => m2[d] = m[d] /\ m2[IndexOf[d]] = m[IndexOf[d]]
<1>1. ASSUME NEW d \in RecordFiles, d # c PROVE d \in AllFiles \ {c, IndexOf[c]} /\ IndexOf[d] \in AllFiles \ {c, IndexOf[c]}
  <2>1. /\ IndexOf["relcat"] = "relIndex" /\ IndexOf["attrcat"] = "attrIndex"
        /\ (d = "relcat" /\ c = "attrcat") \/ (d = "attrcat" /\ c = "relcat")
    BY <1>1, Names4 DEF RecordFiles
  <2> QED
    BY <2>1 DEF AllFiles
<1> QED
  BY <1>1 DEF Edited

(* InsertRecord of a consistent relation goes on and adds a record and its entry. *)
LEMMA InsertView ==
  ASSUME FilesOK(mem), StmtOK, InsertRecord, HasRoom(Target(mem[Now.file])),
         Target(mem[Now.file]) # Hole, Consistent(stmt.rel)
  PROVE  LET c == Now.file
             x == NewRid(mem[c])
             rel == stmt.rel
         IN  /\ Reached(rel) /\ c \in RecordFiles /\ x \in Nat /\ x \notin DOMAIN View(mem[c], rel)
             /\ mem'[c] = InsertRec(mem[c], Now.rec)
             /\ View(mem'[c], rel) = Put(View(mem[c], rel), x, Now.rec)
             /\ \A d \in RecordFiles : d # c => mem'[d] = mem[d]
             /\ \A d \in RecordFiles : EntriesFor(mem'[IndexOf[d]], rel) = Of(mem'[d], rel)
             /\ UNCHANGED <<disk, files, db>>
<1> DEFINE c == Now.file
           x == NewRid(mem[c])
           rel == stmt.rel
           v == Now.rec
           old == mem[IndexOf[c]].data
<1>1. /\ c \in RecordFiles /\ v \in RecordOf[c] /\ v.rel = rel
      /\ IF <<rel, x>> \in old THEN Fail ELSE Reached(rel)
      /\ Edited(mem', mem, c, InsertRec(mem[c], v), old \union {<<rel, x>>})
  BY InsertFiles
<1>2. Sane(mem[c], RecordOf[c]) /\ NoRecord \notin RecordOf[c]
  BY <1>1, IndexData
<1>3. x \in Nat /\ x \notin Live(mem[c])
  BY <1>1, <1>2, InsertRecOK
<1>4. View(InsertRec(mem[c], v), v.rel) = Put(View(mem[c], v.rel), NewRid(mem[c]), v)
  BY <1>1, <1>2, ViewInsert
<1>5. EntriesFor(mem[IndexOf[c]], rel) = Of(mem[c], rel) /\ Of(mem[c], rel) \subseteq Live(mem[c])
  BY <1>1 DEF Consistent, Of
<1>6. <<rel, x>> \notin old
  <2>1. SUFFICES ASSUME <<rel, x>> \in old PROVE x \in EntriesFor(mem[IndexOf[c]], rel)
    BY <1>3, <1>5
  <2>2. <<rel, x>>[1] = rel /\ <<rel, x>>[2] = x
    OBVIOUS
  <2> HIDE DEF x
  <2> QED
    BY <2>1, <2>2 DEF EntriesFor
<1>7. Reached(rel)
  BY <1>1, <1>6
<1> HIDE DEF c, x, rel, v, old
<1>8. /\ mem'[c] = InsertRec(mem[c], v)
      /\ \A d \in RecordFiles : d # c => mem'[d] = mem[d] /\ mem'[IndexOf[d]] = mem[IndexOf[d]]
  BY <1>1, EditedRest
<1>9. View(mem'[c], rel) = Put(View(mem[c], rel), x, v)
  BY <1>1, <1>4, <1>8 DEF x
<1>10. mem'[IndexOf[c]].data = old \union {<<rel, x>>}
  <2>1. mem[IndexOf[c]] \in IndexType
    BY <1>1, IndexData
  <2> QED
    BY <1>1, <2>1 DEF Edited, IndexType
<1>11. EntriesFor(mem'[IndexOf[c]], rel) = EntriesFor(mem[IndexOf[c]], rel) \union {x}
  <2>1. PICK f : f = mem[IndexOf[c]]
    OBVIOUS
  <2>2. PICK g : g = mem'[IndexOf[c]]
    OBVIOUS
  <2>3. g.data = f.data \union {<<rel, x>>}
    BY <1>10, <2>1, <2>2 DEF old
  <2>4. EntriesFor(g, rel) = EntriesFor(f, rel) \union {x}
    <3> DEFINE e == <<rel, x>>
    <3>1. g.data = f.data \union {e} /\ e[1] = rel /\ e[2] = x
      BY <2>3
    <3> HIDE DEF e
    <3> QED
      BY <3>1 DEF EntriesFor
  <2> QED
    BY <2>1, <2>2, <2>4
<1>12. Of(mem'[c], rel) = Of(mem[c], rel) \union {x}
  BY <1>9, ViewParts DEF Put
<1>13. \A d \in RecordFiles : EntriesFor(mem'[IndexOf[d]], rel) = Of(mem'[d], rel)
  BY <1>5, <1>8, <1>11, <1>12 DEF Consistent, rel
<1>14. UNCHANGED <<disk, files, db>>
  <2>1. <<stmt.rel, NewRid(mem[Now.file])>> \notin mem[IndexOf[Now.file]].data
    BY <1>6 DEF c, x, rel, old
  <2> QED
    BY <2>1 DEF InsertRecord
<1>15. x \notin DOMAIN View(mem[c], rel)
  BY <1>3, <1>5, ViewParts DEF x, c
<1> QED
  BY <1>1, <1>3, <1>7, <1>8, <1>9, <1>13, <1>14, <1>15 DEF c, x, rel, v

(* UpdateRecord of a consistent relation changes one record and no entry.    *)
LEMMA UpdateView ==
  ASSUME FilesOK(mem), StmtOK, UpdateRecord, Now.rec.rel = stmt.rel, Consistent(stmt.rel)
  PROVE  LET c == Now.file
             rel == stmt.rel
         IN  /\ Reached(rel) /\ c \in RecordFiles /\ Now.rid \in DOMAIN View(mem[c], rel)
             /\ View(mem'[c], rel) = Put(View(mem[c], rel), Now.rid, Now.rec)
             /\ \A d \in RecordFiles : d # c => mem'[d] = mem[d]
             /\ \A i \in IndexFiles : mem'[i] = mem[i]
             /\ \A d \in RecordFiles : EntriesFor(mem'[IndexOf[d]], rel) = Of(mem'[d], rel)
             /\ UNCHANGED <<disk, files, db>>
<1> DEFINE c == Now.file
           rel == stmt.rel
           v == Now.rec
           x == Now.rid
           old == mem[IndexOf[c]].data
<1>1. /\ c \in RecordFiles /\ v \in RecordOf[c] /\ x \in Live(mem[c])
      /\ v.rel = Get(mem[c], x).rel /\ v.rel = rel
      /\ Reached(rel)
      /\ Edited(mem', mem, c, UpdateRec(mem[c], x, v), old)
  BY UpdateFiles
<1>2. Sane(mem[c], RecordOf[c]) /\ NoRecord \notin RecordOf[c] /\ mem[IndexOf[c]] \in IndexType
  BY <1>1, IndexData
<1> HIDE DEF c, rel, v, x
<1>3. /\ View(UpdateRec(mem[c], x, v), v.rel) = Put(View(mem[c], v.rel), x, v)
      /\ x \in Of(mem[c], v.rel)
  <2>1. PICK f, R : f = mem[c] /\ R = RecordOf[c]
    OBVIOUS
  <2>2. NoRecord \notin R /\ Sane(f, R) /\ x \in Live(f) /\ v \in R /\ v.rel = Get(f, x).rel
    BY <1>1, <1>2, <2>1
  <2>3. View(UpdateRec(f, x, v), v.rel) = Put(View(f, v.rel), x, v) /\ x \in Of(f, v.rel)
    BY <2>2, ViewUpdate
  <2> QED
    BY <2>1, <2>3
<1>4. /\ mem'[c] = UpdateRec(mem[c], x, v)
      /\ \A d \in RecordFiles : d # c => mem'[d] = mem[d] /\ mem'[IndexOf[d]] = mem[IndexOf[d]]
  BY <1>1, EditedRest
<1>5. mem'[IndexOf[c]] = mem[IndexOf[c]]
  BY <1>1, <1>2 DEF Edited, IndexType
<1>6. View(mem'[c], rel) = Put(View(mem[c], rel), x, v) /\ x \in Of(mem[c], rel)
  BY <1>1, <1>3, <1>4
<1>7. \A d \in RecordFiles : mem'[IndexOf[d]] = mem[IndexOf[d]]
  BY <1>4, <1>5
<1>8. Of(mem'[c], rel) = Of(mem[c], rel)
  BY <1>6, ViewParts DEF Put
<1>9. \A i \in IndexFiles : \E d \in RecordFiles : i = IndexOf[d]
  BY Names4 DEF IndexFiles, RecordFiles
<1>10. \A d \in RecordFiles : EntriesFor(mem'[IndexOf[d]], rel) = Of(mem'[d], rel)
  BY <1>4, <1>7, <1>8 DEF Consistent, rel
<1>11. UNCHANGED <<disk, files, db>>
  BY DEF UpdateRecord
<1>12. x \in DOMAIN View(mem[c], rel)
  BY <1>6, ViewParts
<1> QED
  BY <1>1, <1>4, <1>6, <1>7, <1>9, <1>10, <1>11, <1>12 DEF c, rel, v, x

(* DeleteRecord of a consistent relation removes one record and its entry.   *)
LEMMA DeleteView ==
  ASSUME FilesOK(mem), NEW c \in RecordFiles, NEW x, x \in DOMAIN View(mem[c], stmt.rel),
         DeleteRecord(c, x), Consistent(stmt.rel)
  PROVE  LET rel == stmt.rel
         IN  /\ Reached(rel)
             /\ View(mem'[c], rel) = Without(View(mem[c], rel), x)
             /\ \A d \in RecordFiles : d # c => mem'[d] = mem[d]
             /\ \A d \in RecordFiles : EntriesFor(mem'[IndexOf[d]], rel) = Of(mem'[d], rel)
<1> DEFINE rel == stmt.rel
           old == mem[IndexOf[c]].data
<1>1. x \in Live(mem[c]) /\ Get(mem[c], x).rel = rel
  BY DEF View, Of
<1>2. Reached(rel)
  BY <1>1 DEF DeleteRecord, Rec, Get
<1>3. Edited(mem', mem, c, DeleteRec(mem[c], x), old \ {<<rel, x>>})
  BY DeleteFiles
<1>4. Sane(mem[c], RecordOf[c]) /\ NoRecord \notin RecordOf[c] /\ mem[IndexOf[c]] \in IndexType /\ old \subseteq Names \X Nat
  BY IndexData
<1>5. View(DeleteRec(mem[c], x), Get(mem[c], x).rel) = Without(View(mem[c], Get(mem[c], x).rel), x)
  BY <1>1, <1>4, ViewDelete
<1> HIDE DEF rel
<1>6. /\ mem'[c] = DeleteRec(mem[c], x)
      /\ \A d \in RecordFiles : d # c => mem'[d] = mem[d] /\ mem'[IndexOf[d]] = mem[IndexOf[d]]
  BY <1>3, EditedRest
<1>7. View(mem'[c], rel) = Without(View(mem[c], rel), x)
  BY <1>1, <1>5, <1>6
<1>8. mem'[IndexOf[c]].data = old \ {<<rel, x>>}
  BY <1>3, <1>4 DEF Edited, IndexType
<1>9. EntriesFor(mem'[IndexOf[c]], rel) = EntriesFor(mem[IndexOf[c]], rel) \ {x}
  <2>1. PICK f : f = mem[IndexOf[c]]
    OBVIOUS
  <2>2. PICK g : g = mem'[IndexOf[c]]
    OBVIOUS
  <2>3. g.data = f.data \ {<<rel, x>>} /\ f.data \subseteq Names \X Nat
    BY <1>4, <1>8, <2>1, <2>2
  <2>4. EntriesFor(g, rel) = EntriesFor(f, rel) \ {x}
    BY <2>3, EntryRemoved
  <2> QED
    BY <2>1, <2>2, <2>4
<1>10. Of(mem'[c], rel) = Of(mem[c], rel) \ {x}
  BY <1>7, ViewParts DEF Without
<1>11. \A d \in RecordFiles : EntriesFor(mem'[IndexOf[d]], rel) = Of(mem'[d], rel)
  BY <1>6, <1>9, <1>10 DEF Consistent, rel
<1> QED
  BY <1>2, <1>6, <1>7, <1>11 DEF rel

(* After ForcePages of a file memory and disk agree on it.                   *)
LEMMA ForceView ==
  ASSUME FilesOK(mem), FilesOK(disk), Within(disk, mem), StmtOK, ForcePages, NEW rel
  PROVE  /\ UNCHANGED <<mem, files, db, broken, failed>> /\ Continue
         /\ SameView(rel)
         /\ \A f : f = Now.file => AgreeOn(f, rel)'
         /\ \A f \in AllFiles : AgreeOn(f, rel) => AgreeOn(f, rel)'
<1>1. /\ UNCHANGED <<mem, files, db, broken, failed>> /\ Continue
      /\ disk' = [disk EXCEPT ![Now.file].data = mem[Now.file].data]
  BY DEF ForcePages
<1>2. Now.file \in AllFiles /\ stmt # Idle /\ StmtForm
  <2>1. Now.do = "force" /\ stmt.todo # <<>>
    BY DEF ForcePages, Doing, Now
  <2> QED
    BY <2>1, Current DEF ItemOK
<1>3. SameView(rel)
  BY <1>1 DEF SameView
<1>4. PICK f0 \in AllFiles : f0 = Now.file
  BY <1>2
<1>5. disk'[f0].data = mem[f0].data
  <2>1. disk = [f \in AllFiles |-> disk[f]]
    BY DEF FilesOK
  <2>2. disk'[f0] = Mixed(disk, mem, f0)
    BY <1>1, <1>4, <2>1 DEF Mixed
  <2>3. Mixed(disk, mem, f0).data = mem[f0].data
    BY Names4, MixedOK
  <2> QED
    BY <2>2, <2>3
<1>6. \A f \in AllFiles : f # f0 => disk'[f] = disk[f]
  BY <1>1, <1>4 DEF FilesOK
<1>7. ASSUME NEW f \in AllFiles, AgreeOn(f, rel) PROVE AgreeOn(f, rel)'
  <2>1. disk'[f].data = disk[f].data \/ (disk'[f].data = mem[f].data /\ mem'[f] = mem[f])
    BY <1>1, <1>5, <1>6
  <2> QED
    BY <1>3, <1>7, <2>1, AgreeBy
<1>8. AgreeOn(f0, rel)'
  <2>1. View(mem'[f0], rel) = View(disk'[f0], rel) /\ EntriesFor(mem'[f0], rel) = EntriesFor(disk'[f0], rel)
    BY <1>1, <1>5, SameData
  <2> QED
    BY <2>1 DEF AgreeOn
<1> QED
  BY <1>1, <1>3, <1>4, <1>7, <1>8

-------------------------------------------------------------------------------
(* A relation in the course of CREATE TABLE.                                 *)

(* The next item of a plan of which k have been done.                        *)
LEMMA Planned ==
  ASSUME NEW P, NEW N \in Nat, NEW k \in 0 .. N, Remaining(P, N, k)
  PROVE  /\ stmt.todo # <<>> <=> k < N
         /\ stmt.todo # <<>> => Now = P[k + 1] /\ k + 1 \in 1 .. N
         /\ stmt.todo # <<>> /\ stmt'.todo = Tail(stmt.todo) => Remaining(P, N, k + 1)'
<1>1. N - k \in Nat /\ stmt.todo = [j \in 1 .. N - k |-> P[j + k]]
  BY DEF Remaining
<1>2. stmt.todo = [j \in 1 .. N - k |-> stmt.todo[j]]
  BY <1>1
<1>3. /\ Len(stmt.todo) = N - k
      /\ stmt.todo # <<>> <=> N - k > 0
      /\ N - k > 0 => Head(stmt.todo) = stmt.todo[1]
                      /\ Tail(stmt.todo) = [j \in 1 .. N - k - 1 |-> stmt.todo[j + 1]]
  BY <1>1, <1>2, Todo
<1>4. N - k > 0 => stmt.todo[1] = P[k + 1]
  BY <1>1
<1>5. N - k > 0 => Tail(stmt.todo) = [j \in 1 .. N - (k + 1) |-> P[j + (k + 1)]]
  <2> SUFFICES ASSUME N - k > 0
               PROVE  [j \in 1 .. N - k - 1 |-> stmt.todo[j + 1]] = [j \in 1 .. N - (k + 1) |-> P[j + (k + 1)]]
    BY <1>3
  <2>1. N - k - 1 = N - (k + 1)
    OBVIOUS
  <2>2. \A j \in 1 .. N - k - 1 : j + 1 \in 1 .. N - k /\ (j + 1) + k = j + (k + 1)
    OBVIOUS
  <2>3. \A j \in 1 .. N - k - 1 : stmt.todo[j + 1] = P[j + (k + 1)]
    BY <1>1, <2>2
  <2> QED
    BY <2>1, <2>3
<1>6. stmt.todo # <<>> <=> k < N
  BY <1>3
<1>7. stmt.todo # <<>> => Now = P[k + 1] /\ k + 1 \in 1 .. N
  BY <1>3, <1>4 DEF Now
<1>8. ASSUME stmt.todo # <<>>, stmt'.todo = Tail(stmt.todo) PROVE Remaining(P, N, k + 1)'
  <2>1. stmt'.todo = [j \in 1 .. N - (k + 1) |-> P[j + (k + 1)]]
    BY <1>3, <1>5, <1>8
  <2> QED
    BY <2>1 DEF Remaining
<1> QED
  BY <1>6, <1>7, <1>8

(* The items of CREATE TABLE.                                                *)
LEMMA CreateItem ==
  ASSUME NEW rel, NEW D, Len(D) \in Nat, NEW k \in 0 .. Len(D) + 5
  PROVE  LET it == CreatePlan(rel, D)[k + 1]
         IN  /\ k < Len(D) => it = [do |-> "insert", file |-> "attrcat", rec |-> NewAttr(rel, D, k + 1)]
             /\ k = Len(D) => it = [do |-> "insert", file |-> "relcat", rec |-> NewRel(rel, D)]
             /\ Len(D) < k /\ k < Len(D) + 5 => it = Flushing(FlushOrder[k - Len(D)])
             /\ k = Len(D) + 5 => it = [do |-> "create", file |-> <<rel>>]
<1>1. k + 1 \in 1 .. Len(D) + 6 /\ k + 1 - (Len(D) + 1) = k - Len(D)
  OBVIOUS
<1> QED
  BY <1>1 DEF CreatePlan

(* The flags of ForcePages after one more of them.                           *)
LEMMA FlushedMore ==
  ASSUME NEW rel, NEW n \in Nat, NEW k \in Nat, FlushedUpTo(k, n, rel), k >= n, k < n + 4,
         FilesOK(mem), FilesOK(disk), Within(disk, mem), StmtOK, ForcePages,
         Now.file = FlushOrder[k + 1 - n]
  PROVE  FlushedUpTo(k + 1, n, rel)'
<1>1. /\ \A f : f = Now.file => AgreeOn(f, rel)'
      /\ \A f \in AllFiles : AgreeOn(f, rel) => AgreeOn(f, rel)'
  BY ForceView
<1> SUFFICES ASSUME NEW j \in 1 .. 4, k + 1 >= n + j PROVE AgreeOn(FlushOrder[j], rel)'
  BY DEF FlushedUpTo
<1>2. CASE k >= n + j
  <2>1. AgreeOn(FlushOrder[j], rel)
    BY <1>2 DEF FlushedUpTo
  <2>2. FlushOrder[j] \in AllFiles
    BY DEF FlushOrder, AllFiles
  <2> QED
    BY <1>1, <2>1, <2>2
<1>3. CASE ~(k >= n + j)
  <2>1. j = k + 1 - n
    BY <1>3
  <2> QED
    BY <1>1, <2>1
<1> QED
  BY <1>2, <1>3

Underway(rel, what) ==
  /\ FilesOK(mem) /\ FilesOK(disk) /\ Within(disk, mem) /\ StmtOK /\ HeadersOK /\ LogOK
  /\ Step /\ db' = "open"
  /\ rel = stmt.rel /\ rel \notin broken /\ stmt.type = what /\ Consistent(rel)

Onward(rel) ==
  /\ Continue /\ broken' = broken /\ UNCHANGED <<failed, declared, indexed, dropped>>
  /\ Consistent(rel)'

(* The reads of the records themselves.                                      *)
LEMMA ConsistentNow ==
  ASSUME NEW rel, \A d \in RecordFiles : EntriesFor(mem'[IndexOf[d]], rel) = Of(mem'[d], rel)
  PROVE  Consistent(rel)'
BY DEF Consistent

(* A step that reaches the statement's own relation breaks none.             *)
LEMMA ReachedSelf ==
  ASSUME Reached(stmt.rel), stmt.rel \notin broken
  PROVE  Continue /\ broken' = broken /\ UNCHANGED failed
BY Broken

(* The records of a view.                                                    *)
LEMMA ViewTyped ==
  ASSUME FilesOK(mem), NEW c \in RecordFiles, NEW rel
  PROVE  /\ DOMAIN View(mem[c], rel) \subseteq Nat
         /\ DOMAIN View(mem[c], rel) = Of(mem[c], rel)
         /\ \A x \in DOMAIN View(mem[c], rel) :
              View(mem[c], rel)[x] = Get(mem[c], x) /\ Get(mem[c], x) \in RecordOf[c] /\ Get(mem[c], x).rel = rel
<1>1. Of(mem[c], rel) \subseteq Live(mem[c]) /\ \A x \in Of(mem[c], rel) : Get(mem[c], x).rel = rel
  BY DEF Of
<1>2. Live(mem[c]) \subseteq Nat /\ \A x \in Live(mem[c]) : Get(mem[c], x) \in RecordOf[c]
  BY ReadsRecords
<1>3. DOMAIN View(mem[c], rel) = Of(mem[c], rel) /\ \A x \in Of(mem[c], rel) : View(mem[c], rel)[x] = Get(mem[c], x)
  BY ViewParts
<1> QED
  BY <1>1, <1>2, <1>3

(* A declaration is a sequence of distinct attributes.                       *)
LEMMA CreatingSame ==
  ASSUME NEW D \in Declarations
  PROVE  Len(D) \in Nat /\ D \in Seq(Attributes) /\ DOMAIN D = 1 .. Len(D)
         /\ (\A i, j \in 1 .. Len(D) : D[i] = D[j] => i = j)
<1>1. D \in Seq(Attributes) /\ IsInjective(D)
  BY CatalogConstants
<1> QED
  BY <1>1 DEF IsInjective

(* CREATE TABLE inserts the record of the next attribute.                    *)
LEMMA AttributeInserted ==
  ASSUME NEW rel, Underway(rel, "createTable"), NEW D \in Declarations,
         NEW k \in 0 .. Len(D) + 6, k < Len(D), Creating(rel, D, k)
  PROVE  Onward(rel) /\ Creating(rel, D, k + 1)'
<1> DEFINE n == Len(D)
           v == NewAttr(rel, D, k + 1)
           f == mem["attrcat"]
           x == NewRid(f)
           g == Attrs(rel)
<1>1. n \in Nat /\ DOMAIN D = 1 .. n /\ n + 6 \in Nat /\ k \in 0 .. n + 5
  BY CreatingSame
<1>2. Remaining(CreatePlan(rel, D), n + 6, k)
  BY DEF Creating
<1>3. stmt.todo # <<>> /\ UNCHANGED <<declared, indexed, dropped>>
  BY WhichAction DEF Underway
<1>4. Now = [do |-> "insert", file |-> "attrcat", rec |-> v]
  <2>1. Now = CreatePlan(rel, D)[k + 1]
    BY <1>1, <1>2, <1>3, Planned
  <2> QED
    BY <1>1, <2>1, CreateItem
<1>5. InsertRecord /\ Now.file = "attrcat" /\ Now.rec = v
  BY <1>4, WhichAction DEF Underway
<1>6. HasRoom(Target(f)) /\ Target(f) # Hole
  BY <1>5 DEF InsertRecord, Underway
<1>7. /\ Reached(rel) /\ "attrcat" \in RecordFiles /\ x \in Nat /\ x \notin DOMAIN g
      /\ mem'["attrcat"] = InsertRec(f, v)
      /\ Attrs(rel)' = Put(g, x, v)
      /\ \A d \in RecordFiles : d # "attrcat" => mem'[d] = mem[d]
      /\ \A d \in RecordFiles : EntriesFor(mem'[IndexOf[d]], rel) = Of(mem'[d], rel)
      /\ UNCHANGED <<disk, files, db>>
  BY <1>5, <1>6, InsertView DEF Underway, Attrs
<1>26. DOMAIN g \subseteq Nat
  BY <1>7, ViewTyped DEF Underway, Attrs
<1>8. Onward(rel)
  BY <1>3, <1>7, ConsistentNow, ReachedSelf DEF Onward, Underway
<1>9. Remaining(CreatePlan(rel, D), n + 6, k + 1)'
  <2>1. stmt'.todo = Tail(stmt.todo)
    BY <1>3, <1>8, Current, Continues DEF Onward, Underway
  <2> QED
    BY <1>1, <1>2, <1>3, <2>1, Planned
<1>10. Rels(rel)' = Rels(rel)
  BY <1>7 DEF Rels, RecordFiles
<1>11. PICK rho \in [1 .. k -> DOMAIN g] :
         Described(g, D, rho, k) /\ (~dropped => InsertsAscend(rho, k, k, n))
  BY DEF Creating
<1> DEFINE g2 == Put(g, x, v)
<1>12. /\ DOMAIN g2 = DOMAIN g \union {x}
       /\ g2[x] = v /\ \A y \in DOMAIN g : g2[y] = g[y]
  BY <1>7 DEF Put
<1>13. v.attr = D[k + 1] /\ v.offset = k + 1 /\ v.indexNo = -1
  BY DEF NewAttr
<1> HIDE DEF g2, v
<1>14. PICK rho2 :
       /\ rho2 \in [1 .. k + 1 -> DOMAIN g2] /\ rho2[k + 1] = x
       /\ \A i \in 1 .. k : rho2[i] = rho[i] /\ rho[i] \in DOMAIN g /\ rho[i] # x
       /\ \A i \in 1 .. k + 1 : i = k + 1 \/ i \in 1 .. k
  <2> DEFINE r2 == [i \in 1 .. k + 1 |-> IF i = k + 1 THEN x ELSE rho[i]]
  <2>1. /\ r2 \in [1 .. k + 1 -> DOMAIN g2] /\ r2[k + 1] = x
        /\ \A i \in 1 .. k : r2[i] = rho[i] /\ rho[i] \in DOMAIN g /\ rho[i] # x
        /\ \A i \in 1 .. k + 1 : i = k + 1 \/ i \in 1 .. k
    BY <1>7, <1>12
  <2> QED
    BY <2>1
<1>15. Described(g2, D, rho2, k + 1)
  <2>1. \A i, j \in 1 .. k + 1 : rho2[i] = rho2[j] => i = j
    BY <1>11, <1>14 DEF Described
  <2>2. \A rid \in DOMAIN g2 : \E i \in 1 .. k + 1 : rho2[i] = rid
    <3>1. k + 1 \in 1 .. k + 1 /\ \A i \in 1 .. k : i \in 1 .. k + 1
      OBVIOUS
    <3> QED
      BY <1>11, <1>12, <1>14, <3>1 DEF Described
  <2>3. \A i \in 1 .. k + 1 : g2[rho2[i]].attr = D[i] /\ g2[rho2[i]].offset = i
    BY <1>11, <1>12, <1>13, <1>14 DEF Described
  <2> QED
    BY <1>14, <2>1, <2>2, <2>3 DEF Described
<1>16. WithIndex(g2) = {}
  BY <1>12, <1>13 DEF Creating, WithIndex
<1>17. ASSUME ~dropped' PROVE InsertsAscend(rho2, k + 1, k + 1, n)'
  <2>1. ~dropped /\ Unlinked(f)
    BY <1>3, <1>7, <1>17 DEF HeadersOK, Underway
  <2>2. /\ Ascending(rho, k)
        /\ 0 < k => NewRid(f) > rho[k]
    BY <1>11, <2>1 DEF InsertsAscend
  <2>3. HasRoom(Target(InsertRec(f, v))) /\ Target(InsertRec(f, v)) # Hole /\ NewRid(InsertRec(f, v)) > x
    <3>1. Sane(f, RecordOf["attrcat"]) /\ NoRecord \notin RecordOf["attrcat"]
      BY <1>7, IndexData DEF Underway
    <3>2. v \in RecordOf["attrcat"]
      BY <1>5, <1>6, InsertFiles DEF Underway
    <3> QED
      BY <1>6, <2>1, <3>1, <3>2, InsertRecOK
  <2>4. Ascending(rho2, k + 1)
    <3> SUFFICES ASSUME NEW i \in 1 .. k + 1, NEW j \in 1 .. k + 1, i < j PROVE rho2[i] < rho2[j]
      BY DEF Ascending
    <3>1. CASE j = k + 1
      <4>1. i \in 1 .. k /\ k \in 1 .. k /\ 0 < k
        BY <3>1
      <4>2. rho[i] <= rho[k]
        <5>1. CASE i = k
          <6>1. rho[k] \in Nat
            BY <1>14, <1>26, <4>1
          <6> QED
            BY <5>1, <6>1
        <5>2. CASE i # k
          <6>1. rho[i] < rho[k]
            BY <2>2, <4>1, <5>2 DEF Ascending
          <6>2. rho[i] \in Nat /\ rho[k] \in Nat
            BY <1>14, <1>26, <4>1
          <6> QED
            BY <6>1, <6>2
        <5> QED
          BY <5>1, <5>2
      <4>3. rho[i] \in Nat /\ rho[k] \in Nat
        BY <1>14, <1>26, <4>1
      <4> HIDE DEF x
      <4>4. x > rho[k] /\ x \in Nat
        BY <1>7, <2>2, <4>1 DEF x
      <4> QED
        BY <1>14, <3>1, <4>1, <4>2, <4>3, <4>4
    <3>2. CASE j # k + 1
      <4>1. i \in 1 .. k /\ j \in 1 .. k
        BY <3>2
      <4> QED
        BY <1>14, <2>2, <4>1 DEF Ascending
    <3> QED
      BY <3>1, <3>2
  <2> QED
    BY <1>7, <1>14, <2>3, <2>4 DEF InsertsAscend
<1>18. \A rel2 : FilesOf(rel2)' = FilesOf(rel2)
  BY <1>7, FilesSame
<1>19. FlushedUpTo(k + 1, n + 1, rel)'
  BY DEF FlushedUpTo
<1>20. IndexedOf(rel)' = IndexedOf(rel)
  BY <1>3 DEF IndexedOf
<1>21. (IF k + 1 < n THEN k + 1 ELSE n) = k + 1 /\ (IF k < n THEN k ELSE n) = k /\ k <= n /\ k + 1 <= n /\ k + 1 < n + 6 /\ k < n + 6
  BY <1>1
<1>22. DOMAIN Rels(rel) = {} /\ FilesOf(rel) = {} /\ rel \notin DOMAIN declared /\ IndexedOf(rel) = {}
  BY <1>21 DEF Creating
<1>23. Attrs(rel)' = g2
  BY <1>7 DEF g2, v
<1>24. \E r2 \in [1 .. k + 1 -> DOMAIN g2] :
         Described(g2, D, r2, k + 1) /\ (~dropped' => InsertsAscend(r2, k + 1, k + 1, n)')
  BY <1>14, <1>15, <1>17
<1> HIDE DEF n, g, x, f
<1>25. Creating(rel, D, k + 1)'
  BY <1>3, <1>9, <1>10, <1>16, <1>18, <1>19, <1>20, <1>21, <1>22, <1>23, <1>24 DEF Creating, n
<1> QED
  BY <1>8, <1>25

(* CREATE TABLE inserts the record of the relation.                          *)
LEMMA RelationInserted ==
  ASSUME NEW rel, Underway(rel, "createTable"), NEW D \in Declarations,
         NEW k, k = Len(D), Creating(rel, D, k)
  PROVE  Onward(rel) /\ Creating(rel, D, k + 1)'
<1> DEFINE n == Len(D)
           v == NewRel(rel, D)
           f == mem["relcat"]
           x == NewRid(f)
           g == Attrs(rel)
           h == Rels(rel)
<1>1. n \in Nat /\ n + 6 \in Nat /\ k \in 0 .. n + 5 /\ k \in 0 .. n + 6 /\ k = n
  BY CreatingSame
<1>2. Remaining(CreatePlan(rel, D), n + 6, k)
  BY DEF Creating
<1>3. stmt.todo # <<>> /\ UNCHANGED <<declared, indexed, dropped>>
  BY WhichAction DEF Underway
<1>4. Now = [do |-> "insert", file |-> "relcat", rec |-> v]
  <2>1. Now = CreatePlan(rel, D)[k + 1]
    BY <1>1, <1>2, <1>3, Planned
  <2> QED
    BY <1>1, <2>1, CreateItem
<1>5. InsertRecord /\ Now.file = "relcat" /\ Now.rec = v
  BY <1>4, WhichAction DEF Underway
<1>6. HasRoom(Target(f)) /\ Target(f) # Hole
  BY <1>5 DEF InsertRecord, Underway
<1>7. /\ Reached(rel) /\ "relcat" \in RecordFiles /\ "attrcat" \in RecordFiles /\ x \in Nat
      /\ Rels(rel)' = Put(h, x, v)
      /\ \A d \in RecordFiles : d # "relcat" => mem'[d] = mem[d]
      /\ \A d \in RecordFiles : EntriesFor(mem'[IndexOf[d]], rel) = Of(mem'[d], rel)
      /\ UNCHANGED <<disk, files, db>>
  BY <1>5, <1>6, InsertView DEF Underway, Rels, RecordFiles
<1>8. Onward(rel)
  BY <1>3, <1>7, ConsistentNow, ReachedSelf DEF Onward, Underway
<1>9. Remaining(CreatePlan(rel, D), n + 6, k + 1)'
  <2>1. stmt'.todo = Tail(stmt.todo)
    BY <1>3, <1>8, Current, Continues DEF Onward, Underway
  <2> QED
    BY <1>1, <1>2, <1>3, <2>1, Planned
<1>10. mem'["attrcat"] = mem["attrcat"] /\ Attrs(rel)' = g
  BY <1>7 DEF Attrs
<1>11. (IF k + 1 < n THEN k + 1 ELSE n) = n /\ (IF k < n THEN k ELSE n) = n
       /\ ~(k + 1 <= n) /\ k + 1 < n + 6 /\ k < n + 6 /\ k <= n
  BY <1>1
<1>12. PICK rho \in [1 .. n -> DOMAIN g] :
         Described(g, D, rho, n) /\ (~dropped => InsertsAscend(rho, n, k, n))
  BY <1>11 DEF Creating
<1>13. ~dropped' => InsertsAscend(rho, n, k + 1, n)'
  BY <1>3, <1>11, <1>12 DEF InsertsAscend
<1>14. DOMAIN h = {} /\ FilesOf(rel) = {} /\ rel \notin DOMAIN declared /\ IndexedOf(rel) = {} /\ WithIndex(g) = {}
  BY <1>11 DEF Creating
<1>15. \E r \in DOMAIN Put(h, x, v) : Table(Put(h, x, v), rel, n, r, 0)
  <2>1. Put(h, x, v) = [rid \in {x} |-> v]
    BY <1>14 DEF Put
  <2> QED
    BY <2>1 DEF Table, NewRel
<1>16. FilesOf(rel)' = FilesOf(rel) /\ IndexedOf(rel)' = IndexedOf(rel)
  BY <1>3, <1>7, FilesSame DEF IndexedOf
<1>17. FlushedUpTo(k + 1, n + 1, rel)'
  BY <1>1 DEF FlushedUpTo
<1> HIDE DEF n, g, h, x, f, v
<1>18. Creating(rel, D, k + 1)'
  BY <1>3, <1>7, <1>9, <1>10, <1>11, <1>12, <1>13, <1>14, <1>15, <1>16, <1>17 DEF Creating, n, g, h
<1> QED
  BY <1>8, <1>18

(* CREATE TABLE forces the pages of one of the four files.                   *)
LEMMA CreateFlushed ==
  ASSUME NEW rel, Underway(rel, "createTable"), NEW D \in Declarations,
         NEW k \in 0 .. Len(D) + 6, Len(D) < k, k < Len(D) + 5, Creating(rel, D, k)
  PROVE  Onward(rel) /\ Creating(rel, D, k + 1)'
<1> DEFINE n == Len(D)
           g == Attrs(rel)
<1>1. n \in Nat /\ n + 6 \in Nat /\ k \in 0 .. n + 5
  BY CreatingSame
<1>2. Remaining(CreatePlan(rel, D), n + 6, k)
  BY DEF Creating
<1>3. stmt.todo # <<>> /\ UNCHANGED <<declared, indexed, dropped>>
  BY WhichAction DEF Underway
<1>4. Now = Flushing(FlushOrder[k - n])
  <2>1. Now = CreatePlan(rel, D)[k + 1]
    BY <1>1, <1>2, <1>3, Planned
  <2> QED
    BY <1>1, <2>1, CreateItem
<1>5. ForcePages /\ Now.file = FlushOrder[k - n]
  BY <1>4, WhichAction DEF Underway, Flushing
<1>6. /\ UNCHANGED <<mem, files, db, broken, failed>> /\ Continue /\ SameView(rel)
  BY <1>5, ForceView DEF Underway
<1>7. FlushedUpTo(k + 1, n + 1, rel)'
  <2>1. FlushedUpTo(k, n + 1, rel)
    BY DEF Creating
  <2>2. n + 1 \in Nat /\ k \in Nat /\ k >= n + 1 /\ k < (n + 1) + 4 /\ k + 1 - (n + 1) = k - n
    BY <1>1
  <2>3. Now.file = FlushOrder[k + 1 - (n + 1)]
    BY <1>5, <2>2
  <2> HIDE DEF n
  <2> QED
    BY <1>5, <2>1, <2>2, <2>3, FlushedMore DEF Underway
<1>8. Onward(rel)
  BY <1>3, <1>6, ConsistentBy DEF Onward, Underway
<1>9. Remaining(CreatePlan(rel, D), n + 6, k + 1)'
  <2>1. stmt'.todo = Tail(stmt.todo)
    BY <1>3, <1>8, Current, Continues DEF Onward, Underway
  <2> QED
    BY <1>1, <1>2, <1>3, <2>1, Planned
<1>10. Attrs(rel)' = g /\ Rels(rel)' = Rels(rel)
  BY <1>6, ViewsBy
<1>11. (IF k + 1 < n THEN k + 1 ELSE n) = n /\ (IF k < n THEN k ELSE n) = n
       /\ ~(k + 1 <= n) /\ k + 1 < n + 6 /\ k < n + 6 /\ ~(k <= n)
  BY <1>1
<1>12. PICK rho \in [1 .. n -> DOMAIN g] :
         Described(g, D, rho, n) /\ (~dropped => InsertsAscend(rho, n, k, n))
  BY <1>11 DEF Creating
<1>13. ~dropped' => InsertsAscend(rho, n, k + 1, n)'
  BY <1>3, <1>11, <1>12 DEF InsertsAscend
<1>14. /\ \E r \in DOMAIN Rels(rel) : Table(Rels(rel), rel, n, r, 0)
       /\ FilesOf(rel) = {} /\ rel \notin DOMAIN declared /\ IndexedOf(rel) = {} /\ WithIndex(g) = {}
  BY <1>11 DEF Creating
<1>16. FilesOf(rel)' = FilesOf(rel) /\ IndexedOf(rel)' = IndexedOf(rel)
  BY <1>3, <1>6, FilesSame DEF IndexedOf
<1> HIDE DEF n, g
<1>18. Creating(rel, D, k + 1)'
  BY <1>3, <1>7, <1>9, <1>10, <1>11, <1>12, <1>13, <1>14, <1>16 DEF Creating, n, g
<1> QED
  BY <1>8, <1>18

(* CREATE TABLE makes the relation's file; it can only exist if it is the log. *)
LEMMA TableFileMade ==
  ASSUME NEW rel, Underway(rel, "createTable"), NEW D \in Declarations,
         NEW k, k = Len(D) + 5, Creating(rel, D, k)
  PROVE  \/ Onward(rel) /\ Creating(rel, D, k + 1)'
         \/ rel = LogFile /\ Fail
<1> DEFINE n == Len(D)
           g == Attrs(rel)
<1>1. n \in Nat /\ n + 6 \in Nat /\ k \in 0 .. n + 5 /\ k \in 0 .. n + 6 /\ k = n + 5
  BY CreatingSame
<1>2. Remaining(CreatePlan(rel, D), n + 6, k)
  BY DEF Creating
<1>3. stmt.todo # <<>> /\ UNCHANGED <<declared, indexed, dropped>>
  BY WhichAction DEF Underway
<1>4. Now = [do |-> "create", file |-> <<rel>>]
  <2>1. Now = CreatePlan(rel, D)[k + 1]
    BY <1>1, <1>2, <1>3, Planned
  <2> QED
    BY <1>1, <2>1, CreateItem
<1>5. CreateOrDestroyFile /\ Now.file = <<rel>> /\ Now.do = "create"
  BY <1>4, WhichAction DEF Underway
<1>11. (IF k + 1 < n THEN k + 1 ELSE n) = n /\ (IF k < n THEN k ELSE n) = n
       /\ ~(k + 1 <= n) /\ ~(k + 1 < n + 6) /\ k < n + 6 /\ ~(k <= n)
  BY <1>1
<1>12. PICK rho \in [1 .. n -> DOMAIN g] :
         Described(g, D, rho, n) /\ (~dropped => InsertsAscend(rho, n, k, n))
  BY <1>11 DEF Creating
<1>14. /\ \E r \in DOMAIN Rels(rel) : Table(Rels(rel), rel, n, r, 0)
       /\ FilesOf(rel) = {} /\ rel \notin DOMAIN declared /\ IndexedOf(rel) = {} /\ WithIndex(g) = {}
  BY <1>11 DEF Creating
<1>15. <<rel>>[1] = rel
  OBVIOUS
<1>6. CASE <<rel>> \in files
  <2>1. Fail
    BY <1>5, <1>6 DEF CreateOrDestroyFile
  <2>2. <<rel>> = <<LogFile>>
    BY <1>6, <1>14, <1>15 DEF FilesOf
  <2>3. <<rel>>[1] = <<LogFile>>[1] /\ <<LogFile>>[1] = LogFile
    BY <2>2
  <2> QED
    BY <1>15, <2>1, <2>3
<1>7. CASE <<rel>> \notin files
  <2>1. Reached(rel) /\ files' = files \union {<<rel>>} /\ UNCHANGED <<mem, disk, db>>
    BY <1>5, <1>7 DEF CreateOrDestroyFile, Underway
  <2>2. SameView(rel)
    BY <2>1 DEF SameView
  <2>3. rel # LogFile
    BY <1>7 DEF Underway, LogOK
  <2>4. FilesOf(rel)' = {<<rel>>}
    <3>1. <<rel>> # <<LogFile>>
      <4>1. <<LogFile>>[1] = LogFile
        OBVIOUS
      <4> QED
        BY <1>15, <2>3, <4>1
    <3>2. <<rel>> \in FilesOf(rel)'
      BY <1>15, <2>1, <3>1 DEF FilesOf
    <3>3. \A y \in FilesOf(rel)' : y = <<rel>> \/ y \in FilesOf(rel)
      BY <2>1 DEF FilesOf
    <3> QED
      BY <1>14, <3>2, <3>3
  <2>5. Onward(rel)
    BY <1>3, <2>1, <2>2, ConsistentBy, ReachedSelf DEF Onward, Underway
  <2>6. Remaining(CreatePlan(rel, D), n + 6, k + 1)'
    <3>1. stmt'.todo = Tail(stmt.todo)
      BY <1>3, <2>5, Current, Continues DEF Onward, Underway
    <3> QED
      BY <1>1, <1>2, <1>3, <3>1, Planned
  <2>7. Attrs(rel)' = g /\ Rels(rel)' = Rels(rel)
    BY <2>2, ViewsBy
  <2>8. ~dropped' => InsertsAscend(rho, n, k + 1, n)'
    BY <1>3, <1>11, <1>12 DEF InsertsAscend
  <2>9. FlushedUpTo(k + 1, n + 1, rel)'
    <3> SUFFICES ASSUME NEW j \in 1 .. 4, k + 1 >= n + 1 + j PROVE AgreeOn(FlushOrder[j], rel)'
      BY DEF FlushedUpTo
    <3>1. k >= (n + 1) + j
      BY <1>1
    <3>2. FlushedUpTo(k, n + 1, rel)
      BY DEF Creating
    <3>3. AgreeOn(FlushOrder[j], rel)
      BY <3>1, <3>2 DEF FlushedUpTo
    <3> QED
      BY <2>1, <3>3 DEF AgreeOn
  <2>10. IndexedOf(rel)' = IndexedOf(rel)
    BY <1>3 DEF IndexedOf
  <2> HIDE DEF n, g
  <2>11. Creating(rel, D, k + 1)'
    BY <1>3, <1>11, <1>12, <1>14, <2>4, <2>6, <2>7, <2>8, <2>9, <2>10 DEF Creating, n, g
  <2> QED
    BY <2>5, <2>11
<1> QED
  BY <1>6, <1>7

(* Every step of CREATE TABLE does the next item.                            *)
LEMMA CreatingStep ==
  ASSUME NEW rel, Underway(rel, "createTable"), NEW D \in Declarations,
         NEW k \in 0 .. Len(D) + 6, Creating(rel, D, k)
  PROVE  \/ Onward(rel) /\ k + 1 \in 0 .. Len(D) + 6 /\ Creating(rel, D, k + 1)'
         \/ rel = LogFile /\ Fail
<1>1. Len(D) \in Nat /\ stmt.todo # <<>>
  BY CreatingSame, WhichAction DEF Underway
<1>2. k < Len(D) + 6
  <2>1. Remaining(CreatePlan(rel, D), Len(D) + 6, k) /\ Len(D) + 6 \in Nat
    BY <1>1 DEF Creating
  <2> QED
    BY <1>1, <2>1, Planned
<1>3. k < Len(D) \/ k = Len(D) \/ (Len(D) < k /\ k < Len(D) + 5) \/ k = Len(D) + 5
  BY <1>1, <1>2
<1>4. k + 1 \in 0 .. Len(D) + 6
  BY <1>1, <1>2
<1>5. CASE k < Len(D)
  BY <1>4, <1>5, AttributeInserted
<1>6. CASE k = Len(D)
  BY <1>4, <1>6, RelationInserted
<1>7. CASE Len(D) < k /\ k < Len(D) + 5
  BY <1>4, <1>7, CreateFlushed
<1>8. CASE k = Len(D) + 5
  BY <1>4, <1>8, TableFileMade
<1> QED
  BY <1>3, <1>5, <1>6, <1>7, <1>8

-------------------------------------------------------------------------------
(* A relation in the course of DROP TABLE.                                   *)

(* The attributes left when one more item has been done.                     *)
LEMMA LeftMore ==
  ASSUME NEW rids, Len(rids) \in Nat, NEW k \in Nat,
         \A i, j \in 1 .. Len(rids) : rids[i] = rids[j] => i = j
  PROVE  /\ k < 2 \/ k >= Len(rids) + 2 => Left(rids, k + 1) = Left(rids, k)
         /\ 2 <= k /\ k < Len(rids) + 2 => /\ rids[k - 1] \in Left(rids, k)
                                           /\ Left(rids, k + 1) = Left(rids, k) \ {rids[k - 1]}
<1>1. ASSUME k < 2 \/ k >= Len(rids) + 2 PROVE Left(rids, k + 1) = Left(rids, k)
  <2>1. \A i \in 1 .. Len(rids) : i + 2 > k + 1 <=> i + 2 > k
    BY <1>1
  <2>2. {i \in 1 .. Len(rids) : i + 2 > k + 1} = {i \in 1 .. Len(rids) : i + 2 > k}
    BY <2>1
  <2> QED
    BY <2>2 DEF Left
<1>2. ASSUME 2 <= k, k < Len(rids) + 2
      PROVE  /\ rids[k - 1] \in Left(rids, k)
             /\ Left(rids, k + 1) = Left(rids, k) \ {rids[k - 1]}
  <2>1. k - 1 \in 1 .. Len(rids) /\ (k - 1) + 2 > k
    BY <1>2
  <2>2. \A i \in 1 .. Len(rids) : i + 2 > k + 1 <=> i + 2 > k /\ i # k - 1
    BY <1>2
  <2>3. rids[k - 1] \in Left(rids, k)
    BY <2>1 DEF Left
  <2>4. ASSUME NEW y \in Left(rids, k + 1) PROVE y \in Left(rids, k) /\ y # rids[k - 1]
    BY <2>1, <2>2 DEF Left
  <2>5. ASSUME NEW y \in Left(rids, k), y # rids[k - 1] PROVE y \in Left(rids, k + 1)
    <3>1. PICK i \in 1 .. Len(rids) : i + 2 > k /\ y = rids[i]
      BY DEF Left
    <3>2. i # k - 1
      BY <2>5, <3>1
    <3> QED
      BY <2>2, <3>1, <3>2 DEF Left
  <2> QED
    BY <2>3, <2>4, <2>5
<1> QED
  BY <1>1, <1>2

(* Names of files.                                                           *)
LEMMA FileNames ==
  /\ \A rel, n : <<rel, n>>[1] = rel /\ <<rel, n>>[2] = n
  /\ \A rel : <<rel>>[1] = rel
  /\ \A rel, r2, n : <<rel>> # <<r2, n>>
<1>1. \A rel, r2, n : <<rel>> # <<r2, n>>
  <2> SUFFICES ASSUME NEW rel, NEW r2, NEW n, <<rel>> = <<r2, n>> PROVE FALSE
    OBVIOUS
  <2>1. Len(<<rel>>) = 1 /\ Len(<<r2, n>>) = 2
    OBVIOUS
  <2> QED
    BY <2>1
<1> QED
  BY <1>1

(* Which files a relation's indexes have.                                    *)
LEMMA FilesAtNames ==
  ASSUME NEW rel, NEW g, NEW S
  PROVE  /\ <<rel>> \notin FilesAt(rel, g, S)
         /\ \A n : <<rel, n>> \in FilesAt(rel, g, S) <=> \E y \in S : g[y].indexNo = n
<1>1. <<rel>> \notin FilesAt(rel, g, S)
  BY FileNames DEF FilesAt
<1>2. ASSUME NEW n, <<rel, n>> \in FilesAt(rel, g, S) PROVE \E y \in S : g[y].indexNo = n
  <2>1. PICK y \in S : <<rel, n>> = <<rel, g[y].indexNo>>
    BY <1>2 DEF FilesAt
  <2> QED
    BY <2>1
<1>3. ASSUME NEW n, NEW y \in S, g[y].indexNo = n PROVE <<rel, n>> \in FilesAt(rel, g, S)
  BY <1>3 DEF FilesAt
<1> QED
  BY <1>1, <1>2, <1>3

(* Without the record x, a relation has one file less.                       *)
FileLess(rel, g, w, x) ==
  /\ FilesAt(rel, w, WithIndex(w)) = FilesAt(rel, g, WithIndex(g)) \ {<<rel, g[x].indexNo>>}
  /\ Distinct(w)
  /\ DOMAIN w = DOMAIN g \ {x}

(* Without an attribute its index file is no longer one of the relation's.   *)
LEMMA FilesAtRemove ==
  ASSUME NEW rel, NEW g, NEW x \in DOMAIN g, Distinct(g)
  PROVE  FileLess(rel, g, Without(g, x), x)
<1> DEFINE w == Without(g, x)
<1>1. DOMAIN w = DOMAIN g \ {x} /\ \A y \in DOMAIN w : w[y] = g[y]
  BY DEF Without
<1> HIDE DEF w
<1>2. WithIndex(w) = WithIndex(g) \ {x}
  BY <1>1 DEF WithIndex
<1>3. \A y \in WithIndex(w) : w[y] = g[y] /\ y # x /\ y \in WithIndex(g)
  BY <1>1, <1>2 DEF WithIndex
<1>4. ASSUME NEW f \in FilesAt(rel, w, WithIndex(w)) PROVE f \in FilesAt(rel, g, WithIndex(g)) \ {<<rel, g[x].indexNo>>}
  <2>1. PICK y \in WithIndex(w) : f = <<rel, w[y].indexNo>>
    BY DEF FilesAt
  <2>2. f = <<rel, g[y].indexNo>> /\ y \in WithIndex(g) /\ y # x
    BY <1>3, <2>1
  <2>3. f # <<rel, g[x].indexNo>>
    <3> SUFFICES ASSUME f = <<rel, g[x].indexNo>> PROVE FALSE
      OBVIOUS
    <3>1. g[y].indexNo = g[x].indexNo
      BY <2>2
    <3>2. x \in WithIndex(g)
      BY <2>2, <3>1 DEF WithIndex
    <3> QED
      BY <2>2, <3>1, <3>2 DEF Distinct
  <2> QED
    BY <2>2, <2>3 DEF FilesAt
<1>5. ASSUME NEW f \in FilesAt(rel, g, WithIndex(g)), f # <<rel, g[x].indexNo>> PROVE f \in FilesAt(rel, w, WithIndex(w))
  <2>1. PICK y \in WithIndex(g) : f = <<rel, g[y].indexNo>>
    BY DEF FilesAt
  <2>2. y \in WithIndex(w) /\ w[y] = g[y]
    BY <1>2, <1>3, <1>5, <2>1
  <2> QED
    BY <2>1, <2>2 DEF FilesAt
<1>6. Distinct(w)
  BY <1>3 DEF Distinct
<1> QED
  BY <1>1, <1>4, <1>5, <1>6 DEF w, FileLess

(* What the steps of DROP TABLE have in common.                              *)
DropAt(rel, r, rids, k) ==
  /\ Underway(rel, "dropTable") /\ rids \in Seq(Nat) /\ r \in Nat
  /\ k \in 0 .. Len(rids) + 6 /\ Dropping(rel, r, rids, k)

(* The items of DROP TABLE.                                                  *)
LEMMA DropFacts ==
  ASSUME NEW rel, NEW r, NEW rids, NEW k, DropAt(rel, r, rids, k)
  PROVE  /\ Len(rids) \in Nat /\ DOMAIN rids = 1 .. Len(rids) /\ k \in 0 .. Len(rids) + 5
         /\ k = 0 => Now = [do |-> "dropRel", rid |-> r]
         /\ k = 1 => Now = [do |-> "destroy", file |-> <<rel>>]
         /\ 2 <= k /\ k < Len(rids) + 2 => Now = [do |-> "dropAttr", rid |-> rids[k - 1]]
         /\ Len(rids) + 2 <= k => Now = Flushing(FlushOrder[k + 1 - (Len(rids) + 2)])
         /\ k < 2 \/ k >= Len(rids) + 2 => Left(rids, k + 1) = Left(rids, k)
         /\ 2 <= k /\ k < Len(rids) + 2 => /\ rids[k - 1] \in Left(rids, k)
                                           /\ Left(rids, k + 1) = Left(rids, k) \ {rids[k - 1]}
         /\ stmt.todo # <<>> /\ UNCHANGED <<declared, indexed, dropped>>
         /\ rel \in DOMAIN declared
         /\ k + 1 \in 0 .. Len(rids) + 6
         /\ rel # LogFile
         /\ Continue => Remaining(DropPlan(rel, r, rids), Len(rids) + 6, k + 1)'
<1> DEFINE n == Len(rids)
           P == DropPlan(rel, r, rids)
<1>1. n \in Nat /\ DOMAIN rids = 1 .. n /\ n + 6 \in Nat /\ k \in 0 .. n + 6
  BY DEF DropAt
<1>2. Remaining(P, n + 6, k) /\ rel \in DOMAIN declared
  BY DEF DropAt, Dropping
<1>3. stmt.todo # <<>> /\ UNCHANGED <<declared, indexed, dropped>>
  BY WhichAction DEF Underway, DropAt
<1> HIDE DEF n, P
<1>4. k < n + 6 /\ Now = P[k + 1]
  BY <1>1, <1>2, <1>3, Planned
<1>5. k \in 0 .. n + 5 /\ k + 1 \in 0 .. n + 6
  BY <1>1, <1>4
<1>6. rel # LogFile
  BY <1>2 DEF DropAt, Underway, LogOK
<1>7. ASSUME Continue PROVE Remaining(P, n + 6, k + 1)'
  <2>1. stmt'.todo = Tail(stmt.todo)
    BY <1>3, <1>7, Current, Continues DEF DropAt, Underway
  <2> QED
    BY <1>1, <1>2, <1>3, <2>1, Planned
<1>8. /\ k = 0 => Now = [do |-> "dropRel", rid |-> r]
      /\ k = 1 => Now = [do |-> "destroy", file |-> <<rel>>]
      /\ 2 <= k /\ k < n + 2 => Now = [do |-> "dropAttr", rid |-> rids[k - 1]]
      /\ n + 2 <= k => Now = Flushing(FlushOrder[k + 1 - (n + 2)])
  <2>1. k + 1 \in 1 .. n + 6 /\ k + 1 - 2 = k - 1
    BY <1>1, <1>5
  <2>2. P = DropPlan(rel, r, rids) /\ n = Len(rids)
    BY DEF P, n
  <2> QED
    BY <1>1, <1>4, <2>1, <2>2 DEF DropPlan
<1>9. \A i, j \in 1 .. n : rids[i] = rids[j] => i = j
  BY DEF DropAt, Dropping, n
<1>10. /\ k < 2 \/ k >= n + 2 => Left(rids, k + 1) = Left(rids, k)
       /\ 2 <= k /\ k < n + 2 => /\ rids[k - 1] \in Left(rids, k)
                                 /\ Left(rids, k + 1) = Left(rids, k) \ {rids[k - 1]}
  <2>1. k \in Nat /\ Len(rids) \in Nat
    BY <1>1, <1>5 DEF n
  <2>2. \A i, j \in 1 .. Len(rids) : rids[i] = rids[j] => i = j
    BY <1>9 DEF n
  <2> QED
    BY <2>1, <2>2, LeftMore DEF n
<1> QED
  BY <1>1, <1>2, <1>3, <1>5, <1>6, <1>7, <1>8, <1>10 DEF n, P

(* DROP TABLE deletes the record of the relation.                            *)
LEMMA RelationDropped ==
  ASSUME NEW rel, NEW r, NEW rids, NEW k, DropAt(rel, r, rids, k), k = 0
  PROVE  Onward(rel) /\ Dropping(rel, r, rids, k + 1)'
<1> DEFINE n == Len(rids)
           g == Attrs(rel)
           h == Rels(rel)
<1>1. /\ n \in Nat /\ k \in 0 .. n + 5
      /\ UNCHANGED <<declared, indexed, dropped>> /\ rel \in DOMAIN declared
      /\ Continue => Remaining(DropPlan(rel, r, rids), n + 6, k + 1)'
  BY DropFacts
<1>2. Now = [do |-> "dropRel", rid |-> r]
  BY DropFacts
<1>3. DropRelation /\ Now.rid = r
  BY <1>2, WhichAction DEF Underway, DropAt
<1>4. /\ \A i, j \in 1 .. n : rids[i] = rids[j] => i = j
      /\ DOMAIN h = {r}
      /\ DOMAIN g = Left(rids, k)
      /\ Distinct(g)
      /\ FilesOf(rel) = {<<rel>>} \union FilesAt(rel, g, WithIndex(g))
  BY DEF DropAt, Dropping
<1>5. "relcat" \in RecordFiles /\ "attrcat" \in RecordFiles /\ "attrcat" # "relcat"
  BY DEF RecordFiles
<1>6. DeleteRecord("relcat", r) /\ UNCHANGED <<disk, files, db>>
  BY <1>3 DEF DropRelation
<1>7. /\ Reached(rel)
      /\ Rels(rel)' = Without(h, r)
      /\ \A d \in RecordFiles : d # "relcat" => mem'[d] = mem[d]
      /\ \A d \in RecordFiles : EntriesFor(mem'[IndexOf[d]], rel) = Of(mem'[d], rel)
  BY <1>4, <1>5, <1>6, DeleteView DEF DropAt, Underway, Rels
<1>8. Onward(rel)
  BY <1>1, <1>7, ConsistentNow, ReachedSelf DEF Onward, Underway, DropAt
<1>9. Attrs(rel)' = g
  BY <1>5, <1>7 DEF Attrs
<1>10. DOMAIN Without(h, r) = {}
  BY <1>4 DEF Without
<1>11. FilesOf(rel)' = FilesOf(rel)
  BY <1>6, FilesSame
<1>12. Left(rids, k + 1) = Left(rids, k)
  BY DropFacts
<1>13. FlushedUpTo(k + 1, n + 2, rel)'
  BY <1>1 DEF FlushedUpTo
<1>14. Remaining(DropPlan(rel, r, rids), n + 6, k + 1)'
  BY <1>1, <1>8 DEF Onward
<1>15. k + 1 # 0 /\ k + 1 < 2
  OBVIOUS
<1> HIDE DEF n, g, h
<1>16. Dropping(rel, r, rids, k + 1)'
  BY <1>1, <1>4, <1>7, <1>9, <1>10, <1>11, <1>12, <1>13, <1>14, <1>15 DEF Dropping, n
<1> QED
  BY <1>8, <1>16

(* DROP TABLE destroys the relation's file.                                  *)
LEMMA TableFileDropped ==
  ASSUME NEW rel, NEW r, NEW rids, NEW k, DropAt(rel, r, rids, k), k = 1
  PROVE  Onward(rel) /\ Dropping(rel, r, rids, k + 1)'
<1> DEFINE n == Len(rids)
           g == Attrs(rel)
           h == Rels(rel)
<1>1. /\ n \in Nat /\ k \in 0 .. n + 5
      /\ UNCHANGED <<declared, indexed, dropped>> /\ rel \in DOMAIN declared
      /\ Continue => Remaining(DropPlan(rel, r, rids), n + 6, k + 1)'
  BY DropFacts
<1>2. Now = [do |-> "destroy", file |-> <<rel>>]
  BY DropFacts
<1>3. CreateOrDestroyFile /\ Now.file = <<rel>> /\ Now.do = "destroy"
  BY <1>2, WhichAction DEF Underway, DropAt
<1>4. /\ \A i, j \in 1 .. n : rids[i] = rids[j] => i = j
      /\ DOMAIN h = {}
      /\ DOMAIN g = Left(rids, k)
      /\ Distinct(g)
      /\ FilesOf(rel) = {<<rel>>} \union FilesAt(rel, g, WithIndex(g))
  BY DEF DropAt, Dropping
<1>5. <<rel>> \in files
  BY <1>4 DEF FilesOf
<1>6. Reached(rel) /\ files' = files \ {<<rel>>} /\ UNCHANGED <<mem, disk, db>>
  BY <1>3, <1>5 DEF CreateOrDestroyFile, DropAt, Underway
<1>7. SameView(rel)
  BY <1>6 DEF SameView
<1>8. Onward(rel)
  BY <1>1, <1>6, <1>7, ConsistentBy, ReachedSelf DEF Onward, Underway, DropAt
<1>9. Attrs(rel)' = g /\ Rels(rel)' = h
  BY <1>7, ViewsBy
<1>11. FilesOf(rel)' = FilesAt(rel, g, WithIndex(g))
  <2>1. FilesOf(rel)' = FilesOf(rel) \ {<<rel>>}
    BY <1>6 DEF FilesOf
  <2>2. <<rel>> \notin FilesAt(rel, g, WithIndex(g))
    BY FilesAtNames
  <2> QED
    BY <1>4, <2>1, <2>2
<1>12. Left(rids, k + 1) = Left(rids, k)
  BY DropFacts
<1>13. FlushedUpTo(k + 1, n + 2, rel)'
  BY <1>1 DEF FlushedUpTo
<1>14. Remaining(DropPlan(rel, r, rids), n + 6, k + 1)'
  BY <1>1, <1>8 DEF Onward
<1>15. k + 1 # 0 /\ ~(k + 1 < 2)
  OBVIOUS
<1> HIDE DEF n, g, h
<1>16. Dropping(rel, r, rids, k + 1)'
  BY <1>1, <1>4, <1>9, <1>11, <1>12, <1>13, <1>14, <1>15 DEF Dropping, n
<1> QED
  BY <1>8, <1>16

(* DROP TABLE deletes the record of an attribute, with its index.            *)
LEMMA AttributeDropped ==
  ASSUME NEW rel, NEW r, NEW rids, NEW k, DropAt(rel, r, rids, k), 2 <= k, k < Len(rids) + 2
  PROVE  Onward(rel) /\ Dropping(rel, r, rids, k + 1)'
<1> DEFINE n == Len(rids)
           g == Attrs(rel)
           h == Rels(rel)
           x == rids[k - 1]
           no == g[x].indexNo
<1>1. /\ n \in Nat /\ k \in 0 .. n + 5
      /\ UNCHANGED <<declared, indexed, dropped>> /\ rel \in DOMAIN declared
      /\ Continue => Remaining(DropPlan(rel, r, rids), n + 6, k + 1)'
  BY DropFacts
<1>2. Now = [do |-> "dropAttr", rid |-> x]
  BY DropFacts
<1>3. DropAttribute /\ Now.rid = x
  BY <1>2, WhichAction DEF Underway, DropAt
<1>4. /\ \A i, j \in 1 .. n : rids[i] = rids[j] => i = j
      /\ DOMAIN h = {}
      /\ DOMAIN g = Left(rids, k)
      /\ Distinct(g)
      /\ FilesOf(rel) = FilesAt(rel, g, WithIndex(g))
  BY <1>1 DEF DropAt, Dropping
<1>5. "relcat" \in RecordFiles /\ "attrcat" \in RecordFiles /\ "attrcat" # "relcat"
  BY DEF RecordFiles
<1>6. x \in DOMAIN g /\ Left(rids, k + 1) = DOMAIN g \ {x}
  BY <1>4, DropFacts
<1>7. x \in Live(mem["attrcat"]) /\ x \in Nat /\ g[x] = Get(mem["attrcat"], x)
  <2>1. FilesOK(mem) /\ x \in DOMAIN View(mem["attrcat"], rel)
    BY <1>6 DEF DropAt, Underway, Attrs
  <2>2. ASSUME NEW z, z \in DOMAIN View(mem["attrcat"], rel)
        PROVE  z \in Nat /\ z \in Of(mem["attrcat"], rel) /\ View(mem["attrcat"], rel)[z] = Get(mem["attrcat"], z)
    <3>1. "attrcat" \in RecordFiles
      BY <1>5
    <3>2. FilesOK(mem)
      BY <2>1
    <3>3. DOMAIN View(mem["attrcat"], rel) \subseteq Nat /\ DOMAIN View(mem["attrcat"], rel) = Of(mem["attrcat"], rel)
      BY <3>1, <3>2, ViewTyped
    <3>4. \A y \in DOMAIN View(mem["attrcat"], rel) : View(mem["attrcat"], rel)[y] = Get(mem["attrcat"], y)
      BY <3>3, ViewParts
    <3> QED
      BY <2>2, <3>3, <3>4
  <2> QED
    BY <2>1, <2>2 DEF Of, Attrs
<1>8. IsRec("attrcat", x) /\ Rec("attrcat", x) = g[x]
  BY <1>5, <1>7, ReadsRecords DEF DropAt, Underway
<1>9. no # -1 => <<rel, no>> \in files
  <2> SUFFICES ASSUME no # -1 PROVE <<rel, no>> \in files
    OBVIOUS
  <2>1. x \in WithIndex(g)
    BY <1>6 DEF WithIndex
  <2>2. <<rel, no>> \in FilesOf(rel)
    BY <1>4, <2>1 DEF FilesAt
  <2> QED
    BY <2>2 DEF FilesOf
<1>10. DeleteRecord("attrcat", x) /\ files' = files \ {<<rel, no>>} /\ UNCHANGED <<disk, db>>
  <2>1. rel = stmt.rel
    BY DEF DropAt, Underway
  <2> QED
    BY <1>3, <1>8, <1>9, <2>1 DEF DropAttribute
<1>11. /\ Reached(rel)
       /\ Attrs(rel)' = Without(g, x)
       /\ \A d \in RecordFiles : d # "attrcat" => mem'[d] = mem[d]
       /\ \A d \in RecordFiles : EntriesFor(mem'[IndexOf[d]], rel) = Of(mem'[d], rel)
  BY <1>5, <1>6, <1>10, DeleteView DEF DropAt, Underway, Attrs
<1>12. Onward(rel)
  BY <1>1, <1>11, ConsistentNow, ReachedSelf DEF Onward, Underway, DropAt
<1>13. Rels(rel)' = h
  BY <1>5, <1>11 DEF Rels
<1> DEFINE w == Without(g, x)
<1>14. /\ FilesAt(rel, w, WithIndex(w)) = FilesAt(rel, g, WithIndex(g)) \ {<<rel, no>>}
       /\ Distinct(w)
       /\ DOMAIN w = DOMAIN g \ {x}
  <2>1. Distinct(g) /\ x \in DOMAIN g
    BY <1>4, <1>6
  <2>2. \A f, z : z \in DOMAIN f /\ Distinct(f) => FileLess(rel, f, Without(f, z), z)
    BY FilesAtRemove
  <2>3. FileLess(rel, g, w, x)
    BY <2>1, <2>2
  <2> QED
    BY <2>3 DEF FileLess
<1>15. FilesOf(rel)' = FilesAt(rel, w, WithIndex(w))
  <2>1. FilesOf(rel)' = FilesOf(rel) \ {<<rel, no>>}
    BY <1>10 DEF FilesOf
  <2> QED
    BY <1>4, <1>14, <2>1
<1>16. FlushedUpTo(k + 1, n + 2, rel)'
  BY <1>1 DEF FlushedUpTo
<1>17. Remaining(DropPlan(rel, r, rids), n + 6, k + 1)'
  BY <1>1, <1>12 DEF Onward
<1>18. k + 1 # 0 /\ ~(k + 1 < 2)
  BY <1>1
<1> HIDE DEF n, g, h, w, x
<1>19. Dropping(rel, r, rids, k + 1)'
  BY <1>1, <1>4, <1>6, <1>11, <1>13, <1>14, <1>15, <1>16, <1>17, <1>18 DEF Dropping, n, w
<1> QED
  BY <1>12, <1>19

(* DROP TABLE forces the pages of one of the four files.                     *)
LEMMA DropFlushed ==
  ASSUME NEW rel, NEW r, NEW rids, NEW k, DropAt(rel, r, rids, k), Len(rids) + 2 <= k
  PROVE  Onward(rel) /\ Dropping(rel, r, rids, k + 1)'
<1> DEFINE n == Len(rids)
           g == Attrs(rel)
           h == Rels(rel)
<1>1. /\ n \in Nat /\ k \in 0 .. n + 5
      /\ UNCHANGED <<declared, indexed, dropped>> /\ rel \in DOMAIN declared
      /\ Continue => Remaining(DropPlan(rel, r, rids), n + 6, k + 1)'
  BY DropFacts
<1>2. Now = Flushing(FlushOrder[k + 1 - (n + 2)])
  BY DropFacts
<1>3. ForcePages /\ Now.file = FlushOrder[k + 1 - (n + 2)]
  BY <1>2, WhichAction DEF Underway, DropAt, Flushing
<1>4. /\ \A i, j \in 1 .. n : rids[i] = rids[j] => i = j
      /\ DOMAIN h = {}
      /\ DOMAIN g = Left(rids, k)
      /\ Distinct(g)
      /\ FilesOf(rel) = FilesAt(rel, g, WithIndex(g))
      /\ FlushedUpTo(k, n + 2, rel)
  BY <1>1 DEF DropAt, Dropping
<1>5. /\ UNCHANGED <<mem, files, db, broken, failed>> /\ Continue /\ SameView(rel)
  BY <1>3, ForceView DEF Underway, DropAt
<1>6. FlushedUpTo(k + 1, n + 2, rel)'
  <2>1. n + 2 \in Nat /\ k \in Nat /\ k >= n + 2 /\ k < (n + 2) + 4
    BY <1>1
  <2> HIDE DEF n
  <2> QED
    BY <1>3, <1>4, <2>1, FlushedMore DEF Underway, DropAt
<1>8. Onward(rel)
  BY <1>1, <1>5, ConsistentBy DEF Onward, Underway, DropAt
<1>9. Attrs(rel)' = g /\ Rels(rel)' = h
  BY <1>5, ViewsBy
<1>11. FilesOf(rel)' = FilesOf(rel)
  BY <1>5, FilesSame
<1>12. Left(rids, k + 1) = Left(rids, k)
  BY DropFacts
<1>14. Remaining(DropPlan(rel, r, rids), n + 6, k + 1)'
  BY <1>1, <1>8 DEF Onward
<1>15. k + 1 # 0 /\ ~(k + 1 < 2)
  BY <1>1
<1> HIDE DEF n, g, h
<1>16. Dropping(rel, r, rids, k + 1)'
  BY <1>1, <1>4, <1>6, <1>9, <1>11, <1>12, <1>14, <1>15 DEF Dropping, n
<1> QED
  BY <1>8, <1>16

(* Every step of DROP TABLE does the next item.                              *)
LEMMA DroppingStep ==
  ASSUME NEW rel, NEW r, NEW rids, NEW k, DropAt(rel, r, rids, k)
  PROVE  Onward(rel) /\ k + 1 \in 0 .. Len(rids) + 6 /\ Dropping(rel, r, rids, k + 1)'
<1>1. Len(rids) \in Nat /\ k \in 0 .. Len(rids) + 5 /\ k + 1 \in 0 .. Len(rids) + 6
  BY DropFacts
<1>2. k = 0 \/ k = 1 \/ (2 <= k /\ k < Len(rids) + 2) \/ Len(rids) + 2 <= k
  BY <1>1
<1> QED
  BY <1>1, <1>2, RelationDropped, TableFileDropped, AttributeDropped, DropFlushed

-------------------------------------------------------------------------------
(* A relation in the course of CREATE INDEX or DROP INDEX.                   *)

(* The types of a relation's records.                                        *)
LEMMA RowsTyped ==
  ASSUME FilesOK(mem), NEW rel
  PROVE  /\ \A y \in DOMAIN Attrs(rel) : y \in Nat /\ Attrs(rel)[y] \in AttrRecord /\ Attrs(rel)[y].rel = rel
         /\ \A y \in DOMAIN Rels(rel) : y \in Nat /\ Rels(rel)[y] \in RelRecord /\ Rels(rel)[y].rel = rel
<1>1. ASSUME NEW c \in RecordFiles, NEW y \in DOMAIN View(mem[c], rel)
      PROVE  y \in Nat /\ View(mem[c], rel)[y] \in RecordOf[c] /\ View(mem[c], rel)[y].rel = rel
  <2>1. /\ DOMAIN View(mem[c], rel) \subseteq Nat
        /\ View(mem[c], rel)[y] = Get(mem[c], y) /\ Get(mem[c], y) \in RecordOf[c] /\ Get(mem[c], y).rel = rel
    BY ViewTyped
  <2> QED
    BY <2>1
<1>2. "relcat" \in RecordFiles /\ "attrcat" \in RecordFiles
      /\ RecordOf["relcat"] = RelRecord /\ RecordOf["attrcat"] = AttrRecord
  BY DEF RecordFiles, RecordOf
<1> QED
  BY <1>1, <1>2 DEF Attrs, Rels

(* A step that changes no record of the relation.                            *)
LEMMA AlteredSame ==
  ASSUME NEW rel, NEW D, NEW r, NEW a, NEW attr, NEW o, NEW x, NEW cnt, NEW S,
         Altered(rel, D, r, a, attr, o, x, cnt, S), SameView(rel), UNCHANGED <<declared, dropped>>
  PROVE  /\ Altered(rel, D, r, a, attr, o, x, cnt, S)'
         /\ Attrs(rel)' = Attrs(rel)
<1>1. Rels(rel)' = Rels(rel) /\ Attrs(rel)' = Attrs(rel)
  BY ViewsBy
<1> QED
  BY <1>1 DEF Altered

(* The index has been counted in the record of the relation.                 *)
LEMMA AlteredCount ==
  ASSUME NEW rel, NEW D, NEW r, NEW a, NEW attr, NEW o, NEW x, NEW cnt \in Nat, NEW S,
         Altered(rel, D, r, a, attr, o, x, cnt, S), FilesOK(mem), UNCHANGED <<declared, dropped>>,
         Rels(rel)' = Put(Rels(rel), r, [rel |-> rel, attrCount |-> Len(D), indexCount |-> cnt + 1]),
         Attrs(rel)' = Attrs(rel)
  PROVE  Altered(rel, D, r, a, attr, o, x, cnt + 1, S)'
<1>1. Rels(rel) = [rid \in {r} |-> [rel |-> rel, attrCount |-> Len(D), indexCount |-> cnt]]
  BY DEF Altered, Table
<1>2. Table(Rels(rel)', rel, Len(D), r, cnt + 1)
  BY <1>1 DEF Table, Put
<1>3. Numbers(Attrs(rel), S, cnt + 1)
  <2>1. Numbers(Attrs(rel), S, cnt) /\ S \subseteq DOMAIN Attrs(rel)
    BY DEF Altered, WithIndex
  <2>2. \A q \in S : Attrs(rel)[q].indexNo \in Int
    <3>1. \A y \in DOMAIN Attrs(rel) : Attrs(rel)[y] \in AttrRecord
      BY RowsTyped
    <3> QED
      BY <2>1, <3>1 DEF AttrRecord
  <2> QED
    BY <2>1, <2>2 DEF Numbers
<1> QED
  BY <1>2, <1>3 DEF Altered

(* The record of the attribute has been given another number.                *)
LEMMA AlteredIndex ==
  ASSUME NEW rel, NEW D, NEW r, NEW a, NEW attr, NEW o, NEW x, NEW y, NEW cnt, NEW S,
         Altered(rel, D, r, a, attr, o, x, cnt, S), UNCHANGED <<declared, dropped>>,
         Rels(rel)' = Rels(rel),
         Attrs(rel)' = Put(Attrs(rel), a, [rel |-> rel, attr |-> attr, offset |-> o, indexNo |-> y])
  PROVE  /\ Altered(rel, D, r, a, attr, o, y, cnt, S)'
         /\ FilesAt(rel, Attrs(rel)', S) = FilesAt(rel, Attrs(rel), S)
         /\ AttrsAt(Attrs(rel)', S) = AttrsAt(Attrs(rel), S)
         /\ \A q \in S : Attrs(rel)'[q] = Attrs(rel)[q]
<1> DEFINE g == Attrs(rel)
           w == Attrs(rel)'
<1>1. a \in DOMAIN g /\ g[a] = [rel |-> rel, attr |-> attr, offset |-> o, indexNo |-> x] /\ S = WithIndex(g) \ {a}
  BY DEF Altered
<1>2. /\ DOMAIN w = DOMAIN g
      /\ w[a] = [rel |-> rel, attr |-> attr, offset |-> o, indexNo |-> y]
      /\ \A q \in DOMAIN g : q # a => w[q] = g[q]
  BY <1>1 DEF Put
<1>3. PICK rho \in [1 .. Len(D) -> DOMAIN g] : Described(g, D, rho, Len(D)) /\ (~dropped => Ascending(rho, Len(D)))
  BY DEF Altered
<1>4. Numbers(g, S, cnt) /\ rel \in DOMAIN declared /\ declared[rel] = D /\ Table(Rels(rel), rel, Len(D), r, cnt)
  BY DEF Altered
<1>5. PICK f1, f2 : f1 = g /\ f2 = w
  OBVIOUS
<1> HIDE DEF g, w
<1>6. \A q \in DOMAIN f1 : f2[q].attr = f1[q].attr /\ f2[q].offset = f1[q].offset
  BY <1>1, <1>2, <1>5
<1>7. Described(f2, D, rho, Len(D))
  BY <1>2, <1>3, <1>5, <1>6 DEF Described
<1>8. S = WithIndex(f2) \ {a} /\ S \subseteq DOMAIN f1 /\ \A q \in S : q # a /\ f2[q] = f1[q]
  BY <1>1, <1>2, <1>5 DEF WithIndex
<1>9. Numbers(f2, S, cnt)
  BY <1>4, <1>5, <1>8 DEF Numbers
<1>10. FilesAt(rel, f2, S) = FilesAt(rel, f1, S) /\ AttrsAt(f2, S) = AttrsAt(f1, S)
  BY <1>8 DEF FilesAt, AttrsAt
<1>11. Altered(rel, D, r, a, attr, o, y, cnt, S)'
  BY <1>1, <1>2, <1>3, <1>4, <1>5, <1>7, <1>8, <1>9 DEF Altered, w
<1> QED
  BY <1>5, <1>8, <1>10, <1>11 DEF g, w

(* What the steps of CREATE INDEX have in common.                            *)
IndexNow(rel, attr, k, D, r, a, o, cnt, S) ==
  /\ Underway(rel, "createIndex") /\ k \in 0 .. 6
  /\ D \in Declarations /\ r \in Nat /\ a \in Nat /\ o \in Nat /\ cnt \in Nat /\ S \subseteq Nat
  /\ IndexingAt(rel, attr, k, D, r, a, o, cnt, S)

(* The items of CREATE INDEX.                                                *)
LEMMA IndexFacts ==
  ASSUME NEW rel, NEW attr, NEW k, NEW D, NEW r, NEW a, NEW o, NEW cnt, NEW S,
         IndexNow(rel, attr, k, D, r, a, o, cnt, S)
  PROVE  /\ k \in 0 .. 5 /\ k + 1 \in 0 .. 6
         /\ k = 0 => Now = [do |-> "create", file |-> <<rel, cnt>>]
         /\ k = 1 => Now = [do |-> "open"]
         /\ k = 2 => Now = [do |-> "update", file |-> "relcat", rid |-> r,
                            rec |-> [rel |-> rel, attrCount |-> Len(D), indexCount |-> cnt + 1]]
         /\ k = 3 => Now = [do |-> "update", file |-> "attrcat", rid |-> a,
                            rec |-> [rel |-> rel, attr |-> attr, offset |-> o, indexNo |-> cnt]]
         /\ k = 4 => Now = Flushing("relcat")
         /\ k = 5 => Now = Flushing("attrcat")
         /\ UNCHANGED <<declared, indexed, dropped>>
         /\ rel \in DOMAIN declared /\ rel # LogFile
         /\ Continue => Remaining(IndexPlan(rel, attr, r, a, Len(D), o, cnt), 6, k + 1)'
<1> DEFINE P == IndexPlan(rel, attr, r, a, Len(D), o, cnt)
<1>1. k \in 0 .. 6 /\ Remaining(P, 6, k) /\ 6 \in Nat
  BY DEF IndexNow, IndexingAt
<1>2. rel \in DOMAIN declared
  BY DEF IndexNow, IndexingAt, Altered
<1>3. stmt.todo # <<>> /\ UNCHANGED <<declared, indexed, dropped>>
  BY WhichAction DEF Underway, IndexNow
<1> HIDE DEF P
<1>4. k < 6 /\ Now = P[k + 1]
  BY <1>1, <1>3, Planned
<1>5. rel # LogFile
  BY <1>2 DEF IndexNow, Underway, LogOK
<1>6. ASSUME Continue PROVE Remaining(P, 6, k + 1)'
  <2>1. stmt'.todo = Tail(stmt.todo)
    BY <1>3, <1>6, Current, Continues DEF IndexNow, Underway
  <2> QED
    BY <1>1, <1>3, <2>1, Planned
<1>7. k \in 0 .. 5 /\ k + 1 \in 0 .. 6
  BY <1>1, <1>4
<1>8. /\ k = 0 => Now = P[1]
      /\ k = 1 => Now = P[2]
      /\ k = 2 => Now = P[3]
      /\ k = 3 => Now = P[4]
      /\ k = 4 => Now = P[5]
      /\ k = 5 => Now = P[6]
  BY <1>4
<1> QED
  BY <1>2, <1>3, <1>5, <1>6, <1>7, <1>8 DEF P, IndexPlan

(* A step that leaves the records of the relation as they are.               *)
LEMMA IndexingSame ==
  ASSUME NEW rel, NEW attr, NEW k, NEW D, NEW r, NEW a, NEW o, NEW cnt, NEW S,
         IndexNow(rel, attr, k, D, r, a, o, cnt, S),
         Continue, broken' = broken, UNCHANGED failed, SameView(rel), k \notin {2, 3},
         FilesOf(rel)' = {<<rel>>} \union FilesAt(rel, Attrs(rel), S) \union {<<rel, cnt>>},
         \A f \in AllFiles : AgreeOn(f, rel) => AgreeOn(f, rel)',
         k = 4 => AgreeOn("relcat", rel)',
         k = 5 => AgreeOn("attrcat", rel)'
  PROVE  Onward(rel) /\ k + 1 \in 0 .. 6 /\ IndexingAt(rel, attr, k + 1, D, r, a, o, cnt, S)'
<1>1. /\ k \in 0 .. 5 /\ k + 1 \in 0 .. 6 /\ UNCHANGED <<declared, indexed, dropped>>
      /\ Remaining(IndexPlan(rel, attr, r, a, Len(D), o, cnt), 6, k + 1)'
  BY IndexFacts
<1>2. Consistent(rel)'
  BY ConsistentBy DEF IndexNow, Underway
<1>3. Onward(rel)
  BY <1>1, <1>2 DEF Onward
<1>4. /\ Altered(rel, D, r, a, attr, o, IF k < 4 THEN -1 ELSE cnt, IF k < 3 THEN cnt ELSE cnt + 1, S)'
      /\ Attrs(rel)' = Attrs(rel)
  BY <1>1, AlteredSame DEF IndexNow, IndexingAt
<1>5. (k < 4 <=> k + 1 < 4) /\ (k < 3 <=> k + 1 < 3) /\ ~(k + 1 < 1)
  BY <1>1
<1>6. IndexedOf(rel)' = IndexedOf(rel)
  BY <1>1 DEF IndexedOf
<1>7. /\ \A q \in S : Attrs(rel)[q].indexNo < cnt
      /\ IndexedOf(rel) = AttrsAt(Attrs(rel), S)
      /\ \A f \in IndexFiles : AgreeOn(f, rel)
      /\ k >= 5 => AgreeOn("relcat", rel)
      /\ k >= 6 => AgreeOn("attrcat", rel)
  BY DEF IndexNow, IndexingAt
<1>8. IndexFiles \subseteq AllFiles /\ "relcat" \in AllFiles /\ "attrcat" \in AllFiles
  BY DEF IndexFiles, AllFiles
<1>9. /\ \A f \in IndexFiles : AgreeOn(f, rel)'
      /\ k + 1 >= 5 => AgreeOn("relcat", rel)'
      /\ k + 1 >= 6 => AgreeOn("attrcat", rel)'
  <2>1. k + 1 >= 5 => k = 4 \/ k >= 5
    BY <1>1
  <2>2. k + 1 >= 6 => k = 5
    BY <1>1
  <2> QED
    BY <1>7, <1>8, <2>1, <2>2
<1>10. Altered(rel, D, r, a, attr, o, IF k + 1 < 4 THEN -1 ELSE cnt, IF k + 1 < 3 THEN cnt ELSE cnt + 1, S)'
  BY <1>4, <1>5
<1> QED
  BY <1>1, <1>3, <1>4, <1>5, <1>6, <1>7, <1>9, <1>10 DEF IndexingAt

(* CREATE INDEX makes the file of the index; its number is a new one.        *)
LEMMA IndexFileMade ==
  ASSUME NEW rel, NEW attr, NEW k, NEW D, NEW r, NEW a, NEW o, NEW cnt, NEW S,
         IndexNow(rel, attr, k, D, r, a, o, cnt, S), k = 0
  PROVE  Onward(rel) /\ k + 1 \in 0 .. 6 /\ IndexingAt(rel, attr, k + 1, D, r, a, o, cnt, S)'
<1>1. Now = [do |-> "create", file |-> <<rel, cnt>>] /\ rel # LogFile
  BY IndexFacts
<1>2. CreateOrDestroyFile /\ Now.file = <<rel, cnt>> /\ Now.do = "create"
  BY <1>1, WhichAction DEF IndexNow, Underway
<1>3. /\ FilesOf(rel) = {<<rel>>} \union FilesAt(rel, Attrs(rel), S)
      /\ \A q \in S : Attrs(rel)[q].indexNo < cnt
      /\ cnt \in Nat
  BY DEF IndexNow, IndexingAt
<1>4. <<rel, cnt>> \notin files
  <2> SUFFICES ASSUME <<rel, cnt>> \in files PROVE FALSE
    OBVIOUS
  <2>1. <<rel, cnt>> \in FilesOf(rel)
    BY FileNames DEF FilesOf
  <2>2. <<rel, cnt>> \in FilesAt(rel, Attrs(rel), S)
    BY <1>3, <2>1, FileNames
  <2>3. PICK q \in S : Attrs(rel)[q].indexNo = cnt
    BY <2>2, FilesAtNames
  <2> QED
    BY <1>3, <2>3
<1>5. Reached(rel) /\ files' = files \union {<<rel, cnt>>} /\ UNCHANGED <<mem, disk, db>>
  BY <1>2, <1>4 DEF CreateOrDestroyFile, IndexNow, Underway
<1>6. Continue /\ broken' = broken /\ UNCHANGED failed
  BY <1>5, ReachedSelf DEF IndexNow, Underway
<1>7. SameView(rel) /\ \A f \in AllFiles : AgreeOn(f, rel) => AgreeOn(f, rel)'
  BY <1>5 DEF SameView, AgreeOn
<1>8. FilesOf(rel)' = FilesOf(rel) \union {<<rel, cnt>>}
  <2>1. <<rel, cnt>>[1] = rel /\ <<rel, cnt>> # <<LogFile>>
    BY FileNames
  <2> QED
    BY <1>5, <2>1 DEF FilesOf
<1>9. FilesOf(rel)' = {<<rel>>} \union FilesAt(rel, Attrs(rel), S) \union {<<rel, cnt>>}
  BY <1>3, <1>8
<1>10. k \notin {2, 3} /\ ~(k = 4) /\ ~(k = 5)
  OBVIOUS
<1> QED
  BY <1>6, <1>7, <1>9, <1>10, IndexingSame

(* CREATE INDEX opens the relation's file, which is there.                   *)
LEMMA RelationOpened ==
  ASSUME NEW rel, NEW attr, NEW k, NEW D, NEW r, NEW a, NEW o, NEW cnt, NEW S,
         IndexNow(rel, attr, k, D, r, a, o, cnt, S), k = 1
  PROVE  Onward(rel) /\ k + 1 \in 0 .. 6 /\ IndexingAt(rel, attr, k + 1, D, r, a, o, cnt, S)'
<1>1. Now = [do |-> "open"]
  BY IndexFacts
<1>2. OpenRelation
  BY <1>1, WhichAction DEF IndexNow, Underway
<1>3. FilesOf(rel) = {<<rel>>} \union FilesAt(rel, Attrs(rel), S) \union {<<rel, cnt>>}
  BY DEF IndexNow, IndexingAt
<1>4. <<rel>> \in files
  BY <1>3 DEF FilesOf
<1>5. Reached(rel) /\ UNCHANGED <<mem, disk, files, db>>
  BY <1>2, <1>4 DEF OpenRelation, IndexNow, Underway
<1>6. Continue /\ broken' = broken /\ UNCHANGED failed
  BY <1>5, ReachedSelf DEF IndexNow, Underway
<1>7. SameView(rel) /\ \A f \in AllFiles : AgreeOn(f, rel) => AgreeOn(f, rel)'
  BY <1>5 DEF SameView, AgreeOn
<1>8. FilesOf(rel)' = FilesOf(rel)
  BY <1>5, FilesSame
<1>10. k \notin {2, 3} /\ ~(k = 4) /\ ~(k = 5)
  OBVIOUS
<1> QED
  BY <1>3, <1>6, <1>7, <1>8, <1>10, IndexingSame

(* CREATE INDEX forces the pages of a catalog.                               *)
LEMMA IndexFlushed ==
  ASSUME NEW rel, NEW attr, NEW k, NEW D, NEW r, NEW a, NEW o, NEW cnt, NEW S,
         IndexNow(rel, attr, k, D, r, a, o, cnt, S), k \in {4, 5}
  PROVE  Onward(rel) /\ k + 1 \in 0 .. 6 /\ IndexingAt(rel, attr, k + 1, D, r, a, o, cnt, S)'
<1>1. /\ k = 4 => Now = Flushing("relcat")
      /\ k = 5 => Now = Flushing("attrcat")
  BY IndexFacts
<1>2. /\ ForcePages
      /\ k = 4 => Now.file = "relcat"
      /\ k = 5 => Now.file = "attrcat"
  BY <1>1, WhichAction DEF IndexNow, Underway, Flushing
<1>3. FilesOf(rel) = {<<rel>>} \union FilesAt(rel, Attrs(rel), S) \union {<<rel, cnt>>}
  BY DEF IndexNow, IndexingAt
<1>5. /\ UNCHANGED <<mem, files, db, broken, failed>> /\ Continue
      /\ SameView(rel)
      /\ \A f : f = Now.file => AgreeOn(f, rel)'
      /\ \A f \in AllFiles : AgreeOn(f, rel) => AgreeOn(f, rel)'
  BY <1>2, ForceView DEF IndexNow, Underway
<1>6. broken' = broken /\ UNCHANGED failed
  BY <1>5
<1>7. FilesOf(rel)' = FilesOf(rel)
  BY <1>5, FilesSame
<1>8. /\ k = 4 => AgreeOn("relcat", rel)'
      /\ k = 5 => AgreeOn("attrcat", rel)'
  BY <1>2, <1>5
<1>9. k \notin {2, 3}
  OBVIOUS
<1> QED
  BY <1>3, <1>5, <1>6, <1>7, <1>8, <1>9, IndexingSame

(* What an update of a record of the relation changes.                       *)
LEMMA RecordUpdated ==
  ASSUME NEW rel, NEW what, Underway(rel, what), NEW c \in RecordFiles, NEW x, NEW v,
         Now = [do |-> "update", file |-> c, rid |-> x, rec |-> v], v.rel = rel
  PROVE  /\ Onward(rel)
         /\ View(mem'[c], rel) = Put(View(mem[c], rel), x, v)
         /\ \A d \in RecordFiles : d # c => mem'[d] = mem[d]
         /\ FilesOf(rel)' = FilesOf(rel)
         /\ IndexedOf(rel)' = IndexedOf(rel)
         /\ \A f \in AllFiles : f # c /\ AgreeOn(f, rel) => AgreeOn(f, rel)'
<1>1. UpdateRecord /\ Now.file = c /\ Now.rid = x /\ Now.rec = v /\ rel = stmt.rel /\ Consistent(stmt.rel)
  BY WhichAction DEF Underway
<1>2. UNCHANGED <<declared, indexed, dropped>>
  BY WhichAction DEF Underway
<1>3. /\ Reached(rel)
      /\ View(mem'[c], rel) = Put(View(mem[c], rel), x, v)
      /\ \A d \in RecordFiles : d # c => mem'[d] = mem[d]
      /\ \A i \in IndexFiles : mem'[i] = mem[i]
      /\ \A d \in RecordFiles : EntriesFor(mem'[IndexOf[d]], rel) = Of(mem'[d], rel)
      /\ UNCHANGED <<disk, files, db>>
  BY <1>1, UpdateView DEF Underway
<1>4. Onward(rel)
  BY <1>1, <1>2, <1>3, ConsistentNow, ReachedSelf DEF Onward, Underway
<1>5. FilesOf(rel)' = FilesOf(rel) /\ IndexedOf(rel)' = IndexedOf(rel)
  BY <1>2, <1>3, FilesSame DEF IndexedOf
<1>6. ASSUME NEW f \in AllFiles, f # c, AgreeOn(f, rel) PROVE AgreeOn(f, rel)'
  <2>1. mem'[f] = mem[f] /\ disk'[f] = disk[f]
    BY <1>3, <1>6, Names4
  <2> QED
    BY <1>6, <2>1 DEF AgreeOn
<1> QED
  BY <1>3, <1>4, <1>5, <1>6

(* CREATE INDEX counts the index in the record of the relation.              *)
LEMMA IndexCounted ==
  ASSUME NEW rel, NEW attr, NEW k, NEW D, NEW r, NEW a, NEW o, NEW cnt, NEW S,
         IndexNow(rel, attr, k, D, r, a, o, cnt, S), k = 2
  PROVE  Onward(rel) /\ k + 1 \in 0 .. 6 /\ IndexingAt(rel, attr, k + 1, D, r, a, o, cnt, S)'
<1> DEFINE v == [rel |-> rel, attrCount |-> Len(D), indexCount |-> cnt + 1]
<1>1. /\ Now = [do |-> "update", file |-> "relcat", rid |-> r, rec |-> v]
      /\ UNCHANGED <<declared, indexed, dropped>>
      /\ Continue => Remaining(IndexPlan(rel, attr, r, a, Len(D), o, cnt), 6, k + 1)'
  BY IndexFacts
<1>2. "relcat" \in RecordFiles /\ "attrcat" \in RecordFiles /\ "attrcat" # "relcat" /\ v.rel = rel
      /\ Underway(rel, "createIndex")
  BY DEF RecordFiles, IndexNow
<1> HIDE DEF v
<1>3. /\ Onward(rel)
      /\ View(mem'["relcat"], rel) = Put(View(mem["relcat"], rel), r, v)
      /\ \A d \in RecordFiles : d # "relcat" => mem'[d] = mem[d]
      /\ FilesOf(rel)' = FilesOf(rel)
      /\ IndexedOf(rel)' = IndexedOf(rel)
      /\ \A f \in AllFiles : f # "relcat" /\ AgreeOn(f, rel) => AgreeOn(f, rel)'
  BY <1>1, <1>2, RecordUpdated
<1>4. Rels(rel)' = Put(Rels(rel), r, v) /\ Attrs(rel)' = Attrs(rel)
  BY <1>2, <1>3 DEF Rels, Attrs
<1>5. Altered(rel, D, r, a, attr, o, -1, cnt, S) /\ FilesOK(mem) /\ cnt \in Nat
  BY DEF IndexNow, IndexingAt, Underway
<1>6. Altered(rel, D, r, a, attr, o, -1, cnt + 1, S)'
  <2>1. UNCHANGED <<declared, dropped>>
    BY <1>1
  <2> QED
    BY <1>4, <1>5, <2>1, AlteredCount DEF v
<1>7. /\ FilesOf(rel) = {<<rel>>} \union FilesAt(rel, Attrs(rel), S) \union {<<rel, cnt>>}
      /\ \A q \in S : Attrs(rel)[q].indexNo < cnt
      /\ IndexedOf(rel) = AttrsAt(Attrs(rel), S)
      /\ \A f \in IndexFiles : AgreeOn(f, rel)
  BY DEF IndexNow, IndexingAt
<1>8. \A f \in IndexFiles : AgreeOn(f, rel)'
  BY <1>3, <1>7 DEF IndexFiles, AllFiles
<1>9. Remaining(IndexPlan(rel, attr, r, a, Len(D), o, cnt), 6, k + 1)'
  BY <1>1, <1>3 DEF Onward
<1>10. k + 1 < 4 /\ ~(k + 1 < 3) /\ ~(k + 1 < 1) /\ ~(k + 1 >= 5) /\ ~(k + 1 >= 6) /\ k + 1 \in 0 .. 6
  OBVIOUS
<1> QED
  BY <1>3, <1>4, <1>6, <1>7, <1>8, <1>9, <1>10 DEF IndexingAt

(* CREATE INDEX writes the index's number to the attribute's record.         *)
LEMMA AttributeIndexed ==
  ASSUME NEW rel, NEW attr, NEW k, NEW D, NEW r, NEW a, NEW o, NEW cnt, NEW S,
         IndexNow(rel, attr, k, D, r, a, o, cnt, S), k = 3
  PROVE  Onward(rel) /\ k + 1 \in 0 .. 6 /\ IndexingAt(rel, attr, k + 1, D, r, a, o, cnt, S)'
<1> DEFINE v == [rel |-> rel, attr |-> attr, offset |-> o, indexNo |-> cnt]
<1>1. /\ Now = [do |-> "update", file |-> "attrcat", rid |-> a, rec |-> v]
      /\ UNCHANGED <<declared, indexed, dropped>>
      /\ Continue => Remaining(IndexPlan(rel, attr, r, a, Len(D), o, cnt), 6, k + 1)'
  BY IndexFacts
<1>2. "relcat" \in RecordFiles /\ "attrcat" \in RecordFiles /\ "attrcat" # "relcat" /\ v.rel = rel
      /\ Underway(rel, "createIndex")
  BY DEF RecordFiles, IndexNow
<1> HIDE DEF v
<1>3. /\ Onward(rel)
      /\ View(mem'["attrcat"], rel) = Put(View(mem["attrcat"], rel), a, v)
      /\ \A d \in RecordFiles : d # "attrcat" => mem'[d] = mem[d]
      /\ FilesOf(rel)' = FilesOf(rel)
      /\ IndexedOf(rel)' = IndexedOf(rel)
      /\ \A f \in AllFiles : f # "attrcat" /\ AgreeOn(f, rel) => AgreeOn(f, rel)'
  BY <1>1, <1>2, RecordUpdated
<1>4. Attrs(rel)' = Put(Attrs(rel), a, v) /\ Rels(rel)' = Rels(rel)
  BY <1>2, <1>3 DEF Rels, Attrs
<1>5. Altered(rel, D, r, a, attr, o, -1, cnt + 1, S)
  BY DEF IndexNow, IndexingAt
<1>6. /\ Altered(rel, D, r, a, attr, o, cnt, cnt + 1, S)'
      /\ FilesAt(rel, Attrs(rel)', S) = FilesAt(rel, Attrs(rel), S)
      /\ AttrsAt(Attrs(rel)', S) = AttrsAt(Attrs(rel), S)
      /\ \A q \in S : Attrs(rel)'[q] = Attrs(rel)[q]
  <2>1. UNCHANGED <<declared, dropped>>
    BY <1>1
  <2> QED
    BY <1>4, <1>5, <2>1, AlteredIndex DEF v
<1>7. /\ FilesOf(rel) = {<<rel>>} \union FilesAt(rel, Attrs(rel), S) \union {<<rel, cnt>>}
      /\ \A q \in S : Attrs(rel)[q].indexNo < cnt
      /\ IndexedOf(rel) = AttrsAt(Attrs(rel), S)
      /\ \A f \in IndexFiles : AgreeOn(f, rel)
  BY DEF IndexNow, IndexingAt
<1>8. \A f \in IndexFiles : AgreeOn(f, rel)'
  BY <1>3, <1>7 DEF IndexFiles, AllFiles
<1>9. Remaining(IndexPlan(rel, attr, r, a, Len(D), o, cnt), 6, k + 1)'
  BY <1>1, <1>3 DEF Onward
<1>10. ~(k + 1 < 4) /\ ~(k + 1 < 3) /\ ~(k + 1 < 1) /\ ~(k + 1 >= 5) /\ ~(k + 1 >= 6) /\ k + 1 \in 0 .. 6
  OBVIOUS
<1> QED
  BY <1>3, <1>4, <1>6, <1>7, <1>8, <1>9, <1>10 DEF IndexingAt

(* Every step of CREATE INDEX does the next item.                            *)
LEMMA IndexingStep ==
  ASSUME NEW rel, NEW attr, NEW k \in 0 .. 6, Underway(rel, "createIndex"), Indexing(rel, attr, k)
  PROVE  Onward(rel) /\ k + 1 \in 0 .. 6 /\ Indexing(rel, attr, k + 1)'
<1>1. PICK D \in Declarations, r \in Nat, a \in Nat, o \in Nat, cnt \in Nat, S \in SUBSET Nat :
        IndexingAt(rel, attr, k, D, r, a, o, cnt, S)
  BY DEF Indexing
<1>2. IndexNow(rel, attr, k, D, r, a, o, cnt, S)
  BY <1>1 DEF IndexNow
<1>3. k = 0 \/ k = 1 \/ k = 2 \/ k = 3 \/ k \in {4, 5}
  <2>1. k \in 0 .. 5
    BY <1>2, IndexFacts
  <2> QED
    BY <2>1
<1>4. Onward(rel) /\ k + 1 \in 0 .. 6 /\ IndexingAt(rel, attr, k + 1, D, r, a, o, cnt, S)'
  BY <1>2, <1>3, IndexFileMade, RelationOpened, IndexCounted, AttributeIndexed, IndexFlushed
<1> QED
  BY <1>4 DEF Indexing

(* What the steps of DROP INDEX have in common.                              *)
UnindexNow(rel, attr, k, D, r, a, o, x, cnt, S) ==
  /\ Underway(rel, "dropIndex") /\ k \in 0 .. 3
  /\ D \in Declarations /\ r \in Nat /\ a \in Nat /\ o \in Nat /\ x \in Nat /\ cnt \in Nat /\ S \subseteq Nat
  /\ UnindexingAt(rel, attr, k, D, r, a, o, x, cnt, S)

(* The items of DROP INDEX.                                                  *)
LEMMA UnindexFacts ==
  ASSUME NEW rel, NEW attr, NEW k, NEW D, NEW r, NEW a, NEW o, NEW x, NEW cnt, NEW S,
         UnindexNow(rel, attr, k, D, r, a, o, x, cnt, S)
  PROVE  /\ k \in 0 .. 2 /\ k + 1 \in 0 .. 3
         /\ k = 0 => Now = [do |-> "destroy", file |-> <<rel, x>>]
         /\ k = 1 => Now = [do |-> "update", file |-> "attrcat", rid |-> a,
                            rec |-> [rel |-> rel, attr |-> attr, offset |-> o, indexNo |-> -1]]
         /\ k = 2 => Now = Flushing("attrcat")
         /\ UNCHANGED <<declared, indexed, dropped>>
         /\ rel \in DOMAIN declared /\ rel # LogFile
         /\ Continue => Remaining(DropIndexPlan(rel, attr, a, o, x), 3, k + 1)'
<1> DEFINE P == DropIndexPlan(rel, attr, a, o, x)
<1>1. k \in 0 .. 3 /\ Remaining(P, 3, k) /\ 3 \in Nat
  BY DEF UnindexNow, UnindexingAt
<1>2. rel \in DOMAIN declared
  BY DEF UnindexNow, UnindexingAt, Altered
<1>3. stmt.todo # <<>> /\ UNCHANGED <<declared, indexed, dropped>>
  BY WhichAction DEF Underway, UnindexNow
<1> HIDE DEF P
<1>4. k < 3 /\ Now = P[k + 1]
  BY <1>1, <1>3, Planned
<1>5. rel # LogFile
  BY <1>2 DEF UnindexNow, Underway, LogOK
<1>6. ASSUME Continue PROVE Remaining(P, 3, k + 1)'
  <2>1. stmt'.todo = Tail(stmt.todo)
    BY <1>3, <1>6, Current, Continues DEF UnindexNow, Underway
  <2> QED
    BY <1>1, <1>3, <2>1, Planned
<1>7. k \in 0 .. 2 /\ k + 1 \in 0 .. 3
  BY <1>1, <1>4
<1>8. /\ k = 0 => Now = P[1]
      /\ k = 1 => Now = P[2]
      /\ k = 2 => Now = P[3]
  BY <1>4
<1> QED
  BY <1>2, <1>3, <1>5, <1>6, <1>7, <1>8 DEF P, DropIndexPlan

(* A step that leaves the records of the relation as they are.               *)
LEMMA UnindexingSame ==
  ASSUME NEW rel, NEW attr, NEW k, NEW D, NEW r, NEW a, NEW o, NEW x, NEW cnt, NEW S,
         UnindexNow(rel, attr, k, D, r, a, o, x, cnt, S),
         Continue, broken' = broken, UNCHANGED failed, SameView(rel), k # 1,
         FilesOf(rel)' = {<<rel>>} \union FilesAt(rel, Attrs(rel), S),
         \A f \in AllFiles : AgreeOn(f, rel) => AgreeOn(f, rel)',
         k = 2 => AgreeOn("attrcat", rel)'
  PROVE  Onward(rel) /\ k + 1 \in 0 .. 3 /\ UnindexingAt(rel, attr, k + 1, D, r, a, o, x, cnt, S)'
<1>1. /\ k \in 0 .. 2 /\ k + 1 \in 0 .. 3 /\ UNCHANGED <<declared, indexed, dropped>>
      /\ Remaining(DropIndexPlan(rel, attr, a, o, x), 3, k + 1)'
  BY UnindexFacts
<1>2. Consistent(rel)'
  BY ConsistentBy DEF UnindexNow, Underway
<1>3. Onward(rel)
  BY <1>1, <1>2 DEF Onward
<1>4. /\ Altered(rel, D, r, a, attr, o, IF k < 2 THEN x ELSE -1, cnt, S)'
      /\ Attrs(rel)' = Attrs(rel)
  BY <1>1, AlteredSame DEF UnindexNow, UnindexingAt
<1>5. (k < 2 <=> k + 1 < 2) /\ ~(k + 1 < 1)
  BY <1>1
<1>6. IndexedOf(rel)' = IndexedOf(rel)
  BY <1>1 DEF IndexedOf
<1>7. /\ x < cnt /\ \A q \in S : Attrs(rel)[q].indexNo # x
      /\ IndexedOf(rel) = AttrsAt(Attrs(rel), S) \union {attr}
      /\ attr \notin AttrsAt(Attrs(rel), S)
      /\ \A f \in IndexFiles \union {"relcat"} : AgreeOn(f, rel)
  BY DEF UnindexNow, UnindexingAt
<1>8. IndexFiles \union {"relcat"} \subseteq AllFiles
  BY DEF IndexFiles, AllFiles
<1>9. /\ \A f \in IndexFiles \union {"relcat"} : AgreeOn(f, rel)'
      /\ k + 1 >= 3 => AgreeOn("attrcat", rel)'
  <2>1. k + 1 >= 3 => k = 2
    BY <1>1
  <2> QED
    BY <1>7, <1>8, <2>1
<1>10. Altered(rel, D, r, a, attr, o, IF k + 1 < 2 THEN x ELSE -1, cnt, S)'
  BY <1>4, <1>5
<1> QED
  BY <1>1, <1>3, <1>4, <1>5, <1>6, <1>7, <1>9, <1>10 DEF UnindexingAt

(* DROP INDEX destroys the file of the index, which is there.                *)
LEMMA IndexFileDropped ==
  ASSUME NEW rel, NEW attr, NEW k, NEW D, NEW r, NEW a, NEW o, NEW x, NEW cnt, NEW S,
         UnindexNow(rel, attr, k, D, r, a, o, x, cnt, S), k = 0
  PROVE  Onward(rel) /\ k + 1 \in 0 .. 3 /\ UnindexingAt(rel, attr, k + 1, D, r, a, o, x, cnt, S)'
<1>1. Now = [do |-> "destroy", file |-> <<rel, x>>] /\ rel # LogFile
  BY UnindexFacts
<1>2. CreateOrDestroyFile /\ Now.file = <<rel, x>> /\ Now.do = "destroy"
  BY <1>1, WhichAction DEF UnindexNow, Underway
<1>3. /\ FilesOf(rel) = {<<rel>>} \union FilesAt(rel, Attrs(rel), S) \union {<<rel, x>>}
      /\ \A q \in S : Attrs(rel)[q].indexNo # x
  BY DEF UnindexNow, UnindexingAt
<1>4. <<rel, x>> \in files
  BY <1>3 DEF FilesOf
<1>5. Reached(rel) /\ files' = files \ {<<rel, x>>} /\ UNCHANGED <<mem, disk, db>>
  BY <1>2, <1>4 DEF CreateOrDestroyFile, UnindexNow, Underway
<1>6. Continue /\ broken' = broken /\ UNCHANGED failed
  BY <1>5, ReachedSelf DEF UnindexNow, Underway
<1>7. SameView(rel) /\ \A f \in AllFiles : AgreeOn(f, rel) => AgreeOn(f, rel)'
  BY <1>5 DEF SameView, AgreeOn
<1>8. FilesOf(rel)' = FilesOf(rel) \ {<<rel, x>>}
  BY <1>5 DEF FilesOf
<1>9. <<rel, x>> \notin {<<rel>>} \union FilesAt(rel, Attrs(rel), S)
  <2>1. <<rel, x>> # <<rel>>
    BY FileNames
  <2>2. <<rel, x>> \notin FilesAt(rel, Attrs(rel), S)
    <3> SUFFICES ASSUME <<rel, x>> \in FilesAt(rel, Attrs(rel), S) PROVE FALSE
      OBVIOUS
    <3>1. PICK q \in S : Attrs(rel)[q].indexNo = x
      BY FilesAtNames
    <3> QED
      BY <1>3, <3>1
  <2> QED
    BY <2>1, <2>2
<1>11. FilesOf(rel)' = {<<rel>>} \union FilesAt(rel, Attrs(rel), S)
  <2>1. PICK u, w : u = {<<rel>>} \union FilesAt(rel, Attrs(rel), S) /\ w = <<rel, x>>
    OBVIOUS
  <2>2. FilesOf(rel) = u \union {w} /\ w \notin u /\ FilesOf(rel)' = FilesOf(rel) \ {w}
    BY <1>3, <1>8, <1>9, <2>1
  <2> QED
    BY <2>1, <2>2
<1>10. k # 1 /\ ~(k = 2)
  OBVIOUS
<1> QED
  BY <1>6, <1>7, <1>11, <1>10, UnindexingSame

(* DROP INDEX forces the pages of attrcat.                                   *)
LEMMA UnindexFlushed ==
  ASSUME NEW rel, NEW attr, NEW k, NEW D, NEW r, NEW a, NEW o, NEW x, NEW cnt, NEW S,
         UnindexNow(rel, attr, k, D, r, a, o, x, cnt, S), k = 2
  PROVE  Onward(rel) /\ k + 1 \in 0 .. 3 /\ UnindexingAt(rel, attr, k + 1, D, r, a, o, x, cnt, S)'
<1>1. Now = Flushing("attrcat")
  BY UnindexFacts
<1>2. ForcePages /\ Now.file = "attrcat"
  BY <1>1, WhichAction DEF UnindexNow, Underway, Flushing
<1>3. FilesOf(rel) = {<<rel>>} \union FilesAt(rel, Attrs(rel), S)
  BY DEF UnindexNow, UnindexingAt
<1>5. /\ UNCHANGED <<mem, files, db, broken, failed>> /\ Continue
      /\ SameView(rel)
      /\ \A f : f = Now.file => AgreeOn(f, rel)'
      /\ \A f \in AllFiles : AgreeOn(f, rel) => AgreeOn(f, rel)'
  BY <1>2, ForceView DEF UnindexNow, Underway
<1>6. broken' = broken /\ UNCHANGED failed
  BY <1>5
<1>7. FilesOf(rel)' = FilesOf(rel)
  BY <1>5, FilesSame
<1>8. AgreeOn("attrcat", rel)'
  BY <1>2, <1>5
<1>9. k # 1
  OBVIOUS
<1> QED
  BY <1>3, <1>5, <1>6, <1>7, <1>8, <1>9, UnindexingSame

(* DROP INDEX takes the number from the attribute's record.                  *)
LEMMA AttributeUnindexed ==
  ASSUME NEW rel, NEW attr, NEW k, NEW D, NEW r, NEW a, NEW o, NEW x, NEW cnt, NEW S,
         UnindexNow(rel, attr, k, D, r, a, o, x, cnt, S), k = 1
  PROVE  Onward(rel) /\ k + 1 \in 0 .. 3 /\ UnindexingAt(rel, attr, k + 1, D, r, a, o, x, cnt, S)'
<1> DEFINE v == [rel |-> rel, attr |-> attr, offset |-> o, indexNo |-> -1]
<1>1. /\ Now = [do |-> "update", file |-> "attrcat", rid |-> a, rec |-> v]
      /\ UNCHANGED <<declared, indexed, dropped>>
      /\ Continue => Remaining(DropIndexPlan(rel, attr, a, o, x), 3, k + 1)'
  BY UnindexFacts
<1>2. "relcat" \in RecordFiles /\ "attrcat" \in RecordFiles /\ "attrcat" # "relcat" /\ v.rel = rel
      /\ Underway(rel, "dropIndex")
  BY DEF RecordFiles, UnindexNow
<1> HIDE DEF v
<1>3. /\ Onward(rel)
      /\ View(mem'["attrcat"], rel) = Put(View(mem["attrcat"], rel), a, v)
      /\ \A d \in RecordFiles : d # "attrcat" => mem'[d] = mem[d]
      /\ FilesOf(rel)' = FilesOf(rel)
      /\ IndexedOf(rel)' = IndexedOf(rel)
      /\ \A f \in AllFiles : f # "attrcat" /\ AgreeOn(f, rel) => AgreeOn(f, rel)'
  BY <1>1, <1>2, RecordUpdated
<1>4. Attrs(rel)' = Put(Attrs(rel), a, v) /\ Rels(rel)' = Rels(rel)
  BY <1>2, <1>3 DEF Rels, Attrs
<1>5. Altered(rel, D, r, a, attr, o, x, cnt, S)
  BY DEF UnindexNow, UnindexingAt
<1>6. /\ Altered(rel, D, r, a, attr, o, -1, cnt, S)'
      /\ FilesAt(rel, Attrs(rel)', S) = FilesAt(rel, Attrs(rel), S)
      /\ AttrsAt(Attrs(rel)', S) = AttrsAt(Attrs(rel), S)
      /\ \A q \in S : Attrs(rel)'[q] = Attrs(rel)[q]
  <2>1. UNCHANGED <<declared, dropped>>
    BY <1>1
  <2> QED
    BY <1>4, <1>5, <2>1, AlteredIndex DEF v
<1>7. /\ FilesOf(rel) = {<<rel>>} \union FilesAt(rel, Attrs(rel), S)
      /\ x < cnt /\ \A q \in S : Attrs(rel)[q].indexNo # x
      /\ IndexedOf(rel) = AttrsAt(Attrs(rel), S) \union {attr}
      /\ attr \notin AttrsAt(Attrs(rel), S)
      /\ \A f \in IndexFiles \union {"relcat"} : AgreeOn(f, rel)
  BY DEF UnindexNow, UnindexingAt
<1>8. \A f \in IndexFiles \union {"relcat"} : AgreeOn(f, rel)'
  BY <1>3, <1>7 DEF IndexFiles, AllFiles
<1>9. Remaining(DropIndexPlan(rel, attr, a, o, x), 3, k + 1)'
  BY <1>1, <1>3 DEF Onward
<1>10. ~(k + 1 < 2) /\ ~(k + 1 < 1) /\ ~(k + 1 >= 3) /\ k + 1 \in 0 .. 3
  OBVIOUS
<1> QED
  BY <1>3, <1>4, <1>6, <1>7, <1>8, <1>9, <1>10 DEF UnindexingAt

(* Every step of DROP INDEX does the next item.                              *)
LEMMA UnindexingStep ==
  ASSUME NEW rel, NEW attr, NEW k \in 0 .. 3, Underway(rel, "dropIndex"), Unindexing(rel, attr, k)
  PROVE  Onward(rel) /\ k + 1 \in 0 .. 3 /\ Unindexing(rel, attr, k + 1)'
<1>1. PICK D \in Declarations, r \in Nat, a \in Nat, o \in Nat, x \in Nat, cnt \in Nat, S \in SUBSET Nat :
        UnindexingAt(rel, attr, k, D, r, a, o, x, cnt, S)
  BY DEF Unindexing
<1>2. UnindexNow(rel, attr, k, D, r, a, o, x, cnt, S)
  BY <1>1 DEF UnindexNow
<1>3. k = 0 \/ k = 1 \/ k = 2
  <2>1. k \in 0 .. 2
    BY <1>2, UnindexFacts
  <2> QED
    BY <2>1
<1>4. Onward(rel) /\ k + 1 \in 0 .. 3 /\ UnindexingAt(rel, attr, k + 1, D, r, a, o, x, cnt, S)'
  BY <1>2, <1>3, IndexFileDropped, AttributeUnindexed, UnindexFlushed
<1> QED
  BY <1>4 DEF Unindexing

-------------------------------------------------------------------------------
(* Every step of a statement keeps the invariant.                            *)

(* A step on a relation that is not broken does the next item; it fails only on the log. *)
LEMMA StepOnItsRelation ==
  ASSUME Inv, Step, NEW rel, rel = stmt.rel, rel \notin broken, db' = "open"
  PROVE  \/ Onward(rel) /\ InStatement(rel)'
         \/ rel = LogFile /\ Fail
<1>1. stmt.todo # <<>> /\ db = "open"
  BY WhichAction
<1>2. stmt # Idle /\ StmtForm /\ rel \in Names
  BY <1>1, Current DEF Inv
<1>3. InStatement(rel)
  BY <1>1, <1>2 DEF Inv, RelationsOK
<1>4. \A what : stmt.type = what => Underway(rel, what)
  BY <1>3 DEF Underway, Inv, InStatement
<1>5. stmt.type = "createTable" => stmt.attrs \in Declarations
  BY <1>2 DEF StmtForm
<1>6. Continue => /\ stmt'.rel = rel /\ stmt'.type = stmt.type
                  /\ stmt.type = "createTable" => stmt'.attrs = stmt.attrs
                  /\ stmt.type \in {"createIndex", "dropIndex"} => stmt'.attr = stmt.attr
  BY <1>2, Continues
<1>7. CASE stmt.type = "createTable" /\ \E k \in 0 .. Len(stmt.attrs) + 6 : Creating(rel, stmt.attrs, k)
  <2>1. PICK D \in Declarations : D = stmt.attrs
    BY <1>5, <1>7
  <2>2. PICK k \in 0 .. Len(D) + 6 : Creating(rel, D, k)
    BY <1>7, <2>1
  <2>3. Underway(rel, "createTable")
    BY <1>4, <1>7
  <2>4. \/ Onward(rel) /\ k + 1 \in 0 .. Len(D) + 6 /\ Creating(rel, D, k + 1)'
        \/ rel = LogFile /\ Fail
    BY <2>2, <2>3, CreatingStep
  <2>5. ASSUME Onward(rel), k + 1 \in 0 .. Len(D) + 6, Creating(rel, D, k + 1)' PROVE InStatement(rel)'
    <3>1. Consistent(rel)' /\ stmt'.type = "createTable" /\ stmt'.attrs = D
      BY <1>6, <1>7, <2>1, <2>5 DEF Onward
    <3> QED
      BY <2>5, <3>1 DEF InStatement
  <2> QED
    BY <2>4, <2>5
<1>8. CASE /\ stmt.type = "dropTable"
           /\ \E r \in Nat, rids \in Seq(Nat) : \E k \in 0 .. Len(rids) + 6 : Dropping(rel, r, rids, k)
  <2>1. PICK r \in Nat, rids \in Seq(Nat) : \E k \in 0 .. Len(rids) + 6 : Dropping(rel, r, rids, k)
    BY <1>8
  <2>2. PICK k \in 0 .. Len(rids) + 6 : Dropping(rel, r, rids, k)
    BY <2>1
  <2>3. Underway(rel, "dropTable")
    BY <1>4, <1>8
  <2>4. DropAt(rel, r, rids, k)
    BY <2>1, <2>2, <2>3 DEF DropAt
  <2>5. Onward(rel) /\ k + 1 \in 0 .. Len(rids) + 6 /\ Dropping(rel, r, rids, k + 1)'
    BY <2>4, DroppingStep
  <2>6. Consistent(rel)' /\ stmt'.type = "dropTable"
    BY <1>6, <1>8, <2>5 DEF Onward
  <2> QED
    BY <2>1, <2>5, <2>6 DEF InStatement
<1>9. CASE stmt.type = "createIndex" /\ \E k \in 0 .. 6 : Indexing(rel, stmt.attr, k)
  <2>1. PICK attr : attr = stmt.attr
    OBVIOUS
  <2>2. PICK k \in 0 .. 6 : Indexing(rel, attr, k)
    BY <1>9, <2>1
  <2>3. Underway(rel, "createIndex")
    BY <1>4, <1>9
  <2>5. Onward(rel) /\ k + 1 \in 0 .. 6 /\ Indexing(rel, attr, k + 1)'
    BY <2>2, <2>3, IndexingStep
  <2>6. Consistent(rel)' /\ stmt'.type = "createIndex" /\ stmt'.attr = attr
    BY <1>6, <1>9, <2>1, <2>5 DEF Onward
  <2> QED
    BY <2>1, <2>5, <2>6 DEF InStatement
<1>10. CASE stmt.type = "dropIndex" /\ \E k \in 0 .. 3 : Unindexing(rel, stmt.attr, k)
  <2>1. PICK attr : attr = stmt.attr
    OBVIOUS
  <2>2. PICK k \in 0 .. 3 : Unindexing(rel, attr, k)
    BY <1>10, <2>1
  <2>3. Underway(rel, "dropIndex")
    BY <1>4, <1>10
  <2>5. Onward(rel) /\ k + 1 \in 0 .. 3 /\ Unindexing(rel, attr, k + 1)'
    BY <2>2, <2>3, UnindexingStep
  <2>6. Consistent(rel)' /\ stmt'.type = "dropIndex" /\ stmt'.attr = attr
    BY <1>6, <1>10, <2>1, <2>5 DEF Onward
  <2> QED
    BY <2>1, <2>5, <2>6 DEF InStatement
<1> QED
  BY <1>3, <1>7, <1>8, <1>9, <1>10 DEF InStatement

(* A step keeps what is said of all relations.                               *)
LEMMA StepRelations ==
  ASSUME Inv, Step, Effect
  PROVE  RelationsOK'
<1> SUFFICES ASSUME db' = "open", NEW rel \in Names, rel \notin broken'
             PROVE  IF stmt' # Idle /\ stmt'.rel = rel THEN InStatement(rel)' ELSE Settled(rel)'
  BY DEF RelationsOK
<1>1. stmt.todo # <<>> /\ db = "open" /\ UNCHANGED <<declared, indexed, dropped>>
  BY WhichAction
<1>2. stmt # Idle /\ StmtForm /\ stmt.rel \in Names
  BY <1>1, Current DEF Inv
<1>3. rel \notin broken
  BY DEF Effect
<1>4. (Continue /\ stmt' # Idle /\ stmt'.rel = stmt.rel) \/ (Fail /\ stmt' = Idle)
  <2>1. Continue \/ Fail
    BY DEF Effect
  <2> QED
    BY <1>2, <2>1, Continues DEF Fail
<1>5. CASE rel # stmt.rel
  <2>1. Settled(rel)
    BY <1>1, <1>3, <1>5 DEF Inv, RelationsOK
  <2>2. Settled(rel)'
    BY <1>1, <1>5, <2>1, OthersSettled DEF Inv
  <2> QED
    BY <1>4, <1>5, <2>2
<1>6. CASE rel = stmt.rel
  <2>1. ~Fail
    BY <1>6, Broken
  <2>2. InStatement(rel)'
    BY <1>3, <1>6, <2>1, StepOnItsRelation
  <2> QED
    BY <1>4, <1>6, <2>1, <2>2
<1> QED
  BY <1>5, <1>6

(* A step fails only on a broken relation or on the log.                     *)
LEMMA StepFails ==
  ASSUME Inv, Step, Effect
  PROVE  FailsOnlyWhenBroken'
<1>1. stmt.todo # <<>> /\ db = "open" /\ UNCHANGED <<declared, indexed, dropped>>
  BY WhichAction
<1>2. stmt # Idle /\ StmtForm /\ stmt.rel \in Names
  BY <1>1, Current DEF Inv
<1>3. failed \subseteq {LogFile}
  BY DEF Inv, FailsOnlyWhenBroken
<1>4. failed' \subseteq {LogFile}
  <2>1. CASE UNCHANGED failed
    BY <1>3, <2>1
  <2>2. CASE Fail
    <3>1. failed' = failed \union ({stmt.rel} \ broken) /\ stmt' = Idle
      BY <2>2 DEF Fail
    <3>2. CASE stmt.rel \in broken
      BY <1>3, <3>1, <3>2
    <3>3. CASE stmt.rel \notin broken
      <4>1. PICK rel : rel = stmt.rel
        OBVIOUS
      <4>2. ~Onward(rel)
        BY <1>2, <3>1, Continues DEF Onward
      <4>4. db' = "open"
        <5> SUFFICES ASSUME db' # "open" PROVE FALSE
          OBVIOUS
        <5>1. db' = "torn"
          BY <1>1, <1>2, <2>2, Continues DEF Effect, Fail
        <5>2. Consistent(stmt.rel)
          BY <1>1, <1>2, <3>3 DEF Inv, RelationsOK, InStatement
        <5>3. InsertRecord /\ HasRoom(Target(mem[Now.file])) /\ Target(mem[Now.file]) # Hole
          <6>1. InsertRecord
            BY <1>1, <5>1 DEF Step, DropRelation, DropAttribute, UpdateRecord, OpenRelation,
               CreateOrDestroyFile, ForcePages
          <6> QED
            BY <5>1, <6>1 DEF InsertRecord
        <5>4. UNCHANGED db
          BY <5>2, <5>3, InsertView DEF Inv
        <5> QED
          BY <1>1, <5>1, <5>4
      <4>3. rel = LogFile
        BY <1>1, <2>2, <3>3, <4>1, <4>2, <4>4, StepOnItsRelation
      <4> QED
        BY <1>3, <3>1, <4>1, <4>3
    <3> QED
      BY <3>2, <3>3
  <2> QED
    BY <2>1, <2>2 DEF Effect
<1>5. ASSUME db' = "corrupt" PROVE headers' = "stale"
  <2>1. PICK c \in RecordFiles : ~HasRoom(Target(mem[c])) \/ Target(mem[c]) = Hole
    BY <1>1, <1>5 DEF Effect
  <2>2. Sane(mem[c], RecordOf[c]) /\ NoRecord \notin RecordOf[c]
    BY IndexData DEF Inv
  <2>3. ~Shape(mem[c])
    <3>1. PICK f, R : f = mem[c] /\ R = RecordOf[c]
      OBVIOUS
    <3>2. NoRecord \notin R /\ Sane(f, R) /\ (~HasRoom(Target(f)) \/ Target(f) = Hole)
      BY <2>1, <2>2, <3>1
    <3>3. ~Shape(f)
      BY <3>2, WithPageOK
    <3> QED
      BY <3>1, <3>3
  <2>4. headers = "stale"
    BY <2>3 DEF Inv, HeadersOK
  <2> QED
    BY <2>4 DEF Step
<1> QED
  BY <1>4, <1>5 DEF FailsOnlyWhenBroken

(* A step keeps the log's file.                                              *)
LEMMA StepLog ==
  ASSUME Inv, Step, Effect
  PROVE  LogOK'
<1> SUFFICES ASSUME LogFile \notin broken' PROVE <<LogFile>> \in files' /\ LogFile \notin DOMAIN declared'
  BY DEF LogOK
<1>1. stmt.todo # <<>> /\ db = "open" /\ UNCHANGED declared
  BY WhichAction
<1>2. LogFile \notin broken /\ <<LogFile>> \in files /\ LogFile \notin DOMAIN declared
  BY DEF Effect, Inv, LogOK
<1>3. stmt # Idle /\ StmtForm /\ stmt.rel \in Names
  BY <1>1, Current DEF Inv
<1>4. CASE stmt.rel # LogFile
  BY <1>1, <1>2, <1>4 DEF Effect
<1>5. CASE stmt.rel = LogFile
  <2>1. InStatement(LogFile)
    BY <1>1, <1>2, <1>3, <1>5 DEF Inv, RelationsOK
  <2>2. stmt.type = "createTable"
    <3>1. \A r, rids, k : Dropping(LogFile, r, rids, k) => LogFile \in DOMAIN declared
      BY DEF Dropping
    <3>2. \A attr, k : Indexing(LogFile, attr, k) => LogFile \in DOMAIN declared
      BY DEF Indexing, IndexingAt, Altered
    <3>3. \A attr, k : Unindexing(LogFile, attr, k) => LogFile \in DOMAIN declared
      BY DEF Unindexing, UnindexingAt, Altered
    <3> QED
      BY <1>2, <2>1, <3>1, <3>2, <3>3 DEF InStatement
  <2> QED
    BY <1>1, <1>2, <2>2 DEF Effect
<1> QED
  BY <1>4, <1>5

(* All of it together.                                                       *)
LEMMA StepInv ==
  ASSUME Inv, Step
  PROVE  Inv'
<1>1. Effect
  BY StepEffect DEF Inv
<1>2. UNCHANGED <<declared, indexed, dropped>> /\ stmt.todo # <<>>
  BY WhichAction
<1>3. FilesOK(mem') /\ FilesOK(disk') /\ Within(disk', mem')
  <2>1. FilesOK(mem')
    BY <1>1 DEF Effect
  <2> QED
    BY <1>1, <2>1, StepDisk DEF Inv
<1>4. StmtOK'
  BY <1>1, <1>2, StmtStep DEF Inv
<1>5. HeadersOK'
  BY <1>1, HeadersStep DEF Inv
<1>6. HistoryOK'
  BY <1>2 DEF Inv, HistoryOK, Step
<1> QED
  BY <1>1, <1>3, <1>4, <1>5, <1>6, StepRelations, StepFails, StepLog DEF Inv

-------------------------------------------------------------------------------
(* The end of a statement.                                                   *)

(* A relation is settled when its contents are as the history now says.      *)
LEMMA SettledBy ==
  ASSUME UNCHANGED <<mem, disk, files, dropped>>, NEW rel, Consistent(rel), \A f \in AllFiles : AgreeOn(f, rel),
         IF rel \notin DOMAIN declared'
         THEN DOMAIN Rels(rel) = {} /\ DOMAIN Attrs(rel) = {} /\ FilesOf(rel) = {} /\ IndexedOf(rel)' = {}
         ELSE Known(rel, declared'[rel], Attrs(rel), Rels(rel), FilesOf(rel), IndexedOf(rel)', ~dropped)
  PROVE  Settled(rel)'
<1>1. SameView(rel)
  BY DEF SameView
<1>2. Consistent(rel)'
  BY <1>1, ConsistentBy
<1>3. Rels(rel)' = Rels(rel) /\ Attrs(rel)' = Attrs(rel)
  BY <1>1, ViewsBy
<1>4. FilesOf(rel)' = FilesOf(rel)
  BY FilesSame
<1>5. \A f \in AllFiles : AgreeOn(f, rel)'
  BY DEF AgreeOn
<1>6. Contents(rel)'
  BY <1>3, <1>4 DEF Contents
<1> QED
  BY <1>2, <1>5, <1>6 DEF Settled

(* Agreement on the four files, one by one.                                  *)
LEMMA AllAgree ==
  ASSUME NEW rel, AgreeOn("relcat", rel), AgreeOn("attrcat", rel), AgreeOn("relIndex", rel), AgreeOn("attrIndex", rel)
  PROVE  \A f \in AllFiles : AgreeOn(f, rel)
BY DEF AllFiles

(* When the four files have been forced, memory and disk agree.              *)
LEMMA AllFlushed ==
  ASSUME NEW rel, NEW n \in Nat, FlushedUpTo(n + 4, n, rel)
  PROVE  \A f \in AllFiles : AgreeOn(f, rel)
<1>1. \A j \in 1 .. 4 : AgreeOn(FlushOrder[j], rel)
  BY DEF FlushedUpTo
<1>2. /\ FlushOrder[1] = "relcat" /\ FlushOrder[2] = "attrcat"
      /\ FlushOrder[3] = "relIndex" /\ FlushOrder[4] = "attrIndex"
  BY DEF FlushOrder
<1>3. 1 \in 1 .. 4 /\ 2 \in 1 .. 4 /\ 3 \in 1 .. 4 /\ 4 \in 1 .. 4
  OBVIOUS
<1>4. AgreeOn("relcat", rel) /\ AgreeOn("attrcat", rel) /\ AgreeOn("relIndex", rel) /\ AgreeOn("attrIndex", rel)
  BY <1>1, <1>2, <1>3
<1> QED
  BY <1>4, AllAgree

(* A table whose CREATE TABLE has done everything is as declared.            *)
LEMMA Created ==
  ASSUME NEW rel, NEW D \in Declarations, Creating(rel, D, Len(D) + 6)
  PROVE  /\ FilesOf(rel) = {<<rel>>} /\ IndexedOf(rel) = {}
         /\ Known(rel, D, Attrs(rel), Rels(rel), FilesOf(rel), {}, ~dropped)
         /\ \A f \in AllFiles : AgreeOn(f, rel)
<1> DEFINE n == Len(D)
           g == Attrs(rel)
           h == Rels(rel)
           k == n + 6
<1>1. n \in Nat
  BY CreatingSame
<1>2. (IF k < n THEN k ELSE n) = n /\ ~(k <= n) /\ ~(k < n + 6) /\ k = (n + 1) + 4 + 1
  BY <1>1
<1>3. /\ \E rho \in [1 .. n -> DOMAIN g] : Described(g, D, rho, n) /\ (~dropped => InsertsAscend(rho, n, k, n))
      /\ WithIndex(g) = {} /\ IndexedOf(rel) = {}
      /\ \E r \in DOMAIN h : Table(h, rel, n, r, 0)
      /\ FilesOf(rel) = {<<rel>>}
      /\ FlushedUpTo(k, n + 1, rel)
  BY <1>2 DEF Creating
<1>4. PICK rho \in [1 .. n -> DOMAIN g] : Described(g, D, rho, n) /\ (~dropped => InsertsAscend(rho, n, k, n))
  BY <1>3
<1>5. PICK r \in DOMAIN h : Table(h, rel, n, r, 0)
  BY <1>3
<1>6. h[r].indexCount = 0
  BY <1>5 DEF Table
<1>7. FilesAt(rel, g, WithIndex(g)) = {} /\ AttrsAt(g, WithIndex(g)) = {} /\ Numbers(g, WithIndex(g), 0)
  BY <1>3 DEF FilesAt, AttrsAt, Numbers
<1>8. ~dropped => Ascending(rho, n)
  BY <1>4 DEF InsertsAscend
<1>9. FlushedUpTo((n + 1) + 4, n + 1, rel)
  <2>1. \A j \in 1 .. 4 : (n + 1) + 4 >= (n + 1) + j /\ k >= (n + 1) + j
    BY <1>1
  <2> QED
    BY <1>3, <2>1 DEF FlushedUpTo
<1>10. \A f \in AllFiles : AgreeOn(f, rel)
  <2>1. n + 1 \in Nat
    BY <1>1
  <2> QED
    BY <2>1, <1>9, AllFlushed
<1> HIDE DEF g, h, k
<1>11. FilesOf(rel) = {<<rel>>} \union FilesAt(rel, g, WithIndex(g)) /\ {} = AttrsAt(g, WithIndex(g))
  BY <1>3, <1>7
<1>12. Known(rel, D, g, h, FilesOf(rel), {}, ~dropped)
  BY <1>4, <1>5, <1>6, <1>7, <1>8, <1>11 DEF Known
<1> QED
  BY <1>3, <1>10, <1>12 DEF g, h

(* Of a table whose DROP TABLE has done everything nothing is left.          *)
LEMMA Dropped ==
  ASSUME NEW rel, NEW r, NEW rids \in Seq(Nat), Dropping(rel, r, rids, Len(rids) + 6)
  PROVE  /\ DOMAIN Rels(rel) = {} /\ DOMAIN Attrs(rel) = {} /\ FilesOf(rel) = {}
         /\ \A f \in AllFiles : AgreeOn(f, rel)
<1> DEFINE n == Len(rids)
           g == Attrs(rel)
           k == n + 6
<1>1. n \in Nat /\ k # 0 /\ ~(k < 2)
  OBVIOUS
<1>2. /\ DOMAIN Rels(rel) = {} /\ DOMAIN g = Left(rids, k)
      /\ FilesOf(rel) = FilesAt(rel, g, WithIndex(g))
      /\ FlushedUpTo(k, n + 2, rel)
  BY <1>1 DEF Dropping
<1>3. Left(rids, k) = {}
  <2>1. \A i \in 1 .. n : ~(i + 2 > k)
    BY <1>1
  <2> QED
    BY <2>1 DEF Left
<1>4. FilesAt(rel, g, WithIndex(g)) = {}
  BY <1>2, <1>3 DEF FilesAt, WithIndex
<1>5. FlushedUpTo((n + 2) + 4, n + 2, rel)
  <2>1. (n + 2) + 4 = k
    BY <1>1
  <2> QED
    BY <1>2, <2>1
<1>6. n + 2 \in Nat
  BY <1>1
<1> QED
  BY <1>2, <1>3, <1>4, <1>5, <1>6, AllFlushed

(* A table whose index has been made or dropped is as declared.              *)
LEMMA AlteredKnown ==
  ASSUME NEW rel, NEW D, NEW r, NEW a, NEW attr, NEW o, NEW x, NEW cnt, NEW S,
         Altered(rel, D, r, a, attr, o, x, cnt, S), NEW F, NEW I,
         Numbers(Attrs(rel), WithIndex(Attrs(rel)), cnt),
         F = {<<rel>>} \union FilesAt(rel, Attrs(rel), WithIndex(Attrs(rel))),
         I = AttrsAt(Attrs(rel), WithIndex(Attrs(rel)))
  PROVE  Known(rel, D, Attrs(rel), Rels(rel), F, I, ~dropped) /\ rel \in DOMAIN declared /\ declared[rel] = D
<1> DEFINE g == Attrs(rel)
           h == Rels(rel)
<1>1. Table(h, rel, Len(D), r, cnt) /\ rel \in DOMAIN declared /\ declared[rel] = D
  BY DEF Altered
<1>2. PICK rho \in [1 .. Len(D) -> DOMAIN g] : Described(g, D, rho, Len(D)) /\ (~dropped => Ascending(rho, Len(D)))
  BY DEF Altered
<1>3. r \in DOMAIN h /\ h[r].indexCount = cnt
  BY <1>1 DEF Table
<1> QED
  BY <1>1, <1>2, <1>3 DEF Known

(* A table whose CREATE INDEX has done everything has one index more.        *)
LEMMA Indexed ==
  ASSUME FilesOK(mem), NEW rel, NEW attr, NEW D \in Declarations,
         NEW r \in Nat, NEW a \in Nat, NEW o \in Nat, NEW cnt \in Nat, NEW S \in SUBSET Nat,
         IndexingAt(rel, attr, 6, D, r, a, o, cnt, S)
  PROVE  /\ Known(rel, D, Attrs(rel), Rels(rel), FilesOf(rel), IndexedOf(rel) \union {attr}, ~dropped)
         /\ rel \in DOMAIN declared /\ declared[rel] = D
         /\ \A f \in AllFiles : AgreeOn(f, rel)
<1> DEFINE g == Attrs(rel)
<1>1. /\ Altered(rel, D, r, a, attr, o, cnt, cnt + 1, S)
      /\ \A q \in S : g[q].indexNo < cnt
      /\ FilesOf(rel) = {<<rel>>} \union FilesAt(rel, g, S) \union {<<rel, cnt>>}
      /\ IndexedOf(rel) = AttrsAt(g, S)
      /\ \A f \in IndexFiles : AgreeOn(f, rel)
      /\ AgreeOn("relcat", rel) /\ AgreeOn("attrcat", rel)
  BY DEF IndexingAt
<1>2. /\ a \in DOMAIN g /\ g[a].indexNo = cnt /\ g[a].attr = attr
      /\ S = WithIndex(g) \ {a} /\ Numbers(g, S, cnt + 1)
  BY <1>1 DEF Altered
<1>3. WithIndex(g) = S \union {a}
  BY <1>2 DEF WithIndex
<1>4. FilesAt(rel, g, S \union {a}) = FilesAt(rel, g, S) \union {<<rel, cnt>>}
  BY <1>2 DEF FilesAt
<1>5. AttrsAt(g, S \union {a}) = AttrsAt(g, S) \union {attr}
  BY <1>2 DEF AttrsAt
<1>6. \A q \in S : g[q].indexNo \in Int
  BY <1>2, RowsTyped DEF WithIndex, AttrRecord
<1>7. Numbers(g, S \union {a}, cnt + 1)
  <2>1. \A p \in S : g[p].indexNo < cnt + 1 /\ g[p].indexNo # cnt
    BY <1>1, <1>6
  <2> HIDE DEF g
  <2>2. ASSUME NEW p \in S \union {a} PROVE g[p].indexNo < cnt + 1
    BY <1>2, <2>1
  <2>3. ASSUME NEW p \in S \union {a}, NEW q \in S \union {a}, g[p].indexNo = g[q].indexNo PROVE p = q
    <3>1. p \in S /\ q \in S => p = q
      BY <1>2, <2>3 DEF Numbers
    <3> QED
      BY <1>2, <2>1, <2>3, <3>1
  <2> QED
    BY <2>2, <2>3 DEF Numbers
<1>8. \A f \in AllFiles : AgreeOn(f, rel)
  BY <1>1, AllAgree DEF IndexFiles
<1>9. /\ FilesOf(rel) = {<<rel>>} \union FilesAt(rel, g, WithIndex(g))
      /\ IndexedOf(rel) \union {attr} = AttrsAt(g, WithIndex(g))
      /\ Numbers(g, WithIndex(g), cnt + 1)
  BY <1>1, <1>3, <1>4, <1>5, <1>7
<1> QED
  BY <1>1, <1>8, <1>9, AlteredKnown

(* A table whose DROP INDEX has done everything has one index less.          *)
LEMMA Unindexed ==
  ASSUME NEW rel, NEW attr, NEW D \in Declarations,
         NEW r \in Nat, NEW a \in Nat, NEW o \in Nat, NEW x \in Nat, NEW cnt \in Nat, NEW S \in SUBSET Nat,
         UnindexingAt(rel, attr, 3, D, r, a, o, x, cnt, S)
  PROVE  /\ Known(rel, D, Attrs(rel), Rels(rel), FilesOf(rel), IndexedOf(rel) \ {attr}, ~dropped)
         /\ rel \in DOMAIN declared /\ declared[rel] = D
         /\ \A f \in AllFiles : AgreeOn(f, rel)
<1> DEFINE g == Attrs(rel)
<1>1. /\ Altered(rel, D, r, a, attr, o, -1, cnt, S)
      /\ FilesOf(rel) = {<<rel>>} \union FilesAt(rel, g, S)
      /\ IndexedOf(rel) = AttrsAt(g, S) \union {attr}
      /\ attr \notin AttrsAt(g, S)
      /\ \A f \in IndexFiles \union {"relcat"} : AgreeOn(f, rel)
      /\ AgreeOn("attrcat", rel)
  BY DEF UnindexingAt
<1>2. a \in DOMAIN g /\ g[a].indexNo = -1 /\ S = WithIndex(g) \ {a} /\ Numbers(g, S, cnt)
  BY <1>1 DEF Altered
<1>3. WithIndex(g) = S
  BY <1>2 DEF WithIndex
<1>4. IndexedOf(rel) \ {attr} = AttrsAt(g, S)
  BY <1>1
<1>8. \A f \in AllFiles : AgreeOn(f, rel)
  BY <1>1, AllAgree DEF IndexFiles
<1>9. /\ FilesOf(rel) = {<<rel>>} \union FilesAt(rel, g, WithIndex(g))
      /\ IndexedOf(rel) \ {attr} = AttrsAt(g, WithIndex(g))
      /\ Numbers(g, WithIndex(g), cnt)
  BY <1>1, <1>2, <1>3, <1>4
<1> QED
  BY <1>1, <1>8, <1>9, AlteredKnown

(* How the end of a statement changes the history of indexes.                *)
LEMMA FinishIndexed ==
  ASSUME HistoryOK, Finish, NEW rel, rel = stmt.rel
  PROVE  /\ \A q : q # rel => IndexedOf(q)' = IndexedOf(q)
         /\ stmt.type = "createTable" => IndexedOf(rel)' = IndexedOf(rel)
         /\ stmt.type = "dropTable" => IndexedOf(rel)' = {}
         /\ stmt.type = "createIndex" => IndexedOf(rel)' = IndexedOf(rel) \union {stmt.attr}
         /\ stmt.type = "dropIndex" => IndexedOf(rel)' = IndexedOf(rel) \ {stmt.attr}
<1>1. indexed' = IF stmt.type = "createIndex" THEN indexed \union {<<rel, stmt.attr>>}
                 ELSE IF stmt.type = "dropIndex" THEN indexed \ {<<rel, stmt.attr>>}
                 ELSE IF stmt.type = "dropTable" THEN {x \in indexed : x[1] # rel}
                 ELSE indexed
  BY DEF Finish
<1>2. \A x \in indexed : x = <<x[1], x[2]>>
  BY DEF HistoryOK
<1>3. \A u, w : <<u, w>>[1] = u /\ <<u, w>>[2] = w
  OBVIOUS
<1>4. CASE stmt.type = "createIndex"
  <2>1. PICK at : at = stmt.attr
    OBVIOUS
  <2>2. indexed' = indexed \union {<<rel, at>>}
    BY <1>1, <1>4, <2>1
  <2>3. \A q : q # rel => IndexedOf(q)' = IndexedOf(q)
    <3>1. \A q : q # rel => {y \in indexed' : y[1] = q} = {y \in indexed : y[1] = q}
      BY <1>3, <2>2
    <3> QED
      BY <3>1 DEF IndexedOf
  <2>4. IndexedOf(rel)' = IndexedOf(rel) \union {at}
    <3>1. {y \in indexed' : y[1] = rel} = {y \in indexed : y[1] = rel} \union {<<rel, at>>}
      BY <1>3, <2>2
    <3>2. PICK w : w = <<rel, at>> /\ w[2] = at
      BY <1>3
    <3>3. \A P : {x[2] : x \in P \union {w}} = {x[2] : x \in P} \union {at}
      BY <3>2
    <3> QED
      BY <3>1, <3>2, <3>3 DEF IndexedOf
  <2> QED
    BY <1>4, <2>1, <2>3, <2>4
<1>5. CASE stmt.type = "dropIndex"
  <2>1. PICK at : at = stmt.attr
    OBVIOUS
  <2>2. indexed' = indexed \ {<<rel, at>>}
    BY <1>1, <1>5, <2>1
  <2>3. \A x \in indexed : x \in indexed' <=> ~(x[1] = rel /\ x[2] = at)
    BY <1>2, <1>3, <2>2
  <2>4. \A q : q # rel => IndexedOf(q)' = IndexedOf(q)
    BY <2>2, <2>3 DEF IndexedOf
  <2>5. IndexedOf(rel)' = IndexedOf(rel) \ {at}
    BY <2>2, <2>3 DEF IndexedOf
  <2> QED
    BY <1>5, <2>1, <2>4, <2>5
<1>6. CASE stmt.type = "dropTable"
  <2>1. indexed' = {x \in indexed : x[1] # rel}
    BY <1>1, <1>6
  <2> QED
    BY <1>6, <2>1 DEF IndexedOf
<1>7. CASE stmt.type \notin {"createIndex", "dropIndex", "dropTable"}
  BY <1>1, <1>7 DEF IndexedOf
<1> QED
  BY <1>4, <1>5, <1>6, <1>7

(* The end of a statement leaves the other relations settled.                *)
LEMMA FinishOthers ==
  ASSUME HistoryOK, Finish, NEW rel, rel # stmt.rel, Settled(rel)
  PROVE  Settled(rel)'
<1>1. /\ UNCHANGED <<mem, disk, files, dropped>>
      /\ declared' = IF stmt.type = "createTable" THEN [r \in DOMAIN declared \union {stmt.rel} |->
                                                         IF r = stmt.rel THEN stmt.attrs ELSE declared[r]]
                     ELSE IF stmt.type = "dropTable" THEN [r \in DOMAIN declared \ {stmt.rel} |-> declared[r]]
                     ELSE declared
  BY DEF Finish
<1>2. IndexedOf(rel)' = IndexedOf(rel)
  BY FinishIndexed
<1>3. (rel \in DOMAIN declared' <=> rel \in DOMAIN declared)
      /\ (rel \in DOMAIN declared => declared'[rel] = declared[rel])
  BY <1>1
<1>4. SameView(rel) /\ FilesOf(rel)' = FilesOf(rel) /\ \A f \in AllFiles : AgreeOn(f, rel)'
  BY <1>1, FilesSame DEF SameView, AgreeOn, Settled
<1>5. Consistent(rel)'
  BY <1>4, ConsistentBy DEF Settled
<1>6. Contents(rel)'
  BY <1>1, <1>2, <1>3, <1>4, ContentsBy DEF Settled
<1> QED
  BY <1>4, <1>5, <1>6 DEF Settled

(* The end of a statement leaves its own relation settled.                   *)
LEMMA FinishItsRelation ==
  ASSUME HistoryOK, StmtOK, FilesOK(mem), Finish, NEW rel, rel = stmt.rel, InStatement(rel)
  PROVE  /\ Settled(rel)'
         /\ stmt.type = "createTable" => FilesOf(rel) = {<<rel>>}
<1>1. /\ stmt # Idle /\ stmt.todo = <<>>
      /\ UNCHANGED <<mem, disk, files, dropped>>
      /\ declared' = IF stmt.type = "createTable" THEN [q \in DOMAIN declared \union {rel} |->
                                                         IF q = rel THEN stmt.attrs ELSE declared[q]]
                     ELSE IF stmt.type = "dropTable" THEN [q \in DOMAIN declared \ {rel} |-> declared[q]]
                     ELSE declared
  BY DEF Finish
<1>2. StmtForm
  BY <1>1 DEF StmtOK
<1>3. Consistent(rel)
  BY DEF InStatement
<1>4. CASE stmt.type = "createTable" /\ \E k \in 0 .. Len(stmt.attrs) + 6 : Creating(rel, stmt.attrs, k)
  <2>1. PICK D \in Declarations : D = stmt.attrs
    BY <1>2, <1>4 DEF StmtForm
  <2>2. PICK k \in 0 .. Len(D) + 6 : Creating(rel, D, k)
    BY <1>4, <2>1
  <2>3. k = Len(D) + 6
    <3>1. Len(D) + 6 \in Nat /\ Remaining(CreatePlan(rel, D), Len(D) + 6, k)
      BY <2>2, CreatingSame DEF Creating
    <3>2. ~(k < Len(D) + 6)
      BY <1>1, <3>1, Planned
    <3> QED
      BY <3>1, <3>2
  <2>4. /\ FilesOf(rel) = {<<rel>>} /\ IndexedOf(rel) = {}
        /\ Known(rel, D, Attrs(rel), Rels(rel), FilesOf(rel), {}, ~dropped)
        /\ \A f \in AllFiles : AgreeOn(f, rel)
    BY <2>2, <2>3, Created
  <2>5. IndexedOf(rel)' = {}
    BY <1>4, <2>4, FinishIndexed
  <2>6. rel \in DOMAIN declared' /\ declared'[rel] = D
    BY <1>1, <1>4, <2>1
  <2>7. Settled(rel)'
    BY <1>1, <1>3, <2>4, <2>5, <2>6, SettledBy
  <2> QED
    BY <2>4, <2>7
<1>5. CASE /\ stmt.type = "dropTable"
           /\ \E r \in Nat, rids \in Seq(Nat) : \E k \in 0 .. Len(rids) + 6 : Dropping(rel, r, rids, k)
  <2>1. PICK r \in Nat, rids \in Seq(Nat) : \E k \in 0 .. Len(rids) + 6 : Dropping(rel, r, rids, k)
    BY <1>5
  <2>2. PICK k \in 0 .. Len(rids) + 6 : Dropping(rel, r, rids, k)
    BY <2>1
  <2>3. k = Len(rids) + 6
    <3>1. Len(rids) + 6 \in Nat /\ Remaining(DropPlan(rel, r, rids), Len(rids) + 6, k)
      BY <2>1, <2>2 DEF Dropping
    <3>2. ~(k < Len(rids) + 6)
      BY <1>1, <3>1, Planned
    <3> QED
      BY <3>1, <3>2
  <2>4. /\ DOMAIN Rels(rel) = {} /\ DOMAIN Attrs(rel) = {} /\ FilesOf(rel) = {}
        /\ \A f \in AllFiles : AgreeOn(f, rel)
    BY <2>1, <2>2, <2>3, Dropped
  <2>5. IndexedOf(rel)' = {} /\ rel \notin DOMAIN declared'
    BY <1>1, <1>5, FinishIndexed
  <2>7. Settled(rel)'
    BY <1>1, <1>3, <2>4, <2>5, SettledBy
  <2> QED
    BY <1>5, <2>7
<1>6. CASE stmt.type = "createIndex" /\ \E k \in 0 .. 6 : Indexing(rel, stmt.attr, k)
  <2>1. PICK attr : attr = stmt.attr
    OBVIOUS
  <2>2. PICK k \in 0 .. 6 : Indexing(rel, attr, k)
    BY <1>6, <2>1
  <2>3. PICK D \in Declarations, r \in Nat, a \in Nat, o \in Nat, cnt \in Nat, S \in SUBSET Nat :
          IndexingAt(rel, attr, k, D, r, a, o, cnt, S)
    BY <2>2 DEF Indexing
  <2>4. k = 6
    <3>1. 6 \in Nat /\ Remaining(IndexPlan(rel, attr, r, a, Len(D), o, cnt), 6, k)
      BY <2>3 DEF IndexingAt
    <3>2. ~(k < 6)
      BY <1>1, <3>1, Planned
    <3> QED
      BY <3>2
  <2>5. /\ Known(rel, D, Attrs(rel), Rels(rel), FilesOf(rel), IndexedOf(rel) \union {attr}, ~dropped)
        /\ rel \in DOMAIN declared /\ declared[rel] = D
        /\ \A f \in AllFiles : AgreeOn(f, rel)
    BY <2>3, <2>4, Indexed
  <2>6. IndexedOf(rel)' = IndexedOf(rel) \union {attr} /\ declared' = declared
    BY <1>1, <1>6, <2>1, FinishIndexed
  <2>7. Settled(rel)'
    BY <1>1, <1>3, <2>5, <2>6, SettledBy
  <2> QED
    BY <1>6, <2>7
<1>7. CASE stmt.type = "dropIndex" /\ \E k \in 0 .. 3 : Unindexing(rel, stmt.attr, k)
  <2>1. PICK attr : attr = stmt.attr
    OBVIOUS
  <2>2. PICK k \in 0 .. 3 : Unindexing(rel, attr, k)
    BY <1>7, <2>1
  <2>3. PICK D \in Declarations, r \in Nat, a \in Nat, o \in Nat, x \in Nat, cnt \in Nat, S \in SUBSET Nat :
          UnindexingAt(rel, attr, k, D, r, a, o, x, cnt, S)
    BY <2>2 DEF Unindexing
  <2>4. k = 3
    <3>1. 3 \in Nat /\ Remaining(DropIndexPlan(rel, attr, a, o, x), 3, k)
      BY <2>3 DEF UnindexingAt
    <3>2. ~(k < 3)
      BY <1>1, <3>1, Planned
    <3> QED
      BY <3>2
  <2>5. /\ Known(rel, D, Attrs(rel), Rels(rel), FilesOf(rel), IndexedOf(rel) \ {attr}, ~dropped)
        /\ rel \in DOMAIN declared /\ declared[rel] = D
        /\ \A f \in AllFiles : AgreeOn(f, rel)
    BY <2>3, <2>4, Unindexed
  <2>6. IndexedOf(rel)' = IndexedOf(rel) \ {attr} /\ declared' = declared
    BY <1>1, <1>7, <2>1, FinishIndexed
  <2>7. Settled(rel)'
    BY <1>1, <1>3, <2>5, <2>6, SettledBy
  <2> QED
    BY <1>7, <2>7
<1> QED
  BY <1>4, <1>5, <1>6, <1>7 DEF InStatement

(* The end of a statement keeps the invariant.                               *)
LEMMA FinishInv ==
  ASSUME Inv, Finish
  PROVE  Inv'
<1>1. /\ db = "open" /\ stmt # Idle /\ stmt.todo = <<>> /\ stmt' = Idle
      /\ UNCHANGED <<mem, disk, files, db, broken, failed, dropped, headers>>
      /\ declared' = IF stmt.type = "createTable" THEN [q \in DOMAIN declared \union {stmt.rel} |->
                                                         IF q = stmt.rel THEN stmt.attrs ELSE declared[q]]
                     ELSE IF stmt.type = "dropTable" THEN [q \in DOMAIN declared \ {stmt.rel} |-> declared[q]]
                     ELSE declared
  BY DEF Finish
<1>2. StmtForm /\ stmt.rel \in Names
  BY <1>1 DEF StmtOK, Inv
<1>3. FilesOK(mem') /\ FilesOK(disk') /\ Within(disk', mem')
  BY <1>1 DEF Inv
<1>4. StmtOK'
  BY <1>1 DEF StmtOK
<1>5. HeadersOK'
  BY <1>1 DEF Inv, HeadersOK
<1>6. HistoryOK'
  <2>1. DOMAIN declared \subseteq Names /\ \A r \in DOMAIN declared : declared[r] \in Declarations
    BY DEF Inv, HistoryOK
  <2>2. stmt.type = "createTable" => stmt.attrs \in Declarations
    BY <1>2 DEF StmtForm
  <2>3. DOMAIN declared' \subseteq Names /\ \A r \in DOMAIN declared' : declared'[r] \in Declarations
    BY <1>1, <1>2, <2>1, <2>2
  <2>4. indexed' \subseteq Names \X Attributes
    <3>1. indexed \subseteq Names \X Attributes
      BY DEF Inv, HistoryOK
    <3>2. stmt.type = "createIndex" => stmt.attr \in Attributes
      BY <1>2 DEF StmtForm
    <3> QED
      BY <1>2, <3>1, <3>2 DEF Finish
  <2> QED
    BY <1>1, <2>3, <2>4 DEF Inv, HistoryOK
<1>7. \A rel \in Names \ broken :
        /\ rel = stmt.rel => InStatement(rel)
        /\ rel # stmt.rel => Settled(rel)
  BY <1>1 DEF Inv, RelationsOK
<1>8. RelationsOK'
  <2> SUFFICES ASSUME NEW rel \in Names \ broken PROVE Settled(rel)'
    BY <1>1 DEF RelationsOK
  <2>1. CASE rel = stmt.rel
    BY <1>7, <2>1, FinishItsRelation DEF Inv
  <2>2. CASE rel # stmt.rel
    BY <1>7, <2>2, FinishOthers DEF Inv
  <2> QED
    BY <2>1, <2>2
<1>9. LogOK'
  <2> SUFFICES ASSUME LogFile \notin broken PROVE LogFile \notin DOMAIN declared'
    BY <1>1 DEF LogOK, Inv
  <2>1. LogFile \notin DOMAIN declared
    BY DEF Inv, LogOK
  <2>2. ~(stmt.type = "createTable" /\ stmt.rel = LogFile)
    <3> SUFFICES ASSUME stmt.type = "createTable", stmt.rel = LogFile PROVE FALSE
      OBVIOUS
    <3>1. FilesOf(LogFile) = {<<LogFile>>}
      BY <1>2, <1>7, FinishItsRelation DEF Inv
    <3> QED
      BY <3>1 DEF FilesOf
  <2> QED
    BY <1>1, <2>1, <2>2
<1>10. FailsOnlyWhenBroken'
  BY <1>1 DEF Inv, FailsOnlyWhenBroken
<1> QED
  BY <1>3, <1>4, <1>5, <1>6, <1>8, <1>9, <1>10 DEF Inv

(* What is said of a relation depends on the memory, and on what the disk     *)
(* agrees with it on.                                                        *)
LEMMA SameRest ==
  ASSUME UNCHANGED <<mem, files, stmt, declared, indexed, dropped>>, NEW rel,
         \A f \in AllFiles : AgreeOn(f, rel) => AgreeOn(f, rel)'
  PROVE  /\ Settled(rel) => Settled(rel)'
         /\ InStatement(rel) => InStatement(rel)'
<1>1. SameView(rel)
  BY DEF SameView
<1>2. Rels(rel)' = Rels(rel) /\ Attrs(rel)' = Attrs(rel)
  BY <1>1, ViewsBy
<1>3. FilesOf(rel)' = FilesOf(rel) /\ IndexedOf(rel)' = IndexedOf(rel)
  BY DEF FilesOf, IndexedOf
<1>4. /\ \A j \in 1 .. 4 : AgreeOn(FlushOrder[j], rel) => AgreeOn(FlushOrder[j], rel)'
      /\ \A f \in IndexFiles \union {"relcat"} : AgreeOn(f, rel) => AgreeOn(f, rel)'
      /\ AgreeOn("relcat", rel) => AgreeOn("relcat", rel)'
      /\ AgreeOn("attrcat", rel) => AgreeOn("attrcat", rel)'
  <2>1. /\ \A j \in 1 .. 4 : FlushOrder[j] \in AllFiles
        /\ IndexFiles \union {"relcat"} \subseteq AllFiles /\ "relcat" \in AllFiles /\ "attrcat" \in AllFiles
    BY DEF FlushOrder, AllFiles, IndexFiles
  <2> QED
    BY <2>1
<1>5. Consistent(rel) => Consistent(rel)'
  BY <1>1, ConsistentBy
<1>6. Contents(rel) => Contents(rel)'
  BY <1>2, <1>3 DEF Contents
<1>7. \A P, N, k : Remaining(P, N, k) => Remaining(P, N, k)'
  BY DEF Remaining
<1>8. \A k, n : FlushedUpTo(k, n, rel) => FlushedUpTo(k, n, rel)'
  BY <1>4 DEF FlushedUpTo
<1>9. \A D, k : Creating(rel, D, k) => Creating(rel, D, k)'
  BY <1>2, <1>3, <1>7, <1>8 DEF Creating, InsertsAscend
<1>10. \A r, rids, k : Dropping(rel, r, rids, k) => Dropping(rel, r, rids, k)'
  BY <1>2, <1>3, <1>7, <1>8 DEF Dropping
<1>11. \A D, r, a, attr, o, x, cnt, S : Altered(rel, D, r, a, attr, o, x, cnt, S) => Altered(rel, D, r, a, attr, o, x, cnt, S)'
  BY <1>2 DEF Altered
<1>12. \A attr, k : Indexing(rel, attr, k) => Indexing(rel, attr, k)'
  <2>1. ASSUME NEW attr, NEW k, NEW D, NEW r, NEW a, NEW o, NEW cnt, NEW S,
               IndexingAt(rel, attr, k, D, r, a, o, cnt, S)
        PROVE  IndexingAt(rel, attr, k, D, r, a, o, cnt, S)'
    BY <1>2, <1>3, <1>4, <1>7, <1>11, <2>1 DEF IndexingAt
  <2> QED
    BY <2>1 DEF Indexing
<1>13. \A attr, k : Unindexing(rel, attr, k) => Unindexing(rel, attr, k)'
  <2>1. ASSUME NEW attr, NEW k, NEW D, NEW r, NEW a, NEW o, NEW x, NEW cnt, NEW S,
               UnindexingAt(rel, attr, k, D, r, a, o, x, cnt, S)
        PROVE  UnindexingAt(rel, attr, k, D, r, a, o, x, cnt, S)'
    BY <1>2, <1>3, <1>4, <1>7, <1>11, <2>1 DEF UnindexingAt
  <2> TAKE attr, k
  <2> HAVE Unindexing(rel, attr, k)
  <2>2. PICK D \in Declarations, r \in Nat, a \in Nat, o \in Nat, x \in Nat, cnt \in Nat, S \in SUBSET Nat :
          UnindexingAt(rel, attr, k, D, r, a, o, x, cnt, S)
    BY DEF Unindexing
  <2>3. UnindexingAt(rel, attr, k, D, r, a, o, x, cnt, S)'
    BY <2>1, <2>2
  <2> QED
    BY <2>3 DEF Unindexing
<1>14. Settled(rel) => Settled(rel)'
  BY <1>5, <1>6 DEF Settled
<1>15. InStatement(rel) => InStatement(rel)'
  BY <1>5, <1>9, <1>10, <1>12, <1>13 DEF InStatement
<1> QED
  BY <1>14, <1>15

(* What is said of the statement, when neither it nor the memory changes.     *)
LEMMA SameStmt ==
  ASSUME StmtOK, UNCHANGED <<mem, stmt, dropped>>
  PROVE  StmtOK'
<1>1. \A j : ItemOK(j) <=> ItemOK(j)'
  BY DEF ItemOK
<1>2. StmtForm <=> StmtForm'
  BY DEF StmtForm
<1> QED
  BY <1>1, <1>2 DEF StmtOK

(* A step that changes nothing keeps the invariant.                          *)
LEMMA StutterInv ==
  ASSUME Inv, UNCHANGED vars
  PROVE  Inv'
<1>1. UNCHANGED <<mem, disk, files, db, stmt, declared, indexed, broken, failed, dropped, headers>>
  BY DEF vars
<1>2. StmtOK'
  BY <1>1, SameStmt DEF Inv
<1>3. HistoryOK' /\ HeadersOK' /\ LogOK' /\ FailsOnlyWhenBroken'
  BY <1>1 DEF Inv, HistoryOK, HeadersOK, LogOK, FailsOnlyWhenBroken
<1>4. ASSUME NEW rel PROVE (InStatement(rel) => InStatement(rel)') /\ (Settled(rel) => Settled(rel)')
  <2>1. \A f \in AllFiles : AgreeOn(f, rel) => AgreeOn(f, rel)'
    BY <1>1 DEF AgreeOn
  <2> QED
    BY <1>1, <2>1, SameRest
<1>5. RelationsOK'
  BY <1>1, <1>4 DEF Inv, RelationsOK
<1>6. FilesOK(mem') /\ FilesOK(disk') /\ Within(disk', mem')
  BY <1>1 DEF Inv
<1> QED
  BY <1>2, <1>3, <1>5, <1>6 DEF Inv

-------------------------------------------------------------------------------
(* Writes.                                                                   *)

(* Of the file f in memory and g on disk, some pages have been written: h has *)
(* as many as f, and those of g that were not written.                       *)
SomeWritten(h, f, g) ==
  /\ h = [data |-> h.data, header |-> g.header]
  /\ h.data = [q \in DOMAIN f.data |-> h.data[q]]
  /\ \A q \in DOMAIN f.data : \/ h.data[q] = f.data[q]
                              \/ q \in DOMAIN g.data /\ h.data[q] = g.data[q]
                              \/ q \notin DOMAIN g.data /\ h.data[q] = Hole

(* Such a file is well formed, leads where it did and says of a relation what *)
(* f and g agree on.                                                         *)
WellWritten(h, f, g, R) ==
  /\ Sane(h, R) /\ h.header = g.header /\ DOMAIN h.data = DOMAIN f.data
  /\ Near(g, f) => Near(h, f)
  /\ Unlinked(f) /\ Unlinked(g) => Unlinked(h)
  /\ \A rel : View(f, rel) = View(g, rel) => View(h, rel) = View(f, rel)

LEMMA PageWritten ==
  ASSUME NEW R, NoRecord \notin R, NEW f, NEW g, Sane(f, R), Sane(g, R),
         DOMAIN g.data \subseteq DOMAIN f.data, NEW h, SomeWritten(h, f, g)
  PROVE  WellWritten(h, f, g, R)
<1>1. h.header = g.header /\ DOMAIN h.data = DOMAIN f.data
  BY DEF SomeWritten
<1>2. /\ DOMAIN f.data = 1 .. Len(f.data) /\ Len(f.data) \in Nat
      /\ DOMAIN g.data \subseteq Nat /\ DOMAIN f.data \subseteq Nat
      /\ g.header \in Int /\ g.header \in DOMAIN g.data \union {ListEnd}
  BY FileFields DEF Sane, FileType
<1>3. ASSUME NEW q \in DOMAIN f.data PROVE PageOK(h.data[q], R, DOMAIN h.data)
  <2>1. CASE h.data[q] = f.data[q]
    BY <1>1, <2>1 DEF Sane
  <2>2. CASE q \in DOMAIN g.data /\ h.data[q] = g.data[q]
    <3>1. PageOK(g.data[q], R, DOMAIN g.data)
      BY <2>2 DEF Sane
    <3> QED
      BY <1>1, <2>2, <3>1 DEF PageOK
  <2>3. CASE h.data[q] = Hole
    BY <2>3, HoleParts
  <2> QED
    BY <2>1, <2>2, <2>3 DEF SomeWritten
<1>4. h.data \in Seq(PageType(R))
  <2>1. \A q \in 1 .. Len(f.data) : h.data[q] \in PageType(R)
    BY <1>2, <1>3 DEF PageOK
  <2>2. h.data = [q \in 1 .. Len(f.data) |-> h.data[q]]
    BY <1>2 DEF SomeWritten
  <2> QED
    BY <1>2, <2>1, <2>2
<1>5. Sane(h, R)
  <2>1. h \in FileType(R)
    BY <1>2, <1>4 DEF SomeWritten, FileType
  <2> QED
    BY <1>1, <1>2, <1>3, <2>1 DEF Sane
<1>6. ASSUME Near(g, f) PROVE Near(h, f)
  BY <1>1, <1>6 DEF Near, SomeWritten
<1>7. ASSUME Unlinked(f), Unlinked(g) PROVE Unlinked(h)
  BY <1>1, <1>7 DEF Unlinked, SomeWritten
<1>8. ASSUME NEW rel, View(f, rel) = View(g, rel) PROVE View(h, rel) = View(f, rel)
  <2>1. Of(f, rel) = Of(g, rel) /\ \A x \in Of(f, rel) : Get(f, x) = Get(g, x)
    <3>1. Of(f, rel) = Of(g, rel)
      BY <1>8, ViewParts
    <3> QED
      BY <1>8, <3>1, ViewParts
  <2>2. ASSUME NEW x \in Of(h, rel) PROVE x \in Of(f, rel) /\ Get(h, x) = Get(f, x)
    <3>1. /\ x \in Live(h) /\ Get(h, x).rel = rel
          /\ PageOf(x) \in DOMAIN f.data /\ SlotOf(x) \in Slots
          /\ x = RidOf(PageOf(x), SlotOf(x)) /\ Get(h, x) # NoRecord
      BY <1>1, <1>2, LiveAt DEF Of
    <3>2. CASE h.data[PageOf(x)] = f.data[PageOf(x)]
      <4>1. Get(f, x) = Get(h, x)
        BY <3>2 DEF Get
      <4>2. x \in Live(f)
        BY <1>2, <3>1, <4>1, LiveAt DEF Get
      <4> QED
        BY <3>1, <4>1, <4>2 DEF Of
    <3>3. CASE PageOf(x) \in DOMAIN g.data /\ h.data[PageOf(x)] = g.data[PageOf(x)]
      <4>1. Get(g, x) = Get(h, x)
        BY <3>3 DEF Get
      <4>2. x \in Live(g)
        BY <1>2, <3>1, <3>3, <4>1, LiveAt
      <4>3. x \in Of(g, rel)
        BY <3>1, <4>1, <4>2 DEF Of
      <4> QED
        BY <2>1, <4>1, <4>3
    <3>4. CASE h.data[PageOf(x)] = Hole
      BY <3>1, <3>4, HoleParts DEF Get
    <3> QED
      BY <3>1, <3>2, <3>3, <3>4 DEF SomeWritten
  <2>3. ASSUME NEW x \in Of(f, rel) PROVE x \in Of(h, rel)
    <3>1. /\ x \in Live(f) /\ Get(f, x).rel = rel
          /\ PageOf(x) \in DOMAIN f.data /\ SlotOf(x) \in Slots
          /\ x = RidOf(PageOf(x), SlotOf(x)) /\ Get(f, x) # NoRecord
      BY <1>2, LiveAt DEF Of
    <3>2. Get(g, x) = Get(f, x) /\ PageOf(x) \in DOMAIN g.data
      <4>1. x \in Live(g)
        BY <2>1 DEF Of
      <4> QED
        BY <1>2, <2>1, <4>1, LiveAt
    <3>3. h.data[PageOf(x)] = f.data[PageOf(x)] \/ h.data[PageOf(x)] = g.data[PageOf(x)]
      BY <3>1, <3>2 DEF SomeWritten
    <3>4. Get(h, x) = Get(f, x)
      BY <3>2, <3>3 DEF Get
    <3>5. x \in Live(h)
      BY <1>1, <1>2, <3>1, <3>4, LiveAt DEF Get
    <3> QED
      BY <3>1, <3>4, <3>5 DEF Of
  <2>4. Of(h, rel) = Of(f, rel)
    BY <2>2, <2>3
  <2> QED
    BY <2>2, <2>4, ViewsEqual
<1> QED
  BY <1>1, <1>5, <1>6, <1>7, <1>8 DEF WellWritten

(* Of an index one entry has been written: what memory and disk agree on they *)
(* still agree on.                                                           *)
LEMMA EntryWritten ==
  ASSUME NEW f \in IndexType, NEW g \in IndexType, IsFiniteSet(g.data), NEW e, NEW h,
         \/ e \in f.data \ g.data /\ h = [g EXCEPT !.data = @ \union {e}]
         \/ e \in g.data \ f.data /\ h = [g EXCEPT !.data = @ \ {e}]
  PROVE  /\ h \in IndexType /\ IsFiniteSet(h.data)
         /\ \A rel : EntriesFor(f, rel) = EntriesFor(g, rel) => EntriesFor(f, rel) = EntriesFor(h, rel)
<1>1. f.data \subseteq Names \X Nat /\ g.data \subseteq Names \X Nat /\ e \in Names \X Nat
  BY DEF IndexType
<1>2. h \in IndexType /\ h.data = (IF e \in f.data THEN g.data \union {e} ELSE g.data \ {e})
  <2>1. PICK X : /\ X = IF e \in f.data THEN g.data \union {e} ELSE g.data \ {e}
                 /\ h = [g EXCEPT !.data = X]
    OBVIOUS
  <2>2. X \subseteq Names \X Nat
    BY <1>1, <2>1
  <2> QED
    BY <2>1, <2>2 DEF IndexType
<1>3. IsFiniteSet(h.data)
  BY <1>2, FS_AddElement, FS_RemoveElement
<1>4. ASSUME NEW rel, EntriesFor(f, rel) = EntriesFor(g, rel) PROVE EntriesFor(h, rel) = EntriesFor(g, rel)
  <2>1. CASE e[1] # rel
    <3>1. {x \in h.data : x[1] = rel} = {x \in g.data : x[1] = rel}
      BY <1>2, <2>1
    <3> QED
      BY <3>1 DEF EntriesFor
  <2>2. CASE e[1] = rel /\ e \in f.data
    <3>1. e[2] \in EntriesFor(g, rel)
      BY <1>4, <2>2 DEF EntriesFor
    <3> QED
      BY <1>2, <2>2, <3>1 DEF EntriesFor
  <2>3. CASE e[1] = rel /\ e \notin f.data
    <3>1. e \in g.data
      BY <2>3
    <3>2. e[2] \in EntriesFor(f, rel)
      BY <1>4, <2>3, <3>1 DEF EntriesFor
    <3>3. PICK x \in f.data : x[1] = rel /\ x[2] = e[2]
      BY <3>2 DEF EntriesFor
    <3>4. x = e
      BY <1>1, <2>3, <3>3
    <3> QED
      BY <2>3, <3>4
  <2> QED
    BY <2>1, <2>2, <2>3
<1> QED
  BY <1>2, <1>3, <1>4

(* What the two kinds of writes leave of the disk.                           *)
LEMMA DiskWritten ==
  ASSUME FilesOK(mem), FilesOK(disk), Within(disk, mem), Write
  PROVE  /\ UNCHANGED mem /\ FilesOK(disk') /\ Within(disk', mem)
         /\ \A c \in RecordFiles : /\ disk'[c].header = disk[c].header
                                   /\ Near(disk[c], mem[c]) => Near(disk'[c], mem[c])
                                   /\ Unlinked(mem[c]) /\ Unlinked(disk[c]) => Unlinked(disk'[c])
         /\ \A rel, f : f \in AllFiles /\ AgreeOn(f, rel) => AgreeOn(f, rel)'
<1>1. UNCHANGED mem
  BY DEF Write
<1>2. PICK c \in RecordFiles : WritePage(c) \/ WriteEntry(IndexOf[c])
  BY DEF Write
<1>3. /\ disk = [f \in AllFiles |-> disk[f]]
      /\ \A d \in RecordFiles : /\ Sane(mem[d], RecordOf[d]) /\ Sane(disk[d], RecordOf[d])
                                /\ NoRecord \notin RecordOf[d] /\ d \in AllFiles
                                /\ DOMAIN disk[d].data \subseteq DOMAIN mem[d].data
      /\ \A i \in IndexFiles : /\ mem[i] \in IndexType /\ disk[i] \in IndexType /\ IsFiniteSet(disk[i].data)
                               /\ i \in AllFiles
  BY Names4 DEF FilesOK, Within
<1>4. AllFiles = RecordFiles \union IndexFiles /\ IndexOf[c] \in IndexFiles
      /\ \A d \in RecordFiles : d \notin IndexFiles
  BY Names4
<1>5. CASE WritePage(c)
  <2>1. PICK p \in 0 .. Len(mem[c].data) :
          disk' = [disk EXCEPT ![c].data = [q \in DOMAIN mem[c].data |->
                     IF q = p THEN mem[c].data[q] ELSE IF q \in DOMAIN @ THEN @[q] ELSE Hole]]
    BY <1>5 DEF WritePage
  <2>2. PICK f, g, R : f = mem[c] /\ g = disk[c] /\ R = RecordOf[c]
    OBVIOUS
  <2>3. NoRecord \notin R /\ Sane(f, R) /\ Sane(g, R) /\ DOMAIN g.data \subseteq DOMAIN f.data
    BY <1>3, <2>2
  <2>4. PICK x : x = [q \in DOMAIN f.data |-> IF q = p THEN f.data[q] ELSE IF q \in DOMAIN g.data THEN g.data[q] ELSE Hole]
    OBVIOUS
  <2>5. disk' = [disk EXCEPT ![c].data = x]
    BY <2>1, <2>2, <2>4
  <2>6. g = [data |-> g.data, header |-> g.header]
    BY <2>3, FileFields
  <2>7. PICK h : h = [data |-> x, header |-> g.header]
    OBVIOUS
  <2>8. h.data = x /\ h.header = g.header /\ [g EXCEPT !.data = x] = h
    BY <2>6, <2>7
  <2>9. /\ disk' = [f1 \in AllFiles |-> disk'[f1]] /\ disk'[c] = h
        /\ \A f1 \in AllFiles \ {c} : disk'[f1] = disk[f1]
    BY <1>3, <2>2, <2>5, <2>8
  <2>10. SomeWritten(h, f, g)
    <3>1. x = [q \in DOMAIN f.data |-> x[q]]
      BY <2>4
    <3>2. \A q \in DOMAIN f.data : \/ x[q] = f.data[q]
                                   \/ q \in DOMAIN g.data /\ x[q] = g.data[q]
                                   \/ q \notin DOMAIN g.data /\ x[q] = Hole
      BY <2>4
    <3> QED
      BY <2>7, <2>8, <3>1, <3>2 DEF SomeWritten
  <2>11. /\ Sane(h, R) /\ h.header = g.header /\ DOMAIN h.data = DOMAIN f.data
         /\ Near(g, f) => Near(h, f)
         /\ Unlinked(f) /\ Unlinked(g) => Unlinked(h)
         /\ \A rel : View(f, rel) = View(g, rel) => View(h, rel) = View(f, rel)
    <3>1. WellWritten(h, f, g, R)
      BY <2>3, <2>10, PageWritten
    <3> QED
      BY <3>1 DEF WellWritten
  <2>12. \A d \in RecordFiles : d = c \/ disk'[d] = disk[d]
    BY <1>3, <2>9
  <2>13. \A i \in IndexFiles : disk'[i] = disk[i]
    BY <1>3, <1>4, <2>9
  <2>14. FilesOK(disk')
    <3>1. ASSUME NEW d \in RecordFiles PROVE Sane(disk'[d], RecordOf[d])
      BY <1>3, <2>2, <2>9, <2>11, <2>12
    <3> QED
      BY <1>3, <2>9, <2>13, <3>1 DEF FilesOK
  <2>15. Within(disk', mem)
    BY <1>3, <2>2, <2>9, <2>11, <2>12 DEF Within
  <2>16. ASSUME NEW d \in RecordFiles
         PROVE  /\ disk'[d].header = disk[d].header
                /\ Near(disk[d], mem[d]) => Near(disk'[d], mem[d])
                /\ Unlinked(mem[d]) /\ Unlinked(disk[d]) => Unlinked(disk'[d])
    BY <2>2, <2>9, <2>11, <2>12
  <2>17. ASSUME NEW rel, NEW f1 \in AllFiles, AgreeOn(f1, rel) PROVE AgreeOn(f1, rel)'
    <3>1. CASE f1 = c
      BY <1>1, <2>2, <2>9, <2>11, <2>17, <3>1 DEF AgreeOn
    <3>2. CASE f1 # c
      <4>1. disk'[f1] = disk[f1]
        BY <2>9, <3>2
      <4> QED
        BY <1>1, <2>17, <4>1 DEF AgreeOn
    <3> QED
      BY <3>1, <3>2
  <2> QED
    BY <1>1, <2>14, <2>15, <2>16, <2>17
<1>6. CASE WriteEntry(IndexOf[c])
  <2>1. PICK i \in IndexFiles : i = IndexOf[c]
    BY <1>4
  <2>2. PICK f, g : f = mem[i] /\ g = disk[i]
    OBVIOUS
  <2>3. PICK e : \/ e \in f.data \ g.data /\ disk' = [disk EXCEPT ![i].data = @ \union {e}]
                 \/ e \in g.data \ f.data /\ disk' = [disk EXCEPT ![i].data = @ \ {e}]
    BY <1>6, <2>1, <2>2 DEF WriteEntry
  <2>4. PICK h : /\ \/ e \in f.data \ g.data /\ h = [g EXCEPT !.data = @ \union {e}]
                    \/ e \in g.data \ f.data /\ h = [g EXCEPT !.data = @ \ {e}]
                 /\ disk' = [disk EXCEPT ![i] = h]
    BY <2>2, <2>3
  <2>5. f \in IndexType /\ g \in IndexType /\ IsFiniteSet(g.data)
    BY <1>3, <2>2
  <2>6. /\ h \in IndexType /\ IsFiniteSet(h.data)
        /\ \A rel : EntriesFor(f, rel) = EntriesFor(g, rel) => EntriesFor(f, rel) = EntriesFor(h, rel)
    BY <2>4, <2>5, EntryWritten
  <2>7. /\ disk' = [f1 \in AllFiles |-> disk'[f1]] /\ disk'[i] = h
        /\ \A f1 \in AllFiles \ {i} : disk'[f1] = disk[f1]
    BY <1>3, <2>4
  <2>8. \A d \in RecordFiles : disk'[d] = disk[d]
    BY <1>3, <1>4, <2>7
  <2>9. \A d \in IndexFiles : d = i \/ disk'[d] = disk[d]
    BY <1>3, <2>7
  <2>10. FilesOK(disk') /\ Within(disk', mem)
    BY <1>3, <2>6, <2>7, <2>8, <2>9 DEF FilesOK, Within
  <2>11. ASSUME NEW rel, NEW f1 \in AllFiles, AgreeOn(f1, rel) PROVE AgreeOn(f1, rel)'
    <3>1. CASE f1 = i
      <4>1. f1 \notin RecordFiles
        BY <1>4, <3>1
      <4> QED
        BY <1>1, <2>2, <2>6, <2>7, <2>11, <3>1, <4>1 DEF AgreeOn
    <3>2. CASE f1 # i
      <4>1. disk'[f1] = disk[f1]
        BY <2>7, <3>2
      <4> QED
        BY <1>1, <2>11, <4>1 DEF AgreeOn
    <3> QED
      BY <3>1, <3>2
  <2> QED
    BY <1>1, <2>8, <2>10, <2>11
<1> QED
  BY <1>2, <1>5, <1>6

(* A write keeps the invariant.                                              *)
LEMMA WriteInv ==
  ASSUME Inv, Write
  PROVE  Inv'
<1>1. /\ UNCHANGED <<mem, files, db, stmt, declared, indexed, broken, failed, dropped, headers>>
      /\ db = "open"
  BY DEF Write
<1>2. /\ FilesOK(disk') /\ Within(disk', mem)
      /\ \A c \in RecordFiles : /\ disk'[c].header = disk[c].header
                                /\ Near(disk[c], mem[c]) => Near(disk'[c], mem[c])
                                /\ Unlinked(mem[c]) /\ Unlinked(disk[c]) => Unlinked(disk'[c])
      /\ \A rel, f : f \in AllFiles /\ AgreeOn(f, rel) => AgreeOn(f, rel)'
  BY DiskWritten DEF Inv
<1>3. FilesOK(mem') /\ Within(disk', mem')
  BY <1>1, <1>2 DEF Inv
<1>4. StmtOK'
  BY <1>1, SameStmt DEF Inv
<1>5. HistoryOK' /\ LogOK' /\ FailsOnlyWhenBroken'
  BY <1>1 DEF Inv, HistoryOK, LogOK, FailsOnlyWhenBroken
<1>6. HeadersOK'
  BY <1>1, <1>2 DEF Inv, HeadersOK
<1>7. RelationsOK'
  <2>1. ASSUME NEW rel PROVE (InStatement(rel) => InStatement(rel)') /\ (Settled(rel) => Settled(rel)')
    BY <1>1, <1>2, SameRest
  <2> QED
    BY <1>1, <2>1 DEF Inv, RelationsOK
<1> QED
  BY <1>2, <1>3, <1>4, <1>5, <1>6, <1>7 DEF Inv

-------------------------------------------------------------------------------
(* Sessions.                                                                 *)

(* A settled relation is settled after the files have been opened anew.      *)
LEMMA SessionSettled ==
  ASSUME NEW rel, Settled(rel), \A f \in AllFiles : mem'[f].data = mem[f].data \/ mem'[f].data = disk[f].data,
         disk' = mem', files' = files \union {<<LogFile>>}, UNCHANGED <<declared, indexed, dropped>>
  PROVE  Settled(rel)'
<1>1. \A f \in AllFiles : AgreeOn(f, rel)
  BY DEF Settled
<1>2. ASSUME NEW c \in RecordFiles PROVE View(mem'[c], rel) = View(mem[c], rel)
  <2>1. View(mem[c], rel) = View(disk[c], rel)
    BY <1>1, Names4 DEF AgreeOn
  <2>2. View(mem'[c], rel) = View(mem[c], rel) \/ View(mem'[c], rel) = View(disk[c], rel)
    BY Names4, SameData
  <2> QED
    BY <2>1, <2>2
<1>3. ASSUME NEW i \in IndexFiles PROVE EntriesFor(mem'[i], rel) = EntriesFor(mem[i], rel)
  <2>1. EntriesFor(mem[i], rel) = EntriesFor(disk[i], rel)
    BY <1>1, Names4 DEF AgreeOn
  <2>2. EntriesFor(mem'[i], rel) = EntriesFor(mem[i], rel) \/ EntriesFor(mem'[i], rel) = EntriesFor(disk[i], rel)
    BY Names4, SameData
  <2> QED
    BY <2>1, <2>2
<1>4. SameView(rel)
  BY <1>2, <1>3 DEF SameView
<1>5. \A f \in AllFiles : AgreeOn(f, rel)'
  BY DEF AgreeOn
<1>6. FilesOf(rel)' = FilesOf(rel)
  BY DEF FilesOf
<1>7. IndexedOf(rel)' = IndexedOf(rel)
  BY DEF IndexedOf
<1>8. Consistent(rel)'
  BY <1>4, ConsistentBy DEF Settled
<1>9. Contents(rel)'
  BY <1>4, <1>6, <1>7, ContentsBy DEF Settled
<1> QED
  BY <1>5, <1>8, <1>9 DEF Settled

(* The files after they have been opened anew, each as it was in memory or on *)
(* disk.                                                                     *)
LEMMA ReopenedFiles ==
  ASSUME FilesOK(mem), FilesOK(disk), Within(disk, mem), HeadersOK, UNCHANGED dropped,
         NEW fs, Reopen(fs), fs = [f \in AllFiles |-> fs[f]],
         \A f \in AllFiles : fs[f] = mem[f] \/ fs[f] = disk[f],
         headers' \in {"saved", "stale"},
         headers' # "stale" => headers # "stale" /\ (headers = "saved" \/ \A c \in RecordFiles : fs[c] = mem[c])
  PROVE  /\ FilesOK(mem') /\ disk' = mem' /\ Within(disk', mem')
         /\ \A f \in AllFiles : mem'[f].data = mem[f].data \/ mem'[f].data = disk[f].data
         /\ HeadersOK'
<1>1. mem' = fs /\ disk' = fs
  BY DEF Reopen
<1>2. /\ \A c \in RecordFiles : /\ Sane(mem[c], RecordOf[c]) /\ Sane(disk[c], RecordOf[c]) /\ c \in AllFiles
                                /\ DOMAIN disk[c].data \subseteq DOMAIN mem[c].data
      /\ \A i \in IndexFiles : /\ mem[i] \in IndexType /\ IsFiniteSet(mem[i].data) /\ i \in AllFiles
                               /\ disk[i] \in IndexType /\ IsFiniteSet(disk[i].data)
  BY Names4 DEF FilesOK, Within
<1>3. ASSUME NEW c \in RecordFiles PROVE Sane(fs[c], RecordOf[c])
  <2>1. fs[c] = mem[c] \/ fs[c] = disk[c]
    BY <1>2
  <2> QED
    BY <1>2, <2>1
<1>4. ASSUME NEW i \in IndexFiles PROVE fs[i] \in IndexType /\ IsFiniteSet(fs[i].data)
  <2>1. fs[i] = mem[i] \/ fs[i] = disk[i]
    BY <1>2
  <2> QED
    BY <1>2, <2>1
<1>5. FilesOK(mem')
  BY <1>1, <1>3, <1>4 DEF FilesOK
<1>6. Within(disk', mem')
  BY <1>1 DEF Within
<1>7. ASSUME NEW c \in RecordFiles
      PROVE  /\ headers' # "stale" => Shape(fs[c])
             /\ ~dropped => Unlinked(fs[c])
  <2>1. fs[c] = mem[c] \/ fs[c] = disk[c]
    BY <1>2
  <2>2. ASSUME headers' # "stale" PROVE Shape(fs[c])
    <3>1. Shape(mem[c])
      BY <2>2 DEF HeadersOK
    <3>2. CASE fs[c] = mem[c]
      BY <3>1, <3>2
    <3>3. CASE headers = "saved"
      <4>1. PICK d, m, R : d = disk[c] /\ m = mem[c] /\ R = RecordOf[c]
        OBVIOUS
      <4>2. mem[c].header = disk[c].header /\ Near(disk[c], mem[c])
        BY <3>3 DEF HeadersOK
      <4>3. Sane(d, R) /\ Sane(m, R) /\ DOMAIN d.data \subseteq DOMAIN m.data /\ Shape(m) /\ d.header = m.header /\ Near(d, m)
        BY <1>2, <3>1, <4>1, <4>2
      <4>4. Shape(d)
        BY <4>3, NearShape
      <4> QED
        BY <2>1, <3>1, <4>1, <4>4
    <3> QED
      BY <2>2, <3>2, <3>3
  <2>3. ASSUME ~dropped PROVE Unlinked(fs[c])
    BY <2>1, <2>3 DEF HeadersOK
  <2> QED
    BY <2>2, <2>3
<1>8. HeadersOK'
  <2>1. \A c \in RecordFiles : Near(fs[c], fs[c])
    BY NearSame
  <2> QED
    BY <1>1, <1>7, <2>1 DEF HeadersOK
<1> QED
  BY <1>1, <1>5, <1>6, <1>8

(* The rest of the invariant, when the files have been opened anew and the    *)
(* statement, if there was one, is no more.                                  *)
LEMMA SessionInv ==
  ASSUME Inv, NEW fs, Reopen(fs), fs = [f \in AllFiles |-> fs[f]],
         \A f \in AllFiles : fs[f] = mem[f] \/ fs[f] = disk[f],
         headers' \in {"saved", "stale"},
         headers' # "stale" => headers # "stale" /\ (headers = "saved" \/ \A c \in RecordFiles : fs[c] = mem[c]),
         db = "open", db' # "corrupt", stmt' = Idle,
         broken' = IF stmt = Idle THEN broken ELSE broken \union {stmt.rel},
         files' = files \union {<<LogFile>>}, UNCHANGED <<declared, indexed, failed, dropped>>
  PROVE  Inv'
<1>1. /\ FilesOK(mem') /\ disk' = mem' /\ Within(disk', mem')
      /\ \A f \in AllFiles : mem'[f].data = mem[f].data \/ mem'[f].data = disk[f].data
      /\ HeadersOK'
  BY ReopenedFiles DEF Inv
<1>2. StmtOK'
  BY DEF StmtOK
<1>3. HistoryOK'
  BY DEF Inv, HistoryOK
<1>4. LogOK'
  BY DEF Inv, LogOK
<1>5. FailsOnlyWhenBroken'
  BY DEF Inv, FailsOnlyWhenBroken
<1>6. RelationsOK'
  <2> SUFFICES ASSUME NEW rel \in Names \ broken' PROVE Settled(rel)'
    BY DEF RelationsOK
  <2>1. Settled(rel)
    BY DEF Inv, RelationsOK
  <2> QED
    BY <1>1, <2>1, SessionSettled
<1> QED
  BY <1>1, <1>2, <1>3, <1>4, <1>5, <1>6 DEF Inv

(* A crash keeps the invariant.                                              *)
LEMMA CrashInv ==
  ASSUME Inv, Crash
  PROVE  Inv'
<1>1. /\ db = "open" /\ stmt' = Idle
      /\ broken' = IF stmt = Idle THEN broken ELSE broken \union {stmt.rel}
      /\ files' = files \union {<<LogFile>>}
      /\ UNCHANGED <<declared, indexed, failed, dropped>>
  BY DEF Crash
<1>2. db' # "corrupt"
  BY DEF Crash, Unclosed
<1>3. headers' \in {"saved", "stale"} /\ (headers' # "stale" => headers = "saved")
  BY DEF Crash, Inv, HistoryOK
<1>4. PICK fs : fs = disk
  OBVIOUS
<1>5. /\ Reopen(fs) /\ fs = [f \in AllFiles |-> fs[f]]
      /\ \A f \in AllFiles : fs[f] = mem[f] \/ fs[f] = disk[f]
  BY <1>4 DEF Crash, Inv, FilesOK
<1> QED
  BY <1>1, <1>2, <1>3, <1>5, SessionInv

(* Closing and opening the database keeps the invariant.                     *)
LEMMA ExitInv ==
  ASSUME Inv, Exit
  PROVE  Inv'
<1>1. /\ db = "open" /\ stmt = Idle /\ stmt' = Idle /\ broken' = broken
      /\ files' = files \union {<<LogFile>>}
      /\ UNCHANGED <<declared, indexed, failed, dropped>>
  BY DEF Exit, Ready
<1>2. PICK n \in 0 .. 4 :
        /\ Reopen(Closed(n))
        /\ headers' = IF headers # "moved" THEN headers ELSE IF n < 2 THEN "stale" ELSE "saved"
        /\ Unclosed(dirty \ {Closing[i] : i \in 1 .. n})
  BY DEF Exit
<1>3. PICK fs : fs = Closed(n)
  OBVIOUS
<1>4. /\ fs = [f \in AllFiles |-> fs[f]]
      /\ \A f \in AllFiles : fs[f] = mem[f] \/ fs[f] = disk[f]
  <2>1. DOMAIN mem = AllFiles
    BY DEF Inv, FilesOK
  <2> QED
    BY <1>3, <2>1 DEF Closed
<1>5. db' # "corrupt"
  BY <1>2 DEF Unclosed
<1>6. headers' \in {"saved", "stale"}
  BY <1>2 DEF Inv, HistoryOK
<1>7. ASSUME headers' # "stale" PROVE headers # "stale" /\ (headers = "saved" \/ \A c \in RecordFiles : fs[c] = mem[c])
  <2>1. headers = "saved" \/ (headers = "moved" /\ ~(n < 2))
    BY <1>2, <1>7 DEF Inv, HistoryOK
  <2>2. ASSUME ~(n < 2), NEW c \in RecordFiles PROVE fs[c] = mem[c]
    <3>1. DOMAIN mem = AllFiles /\ c \in AllFiles
      BY Names4 DEF Inv, FilesOK
    <3>2. 1 \in 1 .. n /\ 2 \in 1 .. n
      BY <2>2
    <3>3. \E i \in 1 .. n : Closing[i] = c
      BY <3>2 DEF Closing, RecordFiles
    <3> QED
      BY <1>3, <3>1, <3>3 DEF Closed
  <2> QED
    BY <2>1, <2>2
<1> QED
  BY <1>1, <1>2, <1>3, <1>4, <1>5, <1>6, <1>7, SessionInv

(* The invariant holds at first.                                             *)
LEMMA InitInv ==
  ASSUME Init
  PROVE  Inv
<1>1. /\ mem = [f \in AllFiles |-> [data |-> IF f \in RecordFiles THEN <<>> ELSE {}, header |-> ListEnd]]
      /\ disk = mem /\ files = {<<LogFile>>} /\ db = "open" /\ stmt = Idle
      /\ declared = <<>> /\ indexed = {} /\ broken = {} /\ failed = {} /\ dropped = FALSE /\ headers = "saved"
  <2>1. AllFiles = RecordFiles \union {"relIndex", "attrIndex"}
    BY DEF AllFiles, RecordFiles
  <2> QED
    BY <2>1 DEF Init
<1>2. \A c \in RecordFiles : mem[c] = [data |-> <<>>, header |-> ListEnd]
  BY <1>1, Names4
<1>3. \A i \in IndexFiles : mem[i] = [data |-> {}, header |-> ListEnd]
  BY <1>1, Names4
<1>4. ListEnd \in Int
  BY DEF ListEnd
<1>5. FilesOK(mem)
  <2>1. ASSUME NEW c \in RecordFiles PROVE Sane(mem[c], RecordOf[c])
    <3>1. PICK R : R = RecordOf[c]
      OBVIOUS
    <3>2. PICK f : f = [data |-> <<>>, header |-> ListEnd]
      OBVIOUS
    <3>3. f.data = <<>> /\ f.header = ListEnd /\ <<>> \in Seq(PageType(R)) /\ DOMAIN f.data = {}
      BY <3>2
    <3>4. f \in FileType(R)
      BY <1>4, <3>2, <3>3 DEF FileType
    <3>5. Sane(f, R)
      BY <3>3, <3>4 DEF Sane
    <3> QED
      BY <1>2, <3>1, <3>2, <3>5
  <2>2. ASSUME NEW i \in IndexFiles PROVE mem[i] \in IndexType /\ IsFiniteSet(mem[i].data)
    BY <1>3, <1>4, FS_EmptySet DEF IndexType
  <2> QED
    BY <1>1, <2>1, <2>2 DEF FilesOK
<1>6. Within(disk, mem)
  BY <1>1 DEF Within
<1>7. StmtOK /\ LogOK /\ FailsOnlyWhenBroken
  BY <1>1 DEF StmtOK, LogOK, FailsOnlyWhenBroken
<1>8. HistoryOK
  <2>1. declared = <<>>
    BY <1>1
  <2>2. DOMAIN declared = {}
    BY <2>1
  <2>3. dropped = FALSE
    BY <1>1
  <2>4. dropped \in BOOLEAN
    BY <2>3
  <2>5. headers = "saved" /\ indexed = {}
    BY <1>1
  <2> QED
    BY <2>2, <2>4, <2>5 DEF HistoryOK
<1>9. HeadersOK
  <2>1. ASSUME NEW c \in RecordFiles PROVE Shape(mem[c]) /\ Unlinked(mem[c])
    BY <1>2 DEF Shape, HeadOpen, LinksOpen, HeadUnlinked, LinksUnique, Unlinked
  <2>2. \A c \in RecordFiles : Near(disk[c], mem[c])
    BY <1>1, NearSame
  <2> QED
    BY <1>1, <2>1, <2>2 DEF HeadersOK
<1>10. ASSUME NEW rel PROVE Settled(rel)
  <2>1. ASSUME NEW c \in RecordFiles PROVE Of(mem[c], rel) = {}
    BY <1>2 DEF Of, Live
  <2>2. ASSUME NEW i \in IndexFiles PROVE EntriesFor(mem[i], rel) = {}
    BY <1>3 DEF EntriesFor
  <2>3. Consistent(rel)
    BY <2>1, <2>2, Names4 DEF Consistent
  <2>4. \A f \in AllFiles : AgreeOn(f, rel)
    BY <1>1 DEF AgreeOn
  <2>5. DOMAIN Rels(rel) = {} /\ DOMAIN Attrs(rel) = {}
    BY <2>1, ViewParts DEF Rels, Attrs, RecordFiles
  <2>6. FilesOf(rel) = {} /\ IndexedOf(rel) = {}
    BY <1>1 DEF FilesOf, IndexedOf
  <2>7. rel \notin DOMAIN declared
    BY <1>1
  <2> QED
    BY <2>3, <2>4, <2>5, <2>6, <2>7 DEF Settled, Contents
<1>11. RelationsOK
  BY <1>1, <1>10 DEF RelationsOK
<1> QED
  BY <1>1, <1>5, <1>6, <1>7, <1>8, <1>9, <1>11 DEF Inv

-------------------------------------------------------------------------------
(* The beginning of a statement: what it has to do, as one sequence.         *)

(* The sequences of n items.                                                 *)
Items(s, n) == s = [i \in 1 .. n |-> s[i]]

(* u is s followed by t.                                                     *)
Joined(u, s, n, t, m) ==
  Items(u, n + m) /\ \A i \in 1 .. n + m : u[i] = IF i <= n THEN s[i] ELSE t[i - n]

(* The items of a concatenation.                                             *)
LEMMA Concatenation ==
  ASSUME NEW n \in Nat, NEW m \in Nat, NEW s, NEW t, Items(s, n), Items(t, m)
  PROVE  Joined(s \o t, s, n, t, m)
<1> DEFINE U == {s[i] : i \in 1 .. n} \union {t[i] : i \in 1 .. m}
<1>1. s \in [1 .. n -> U] /\ t \in [1 .. m -> U]
  BY DEF Items
<1> HIDE DEF U
<1>2. s \in Seq(U) /\ t \in Seq(U) /\ Len(s) = n /\ Len(t) = m
  BY <1>1
<1>3. s \o t \in Seq(U) /\ Len(s \o t) = n + m
  BY <1>2
<1>4. \A i \in 1 .. n + m : (s \o t)[i] = IF i <= n THEN s[i] ELSE t[i - n]
  BY <1>2
<1>5. Items(s \o t, n + m)
  <2>1. PICK u : u = s \o t
    OBVIOUS
  <2>2. u \in Seq(U) /\ Len(u) = n + m
    BY <1>3, <2>1
  <2>3. u = [i \in 1 .. n + m |-> u[i]]
    BY <2>2
  <2> QED
    BY <2>1, <2>3 DEF Items
<1> QED
  BY <1>4, <1>5 DEF Joined

(* The item of a sequence of one.                                            *)
LEMMA OneItem ==
  ASSUME NEW x
  PROVE  Items(<<x>>, 1) /\ <<x>>[1] = x
BY DEF Items

(* The items of a sequence with one more behind them.                        *)
LEMMA AppendItem ==
  ASSUME NEW n \in Nat, NEW s, Items(s, n), NEW x
  PROVE  /\ Items(s \o <<x>>, n + 1) /\ (s \o <<x>>)[n + 1] = x
         /\ \A i \in 1 .. n : (s \o <<x>>)[i] = s[i]
<1>1. Items(<<x>>, 1) /\ 1 \in Nat
  BY OneItem
<1>2. Joined(s \o <<x>>, s, n, <<x>>, 1)
  BY <1>1, Concatenation
<1>3. PICK u : u = s \o <<x>>
  OBVIOUS
<1>4. Items(u, n + 1) /\ \A i \in 1 .. n + 1 : u[i] = IF i <= n THEN s[i] ELSE <<x>>[i - n]
  BY <1>2, <1>3 DEF Joined
<1>5. n + 1 \in 1 .. n + 1 /\ ~(n + 1 <= n) /\ (n + 1) - n = 1 /\ \A i \in 1 .. n : i \in 1 .. n + 1 /\ i <= n
  OBVIOUS
<1> QED
  BY <1>3, <1>4, <1>5, OneItem

(* The items that force the pages of files.                                  *)
LEMMA ForcedItems ==
  /\ Flushed = [i \in 1 .. 4 |-> Flushing(FlushOrder[i])]
  /\ Forced(<<"relcat", "attrcat">>) = <<Flushing("relcat"), Flushing("attrcat")>>
  /\ Forced(<<"attrcat">>) = <<Flushing("attrcat")>>
<1>1. Flushed = [i \in 1 .. 4 |-> Flushing(FlushOrder[i])]
  <2>1. Flushed = Forced(FlushOrder) /\ DOMAIN FlushOrder = 1 .. 4
    BY DEF Flushed, FlushOrder
  <2> QED
    BY <2>1 DEF Forced, Flushing
<1>2. Forced(<<"relcat", "attrcat">>) = <<Flushing("relcat"), Flushing("attrcat")>>
  BY DEF Forced, Flushing
<1>3. Forced(<<"attrcat">>) = <<Flushing("attrcat")>>
  BY DEF Forced, Flushing
<1> QED
  BY <1>1, <1>2, <1>3

(* What CreateTable has to do is the plan of CREATE TABLE.                   *)
LEMMA CreateTodo ==
  ASSUME NEW rel, NEW D \in Declarations
  PROVE  [i \in DOMAIN D |->
            [do |-> "insert", file |-> "attrcat",
             rec |-> [rel |-> rel, attr |-> D[i], offset |-> i, indexNo |-> -1]]]
         \o <<[do |-> "insert", file |-> "relcat",
               rec |-> [rel |-> rel, attrCount |-> Len(D), indexCount |-> 0]]>>
         \o Flushed
         \o CreateFile(<<rel>>)
         = CreatePlan(rel, D)
<1> DEFINE n == Len(D)
           s1 == [i \in DOMAIN D |-> [do |-> "insert", file |-> "attrcat",
                                      rec |-> [rel |-> rel, attr |-> D[i], offset |-> i, indexNo |-> -1]]]
           x2 == [do |-> "insert", file |-> "relcat", rec |-> [rel |-> rel, attrCount |-> Len(D), indexCount |-> 0]]
           x4 == [do |-> "create", file |-> <<rel>>]
<1>1. n \in Nat /\ DOMAIN D = 1 .. n
  BY CreatingSame
<1>2. /\ s1 = [i \in 1 .. n |-> s1[i]]
      /\ \A i \in 1 .. n : s1[i] = [do |-> "insert", file |-> "attrcat", rec |-> NewAttr(rel, D, i)]
      /\ x2 = [do |-> "insert", file |-> "relcat", rec |-> NewRel(rel, D)]
  BY <1>1 DEF NewAttr, NewRel
<1>3. CreateFile(<<rel>>) = <<x4>>
  BY DEF CreateFile
<1> HIDE DEF n, s1, x2, x4
<1>4. PICK p, q : p = n + 1 /\ q = n + 5
  OBVIOUS
<1>10. p \in Nat /\ q \in Nat /\ p + 4 = n + 5 /\ q + 1 = n + 6 /\ 1 \in Nat /\ 4 \in Nat
  BY <1>1, <1>4
<1>5. PICK s3 : /\ s3 = s1 \o <<x2>> /\ Items(s3, p)
                /\ \A i \in 1 .. n + 1 : s3[i] = IF i <= n THEN s1[i] ELSE x2
  <2>1. Items(s1, n)
    BY <1>2 DEF Items
  <2>4. Items(<<x2>>, 1)
    BY OneItem
  <2>5. Joined(s1 \o <<x2>>, s1, n, <<x2>>, 1)
    BY <1>1, <1>10, <2>1, <2>4, Concatenation
  <2>2. /\ Items(s1 \o <<x2>>, n + 1)
        /\ \A i \in 1 .. n + 1 : (s1 \o <<x2>>)[i] = IF i <= n THEN s1[i] ELSE <<x2>>[i - n]
    BY <2>5 DEF Joined
  <2>3. \A i \in 1 .. n + 1 : ~(i <= n) => i - n = 1
    BY <1>1
  <2>6. <<x2>>[1] = x2
    OBVIOUS
  <2>7. \A i \in 1 .. n + 1 : (s1 \o <<x2>>)[i] = IF i <= n THEN s1[i] ELSE x2
    BY <2>2, <2>3, <2>6
  <2> QED
    BY <1>4, <2>2, <2>7
<1>6. PICK s5 : /\ s5 = s3 \o Flushed /\ Items(s5, q)
                /\ \A i \in 1 .. n + 5 : s5[i] = IF i <= n + 1 THEN s3[i] ELSE Flushing(FlushOrder[i - (n + 1)])
  <2>1. PICK F : F = Flushed /\ Items(F, 4) /\ \A i \in 1 .. 4 : F[i] = Flushing(FlushOrder[i])
    BY ForcedItems DEF Items
  <2>2. Joined(s3 \o F, s3, p, F, 4)
    BY <1>5, <1>10, <2>1, Concatenation
  <2>3. /\ Items(s3 \o F, p + 4)
        /\ \A i \in 1 .. p + 4 : (s3 \o F)[i] = IF i <= p THEN s3[i] ELSE F[i - p]
    BY <2>2 DEF Joined
  <2>4. \A i \in 1 .. n + 5 : ~(i <= p) => i - p \in 1 .. 4
    BY <1>1, <1>4
  <2>5. /\ Items(s3 \o F, q)
        /\ \A i \in 1 .. n + 5 : (s3 \o F)[i] = IF i <= p THEN s3[i] ELSE F[i - p]
    BY <1>4, <1>10, <2>3
  <2> QED
    BY <1>4, <2>1, <2>4, <2>5
<1>7. s5 \o <<x4>> = [i \in 1 .. n + 6 |-> IF i <= n + 5 THEN s5[i] ELSE x4]
  <2>5. Items(<<x4>>, 1)
    BY OneItem
  <2>6. Joined(s5 \o <<x4>>, s5, q, <<x4>>, 1)
    BY <1>6, <1>10, <2>5, Concatenation
  <2>1. /\ Items(s5 \o <<x4>>, q + 1)
        /\ \A i \in 1 .. q + 1 : (s5 \o <<x4>>)[i] = IF i <= q THEN s5[i] ELSE <<x4>>[i - q]
    BY <2>6 DEF Joined
  <2>2. \A i \in 1 .. n + 6 : ~(i <= n + 5) => i - q = 1
    BY <1>1, <1>4
  <2>3. \A i \in 1 .. n + 6 : (s5 \o <<x4>>)[i] = IF i <= n + 5 THEN s5[i] ELSE x4
    BY <1>4, <1>10, <2>1, <2>2, OneItem
  <2>4. s5 \o <<x4>> = [i \in 1 .. n + 6 |-> (s5 \o <<x4>>)[i]]
    BY <1>10, <2>1 DEF Items
  <2> QED
    BY <2>3, <2>4
<1>8. \A i \in 1 .. n + 6 :
         (IF i <= n + 5 THEN s5[i] ELSE x4) =
         (IF i <= n THEN [do |-> "insert", file |-> "attrcat", rec |-> NewAttr(rel, D, i)]
          ELSE IF i = n + 1 THEN [do |-> "insert", file |-> "relcat", rec |-> NewRel(rel, D)]
          ELSE IF i = n + 6 THEN [do |-> "create", file |-> <<rel>>]
          ELSE Flushing(FlushOrder[i - (n + 1)]))
  <2> TAKE i \in 1 .. n + 6
  <2>1. CASE i <= n
    <3>1. i \in 1 .. n /\ i \in 1 .. n + 1 /\ i \in 1 .. n + 5 /\ i <= n + 1 /\ i <= n + 5
      BY <1>1, <2>1
    <3> QED
      BY <1>2, <1>5, <1>6, <2>1, <3>1
  <2>2. CASE i = n + 1
    <3>1. ~(i <= n) /\ i \in 1 .. n + 1 /\ i \in 1 .. n + 5 /\ i <= n + 1 /\ i <= n + 5
      BY <1>1, <2>2
    <3> QED
      BY <1>2, <1>5, <1>6, <2>2, <3>1
  <2>3. CASE n + 1 < i /\ i < n + 6
    <3>1. ~(i <= n) /\ i # n + 1 /\ i # n + 6 /\ i \in 1 .. n + 5 /\ ~(i <= n + 1) /\ i <= n + 5
      BY <1>1, <2>3
    <3> QED
      BY <1>6, <3>1
  <2>4. CASE i = n + 6
    <3>1. ~(i <= n) /\ i # n + 1 /\ ~(i <= n + 5)
      BY <1>1, <2>4
    <3> QED
      BY <2>4, <3>1 DEF x4
  <2> QED
    BY <1>1, <2>1, <2>2, <2>3, <2>4
<1>9. s5 \o <<x4>> = CreatePlan(rel, D)
  BY <1>7, <1>8 DEF CreatePlan, n
<1> QED
  BY <1>3, <1>5, <1>6, <1>9 DEF s1, x2

(* What DropTable has to do is the plan of DROP TABLE.                       *)
LEMMA DropTodo ==
  ASSUME NEW rel, NEW r, NEW rids, Len(rids) \in Nat, DOMAIN rids = 1 .. Len(rids)
  PROVE  <<[do |-> "dropRel", rid |-> r]>>
         \o DestroyFile(<<rel>>)
         \o [i \in DOMAIN rids |-> [do |-> "dropAttr", rid |-> rids[i]]]
         \o Flushed
         = DropPlan(rel, r, rids)
<1> DEFINE n == Len(rids)
           x1 == [do |-> "dropRel", rid |-> r]
           x2 == [do |-> "destroy", file |-> <<rel>>]
           s4 == [i \in DOMAIN rids |-> [do |-> "dropAttr", rid |-> rids[i]]]
<1>1. n \in Nat
  OBVIOUS
<1>2. Items(s4, n) /\ \A i \in 1 .. n : s4[i] = [do |-> "dropAttr", rid |-> rids[i]]
  BY DEF Items
<1>3. DestroyFile(<<rel>>) = <<x2>>
  BY DEF DestroyFile
<1> HIDE DEF n, x1, x2, s4
<1>4. PICK p : p = n + 2
  OBVIOUS
<1>5. p \in Nat /\ 2 + n = p /\ p + 4 = n + 6 /\ 2 \in Nat /\ 4 \in Nat
  BY <1>1, <1>4
<1>6. PICK s3 : s3 = <<x1>> \o <<x2>> /\ Items(s3, 2) /\ s3[1] = x1 /\ s3[2] = x2
  <2>1. 1 \in Nat /\ Items(<<x1>>, 1) /\ 1 + 1 = 2 /\ 1 \in 1 .. 1 /\ <<x1>>[1] = x1
    BY OneItem
  <2>2. /\ Items(<<x1>> \o <<x2>>, 1 + 1) /\ (<<x1>> \o <<x2>>)[1 + 1] = x2
        /\ \A i \in 1 .. 1 : (<<x1>> \o <<x2>>)[i] = <<x1>>[i]
    BY <2>1, AppendItem
  <2> QED
    BY <2>1, <2>2
<1>7. PICK s5 : /\ s5 = s3 \o s4 /\ Items(s5, p)
                /\ \A i \in 1 .. p : s5[i] = IF i <= 2 THEN s3[i] ELSE s4[i - 2]
  <2>1. Joined(s3 \o s4, s3, 2, s4, n)
    BY <1>1, <1>2, <1>5, <1>6, Concatenation
  <2> QED
    BY <1>5, <2>1 DEF Joined
<1>8. PICK s6 : /\ s6 = s5 \o Flushed /\ Items(s6, n + 6)
                /\ \A i \in 1 .. n + 6 : s6[i] = IF i <= p THEN s5[i] ELSE Flushing(FlushOrder[i - p])
  <2>1. PICK F : F = Flushed /\ Items(F, 4) /\ \A i \in 1 .. 4 : F[i] = Flushing(FlushOrder[i])
    BY ForcedItems DEF Items
  <2>2. Joined(s5 \o F, s5, p, F, 4)
    BY <1>5, <1>7, <2>1, Concatenation
  <2>3. Items(s5 \o F, n + 6) /\ \A i \in 1 .. n + 6 : (s5 \o F)[i] = IF i <= p THEN s5[i] ELSE F[i - p]
    BY <1>5, <2>2 DEF Joined
  <2>4. \A i \in 1 .. n + 6 : ~(i <= p) => i - p \in 1 .. 4
    BY <1>1, <1>4
  <2> QED
    BY <2>1, <2>3, <2>4
<1>9. \A i \in 1 .. n + 6 :
         s6[i] = (IF i = 1 THEN [do |-> "dropRel", rid |-> r]
                  ELSE IF i = 2 THEN [do |-> "destroy", file |-> <<rel>>]
                  ELSE IF i <= n + 2 THEN [do |-> "dropAttr", rid |-> rids[i - 2]]
                  ELSE Flushing(FlushOrder[i - (n + 2)]))
  <2> TAKE i \in 1 .. n + 6
  <2>1. CASE i = 1
    <3>1. i \in 1 .. p /\ i <= p /\ i <= 2
      BY <1>5, <1>1, <1>4, <2>1
    <3> QED
      BY <1>6, <1>7, <1>8, <2>1, <3>1 DEF x1
  <2>2. CASE i = 2
    <3>1. i \in 1 .. p /\ i <= p /\ i <= 2 /\ i # 1
      BY <1>5, <1>1, <1>4, <2>2
    <3> QED
      BY <1>6, <1>7, <1>8, <2>2, <3>1 DEF x2
  <2>3. CASE 2 < i /\ i <= n + 2
    <3>1. i \in 1 .. p /\ i <= p /\ ~(i <= 2) /\ i # 1 /\ i # 2 /\ i - 2 \in 1 .. n
      BY <1>5, <1>1, <1>4, <2>3
    <3> QED
      BY <1>2, <1>7, <1>8, <2>3, <3>1
  <2>4. CASE i > n + 2
    <3>1. ~(i <= p) /\ i # 1 /\ i # 2 /\ ~(i <= n + 2)
      BY <1>1, <1>4, <2>4
    <3> QED
      BY <1>4, <1>8, <3>1
  <2> QED
    BY <1>1, <2>1, <2>2, <2>3, <2>4
<1>10. s6 = [i \in 1 .. n + 6 |-> s6[i]]
  BY <1>8 DEF Items
<1>11. s6 = DropPlan(rel, r, rids)
  BY <1>9, <1>10 DEF DropPlan, n
<1> QED
  BY <1>3, <1>6, <1>7, <1>8, <1>11 DEF x1, s4

(* u is s, of n items, with x behind them.                                   *)
Longer(u, s, n, m, x) == Items(u, m) /\ u[m] = x /\ \A i \in 1 .. n : u[i] = s[i]

(* The items of a sequence followed by a sequence of one.                    *)
LEMMA Appended ==
  ASSUME NEW n \in Nat, NEW m \in Nat, m = n + 1, NEW s, Items(s, n), NEW x, NEW t, Items(t, 1), t[1] = x
  PROVE  Longer(s \o t, s, n, m, x)
<1>1. Joined(s \o t, s, n, t, 1)
  BY Concatenation
<1>2. PICK u : u = s \o t
  OBVIOUS
<1>3. Items(u, m) /\ \A i \in 1 .. m : u[i] = IF i <= n THEN s[i] ELSE t[i - n]
  BY <1>1, <1>2 DEF Joined
<1>4. m \in 1 .. m /\ ~(m <= n) /\ m - n = 1 /\ \A i \in 1 .. n : i \in 1 .. m /\ i <= n
  OBVIOUS
<1>5. Longer(u, s, n, m, x)
  BY <1>3, <1>4 DEF Longer
<1> QED
  BY <1>2, <1>5

(* What CreateIndex has to do.                                               *)
LEMMA IndexTodo ==
  ASSUME NEW rel, NEW n, NEW r, NEW v, NEW a, NEW w
  PROVE  CreateFile(<<rel, n>>)
         \o <<[do |-> "open"]>>
         \o Update("relcat", r, v)
         \o Update("attrcat", a, w)
         \o Forced(<<"relcat", "attrcat">>)
         = <<[do |-> "create", file |-> <<rel, n>>], [do |-> "open"],
             [do |-> "update", file |-> "relcat", rid |-> r, rec |-> v],
             [do |-> "update", file |-> "attrcat", rid |-> a, rec |-> w],
             Flushing("relcat"), Flushing("attrcat")>>
<1>1. PICK x1, x2, x3, x4, x5, x6 :
        /\ x1 = [do |-> "create", file |-> <<rel, n>>] /\ x2 = [do |-> "open"]
        /\ x3 = [do |-> "update", file |-> "relcat", rid |-> r, rec |-> v]
        /\ x4 = [do |-> "update", file |-> "attrcat", rid |-> a, rec |-> w]
        /\ x5 = Flushing("relcat") /\ x6 = Flushing("attrcat")
  OBVIOUS
<1>2. /\ CreateFile(<<rel, n>>) = <<x1>> /\ Update("relcat", r, v) = <<x3>> /\ Update("attrcat", a, w) = <<x4>>
      /\ Forced(<<"relcat", "attrcat">>) = <<x5, x6>>
  BY <1>1, ForcedItems DEF CreateFile, Update
<1>3. <<x1>> \o <<x2>> \o <<x3>> \o <<x4>> \o <<x5, x6>> = <<x1, x2, x3, x4, x5, x6>>
  <2>0. /\ 1 \in Nat /\ 2 \in Nat /\ 3 \in Nat /\ 4 \in Nat /\ 2 = 1 + 1 /\ 3 = 2 + 1 /\ 4 = 3 + 1
        /\ 1 \in 1 .. 1 /\ 1 \in 1 .. 2 /\ 2 \in 1 .. 2 /\ 1 \in 1 .. 3 /\ 2 \in 1 .. 3 /\ 3 \in 1 .. 3
    OBVIOUS
  <2>1. PICK s, t2, t3, t4, t : s = <<x1>> /\ t2 = <<x2>> /\ t3 = <<x3>> /\ t4 = <<x4>> /\ t = <<x5, x6>>
    OBVIOUS
  <2>. Items(t, 2) /\ t[1] = x5 /\ t[2] = x6
    BY <2>1 DEF Items
  <2>. Items(s, 1) /\ s[1] = x1 /\ Items(t2, 1) /\ t2[1] = x2
    BY <2>1, OneItem
  <2>. Items(t3, 1) /\ t3[1] = x3 /\ Items(t4, 1) /\ t4[1] = x4
    BY <2>1, OneItem
  <2>2. PICK u : u = s \o t2
    OBVIOUS
  <2>3. Items(u, 2) /\ u[2] = x2 /\ \A i \in 1 .. 1 : u[i] = s[i]
    <3>1. Longer(s \o t2, s, 1, 2, x2)
      BY <2>0, Appended
    <3> QED
      BY <2>2, <3>1 DEF Longer
  <2>4. PICK p : p = u \o t3
    OBVIOUS
  <2>5. Items(p, 3) /\ p[3] = x3 /\ \A i \in 1 .. 2 : p[i] = u[i]
    <3>1. Longer(u \o t3, u, 2, 3, x3)
      BY <2>0, <2>3, Appended
    <3> QED
      BY <2>4, <3>1 DEF Longer
  <2>6. PICK q : q = p \o t4
    OBVIOUS
  <2>7. Items(q, 4) /\ q[4] = x4 /\ \A i \in 1 .. 3 : q[i] = p[i]
    <3>1. Longer(p \o t4, p, 3, 4, x4)
      BY <2>0, <2>5, Appended
    <3> QED
      BY <2>6, <3>1 DEF Longer
  <2>8. PICK y : y = q \o t
    OBVIOUS
  <2>9. Joined(y, q, 4, t, 2)
    BY <2>0, <2>1, <2>7, <2>8, Concatenation
  <2>10. 4 + 2 = 6 /\ \A i \in 1 .. 6 : i \in {1, 2, 3, 4, 5, 6}
    OBVIOUS
  <2>11. Items(y, 6) /\ \A i \in 1 .. 6 : y[i] = IF i <= 4 THEN q[i] ELSE t[i - 4]
    BY <2>9, <2>10 DEF Joined
  <2>12. /\ y[1] = q[1] /\ y[2] = q[2] /\ y[3] = q[3] /\ y[4] = q[4] /\ y[5] = t[1] /\ y[6] = t[2]
    BY <2>11
  <2>13. y[1] = x1 /\ y[2] = x2 /\ y[3] = x3 /\ y[4] = x4 /\ y[5] = x5 /\ y[6] = x6
    BY <2>0, <2>1, <2>3, <2>5, <2>7, <2>12
  <2>14. y = <<x1, x2, x3, x4, x5, x6>>
    <3>1. y = [i \in 1 .. 6 |-> y[i]]
      BY <2>11 DEF Items
    <3> QED
      BY <2>13, <3>1
  <2> QED
    BY <2>1, <2>2, <2>4, <2>6, <2>8, <2>14
<1> QED
  BY <1>1, <1>2, <1>3

(* What DropIndex has to do.                                                 *)
LEMMA UnindexTodo ==
  ASSUME NEW rel, NEW n, NEW a, NEW w
  PROVE  DestroyFile(<<rel, n>>)
         \o Update("attrcat", a, w)
         \o Forced(<<"attrcat">>)
         = <<[do |-> "destroy", file |-> <<rel, n>>],
             [do |-> "update", file |-> "attrcat", rid |-> a, rec |-> w],
             Flushing("attrcat")>>
<1>1. PICK x4, x6, x7 :
        /\ x4 = [do |-> "update", file |-> "attrcat", rid |-> a, rec |-> w] /\ x6 = Flushing("attrcat")
        /\ x7 = [do |-> "destroy", file |-> <<rel, n>>]
  OBVIOUS
<1>2. Update("attrcat", a, w) = <<x4>> /\ Forced(<<"attrcat">>) = <<x6>> /\ DestroyFile(<<rel, n>>) = <<x7>>
  BY <1>1, ForcedItems DEF DestroyFile, Update
<1>3. <<x7>> \o <<x4>> \o <<x6>> = <<x7, x4, x6>>
  <2>0. /\ 1 \in Nat /\ 2 \in Nat /\ 3 \in Nat /\ 2 = 1 + 1 /\ 3 = 2 + 1
        /\ 1 \in 1 .. 1 /\ 1 \in 1 .. 2 /\ 2 \in 1 .. 2
    OBVIOUS
  <2>1. PICK s, t2, t3 : s = <<x7>> /\ t2 = <<x4>> /\ t3 = <<x6>>
    OBVIOUS
  <2>. Items(s, 1) /\ s[1] = x7 /\ Items(t2, 1) /\ t2[1] = x4
    BY <2>1, OneItem
  <2>. Items(t3, 1) /\ t3[1] = x6
    BY <2>1, OneItem
  <2>2. PICK u : u = s \o t2
    OBVIOUS
  <2>3. Items(u, 2) /\ u[2] = x4 /\ \A i \in 1 .. 1 : u[i] = s[i]
    <3>1. Longer(s \o t2, s, 1, 2, x4)
      BY <2>0, Appended
    <3> QED
      BY <2>2, <3>1 DEF Longer
  <2>4. PICK p : p = u \o t3
    OBVIOUS
  <2>5. Items(p, 3) /\ p[3] = x6 /\ \A i \in 1 .. 2 : p[i] = u[i]
    <3>1. Longer(u \o t3, u, 2, 3, x6)
      BY <2>0, <2>3, Appended
    <3> QED
      BY <2>4, <3>1 DEF Longer
  <2>6. p[1] = x7 /\ p[2] = x4 /\ p[3] = x6
    BY <2>0, <2>1, <2>3, <2>5
  <2>7. p = <<x7, x4, x6>>
    <3>1. p = [i \in 1 .. 3 |-> p[i]]
      BY <2>5 DEF Items
    <3> QED
      BY <2>6, <3>1
  <2> QED
    BY <2>1, <2>2, <2>4, <2>7
<1> QED
  BY <1>1, <1>2, <1>3

-------------------------------------------------------------------------------
(* What the statements find in the catalogs.                                 *)

(* FindRelMetadata finds a record with an entry for the relation, if there is one. *)
LEMMA FindsRel ==
  ASSUME FilesOK(mem), NEW rel
  PROVE  /\ FindRelMetadata(rel) # -1 => FindRelMetadata(rel) \in Live(mem["relcat"])
         /\ FindRelMetadata(rel) # -1 => FindRelMetadata(rel) \in EntriesFor(mem["relIndex"], rel)
         /\ FindRelMetadata(rel) = -1 /\ Consistent(rel) => Of(mem["relcat"], rel) = {}
<1> DEFINE q == Lookup("relcat", rel)
           S == EntriesFor(mem["relIndex"], rel)
           n == Cardinality(S)
<1>1. /\ "relcat" \in RecordFiles /\ IndexOf["relcat"] = "relIndex"
      /\ n \in Nat /\ S \subseteq Nat /\ q \in [1 .. n -> S] /\ q \in Seq(S) /\ Len(q) = n
      /\ \A x \in S : \E i \in 1 .. n : q[i] = x
  <2>1. "relcat" \in RecordFiles
    BY DEF RecordFiles
  <2>2. IndexOf["relcat"] = "relIndex"
    BY Names4
  <2>3. /\ n \in Nat /\ S \subseteq Nat /\ q \in [1 .. n -> S] /\ q \in Seq(S) /\ Len(q) = n
        /\ \A x \in S : \E i \in 1 .. n : q[i] = x
    BY <2>1, <2>2, LooksUp
  <2> HIDE DEF q, S, n
  <2> QED
    BY <2>1, <2>2, <2>3
<1>2. /\ \A rid \in Nat : IsRec("relcat", rid) <=> rid \in Live(mem["relcat"])
      /\ Live(mem["relcat"]) \subseteq Nat
  BY <1>1, ReadsRecords
<1>3. FindRelMetadata(rel) = IF q = <<>> \/ ~IsRec("relcat", q[1]) THEN -1 ELSE q[1]
  BY DEF FindRelMetadata
<1>4. Consistent(rel) => S = Of(mem["relcat"], rel)
  BY <1>1 DEF Consistent
<1> HIDE DEF q, S, n
<1>5. q = <<>> <=> n = 0
  BY <1>1
<1>6. n # 0 => 1 \in 1 .. n /\ q[1] \in S
  BY <1>1
<1>7. FindRelMetadata(rel) # -1 => q[1] \in S /\ IsRec("relcat", q[1]) /\ FindRelMetadata(rel) = q[1]
  BY <1>3, <1>5, <1>6
<1>8. ASSUME FindRelMetadata(rel) = -1, Consistent(rel), S # {}
      PROVE  FALSE
  <2>1. n # 0
    <3>1. PICK x \in S : TRUE
      BY <1>8
    <3>2. PICK i \in 1 .. n : q[i] = x
      BY <1>1, <3>1
    <3> QED
      BY <1>1, <3>2
  <2>2. q[1] \in Live(mem["relcat"]) /\ q[1] \in Nat
    BY <1>1, <1>4, <1>6, <1>8, <2>1 DEF Of
  <2>3. IsRec("relcat", q[1]) /\ q[1] # -1
    BY <1>2, <2>2
  <2> QED
    BY <1>3, <1>5, <1>8, <2>1, <2>3
<1> QED
  BY <1>1, <1>2, <1>4, <1>7, <1>8 DEF S

(* FindAttrMetadata finds a record of that attribute with an entry for the relation. *)
LEMMA FindsAttr ==
  ASSUME FilesOK(mem), NEW rel, NEW attr, FindAttrMetadata(rel, attr) # -1
  PROVE  LET a == FindAttrMetadata(rel, attr)
         IN  /\ a \in Live(mem["attrcat"]) /\ a \in EntriesFor(mem["attrIndex"], rel)
             /\ Get(mem["attrcat"], a).attr = attr
<1> DEFINE q == Lookup("attrcat", rel)
           S == EntriesFor(mem["attrIndex"], rel)
           n == Cardinality(S)
           Hits == {i \in 1 .. Len(q) : ~IsRec("attrcat", q[i]) \/ Rec("attrcat", q[i]).attr = attr}
           hit == IF Hits # {} THEN Min(Hits) ELSE 0
<1>1. /\ "attrcat" \in RecordFiles /\ IndexOf["attrcat"] = "attrIndex"
      /\ n \in Nat /\ S \subseteq Nat /\ q \in [1 .. n -> S] /\ Len(q) = n
  BY Names4, LooksUp DEF RecordFiles
<1>2. /\ \A rid \in Nat : IsRec("attrcat", rid) <=> rid \in Live(mem["attrcat"])
      /\ \A rid : Rec("attrcat", rid) = Get(mem["attrcat"], rid)
  BY <1>1, ReadsRecords
<1>3. FindAttrMetadata(rel, attr) = IF hit = 0 \/ ~IsRec("attrcat", q[hit]) THEN -1 ELSE q[hit]
  BY DEF FindAttrMetadata, SelectInSeq
<1> HIDE DEF q, S, n
<1>4. hit # 0 /\ IsRec("attrcat", q[hit]) /\ FindAttrMetadata(rel, attr) = q[hit]
  BY <1>3
<1>5. hit \in Hits
  <2>1. Hits # {} /\ hit = Min(Hits) /\ Hits \subseteq Nat
    BY <1>4
  <2>2. PICK x \in Hits : \A y \in Hits : x <= y
    BY <2>1, LeastMember
  <2> QED
    BY <2>1, <2>2 DEF Min
<1>6. hit \in 1 .. n /\ q[hit] \in S /\ q[hit] \in Nat
  BY <1>1, <1>5
<1> QED
  BY <1>1, <1>2, <1>4, <1>5, <1>6 DEF S

(* The beginning of CREATE TABLE.                                            *)
LEMMA CreateBegins ==
  ASSUME NEW rel \in Names, NEW D \in Declarations, CreateTable(rel, D)
  PROVE  /\ stmt' = [type |-> "createTable", rel |-> rel, attrs |-> D, todo |-> CreatePlan(rel, D)]
         /\ FindRelMetadata(rel) = -1 /\ UNCHANGED dropped
BY CreateTodo, Zenon DEF CreateTable

(* The beginning of DROP TABLE.                                              *)
LEMMA DropBegins ==
  ASSUME FilesOK(mem), NEW rel \in Names, DropTable(rel)
  PROVE  \E r, rids :
           /\ r = FindRelMetadata(rel) /\ r # -1 /\ rids = Lookup("attrcat", rel)
           /\ stmt' = [type |-> "dropTable", rel |-> rel, todo |-> DropPlan(rel, r, rids)]
           /\ dropped' = TRUE
<1>1. PICK r, rids : r = FindRelMetadata(rel) /\ rids = Lookup("attrcat", rel)
  OBVIOUS
<1>2. Len(rids) \in Nat /\ DOMAIN rids = 1 .. Len(rids)
  <2>1. "attrcat" \in RecordFiles
    BY DEF RecordFiles
  <2> QED
    BY <1>1, <2>1, LooksUp
<1>3. <<[do |-> "dropRel", rid |-> r]>> \o DestroyFile(<<rel>>)
      \o [i \in DOMAIN rids |-> [do |-> "dropAttr", rid |-> rids[i]]] \o Flushed = DropPlan(rel, r, rids)
  BY <1>2, DropTodo
<1> QED
  BY <1>1, <1>3, Zenon DEF DropTable

(* The beginning of CREATE INDEX.                                            *)
LEMMA IndexBegins ==
  ASSUME NEW rel \in Names, NEW attr \in Attributes, CreateIndex(rel, attr)
  PROVE  \E r, a, h, g :
           /\ r = FindRelMetadata(rel) /\ a = FindAttrMetadata(rel, attr) /\ r # -1 /\ a # -1
           /\ h = Rec("relcat", r) /\ g = Rec("attrcat", a) /\ g.indexNo = -1
           /\ stmt' = [type |-> "createIndex", rel |-> rel, attr |-> attr,
                todo |->
                  <<[do |-> "create", file |-> <<rel, h.indexCount>>], [do |-> "open"],
                    [do |-> "update", file |-> "relcat", rid |-> r, rec |-> [h EXCEPT !.indexCount = @ + 1]],
                    [do |-> "update", file |-> "attrcat", rid |-> a,
                     rec |-> [g EXCEPT !.indexNo = h.indexCount]],
                    Flushing("relcat"), Flushing("attrcat")>>]
           /\ UNCHANGED dropped
<1>1. PICK r, a : r = FindRelMetadata(rel) /\ a = FindAttrMetadata(rel, attr)
  OBVIOUS
<1>2. PICK h, g : h = Rec("relcat", r) /\ g = Rec("attrcat", a)
  OBVIOUS
<1>3. PICK v, w, n : v = Numbered(h) /\ n = h.indexCount /\ w = [g EXCEPT !.indexNo = n]
  OBVIOUS
<1>4. CreateFile(<<rel, n>>) \o <<[do |-> "open"]>> \o Update("relcat", r, v) \o Update("attrcat", a, w)
      \o Forced(<<"relcat", "attrcat">>)
      = <<[do |-> "create", file |-> <<rel, n>>], [do |-> "open"],
          [do |-> "update", file |-> "relcat", rid |-> r, rec |-> v],
          [do |-> "update", file |-> "attrcat", rid |-> a, rec |-> w],
          Flushing("relcat"), Flushing("attrcat")>>
  BY IndexTodo
<1>5. /\ r # -1 /\ a # -1 /\ g.indexNo = -1 /\ UNCHANGED dropped
      /\ stmt' = [type |-> "createIndex", rel |-> rel, attr |-> attr,
                  todo |-> CreateFile(<<rel, n>>) \o <<[do |-> "open"]>> \o Update("relcat", r, v)
                           \o Update("attrcat", a, w) \o Forced(<<"relcat", "attrcat">>)]
  BY <1>1, <1>2, <1>3, Zenon DEF CreateIndex
<1>6. v = [h EXCEPT !.indexCount = @ + 1]
  BY <1>3 DEF Numbered
<1>7. stmt' = [type |-> "createIndex", rel |-> rel, attr |-> attr,
               todo |-> <<[do |-> "create", file |-> <<rel, n>>], [do |-> "open"],
                          [do |-> "update", file |-> "relcat", rid |-> r, rec |-> v],
                          [do |-> "update", file |-> "attrcat", rid |-> a, rec |-> w],
                          Flushing("relcat"), Flushing("attrcat")>>]
  BY <1>4, <1>5, Zenon
<1>8. stmt' = [type |-> "createIndex", rel |-> rel, attr |-> attr,
               todo |-> <<[do |-> "create", file |-> <<rel, h.indexCount>>], [do |-> "open"],
                          [do |-> "update", file |-> "relcat", rid |-> r, rec |-> [h EXCEPT !.indexCount = @ + 1]],
                          [do |-> "update", file |-> "attrcat", rid |-> a,
                           rec |-> [g EXCEPT !.indexNo = h.indexCount]],
                          Flushing("relcat"), Flushing("attrcat")>>]
  BY <1>3, <1>6, <1>7, Zenon
<1> WITNESS r, a, h, g
<1>9. r = FindRelMetadata(rel) /\ a = FindAttrMetadata(rel, attr) /\ h = Rec("relcat", r) /\ g = Rec("attrcat", a)
  BY <1>1, <1>2
<1> QED
  BY <1>5, <1>8, <1>9, Zenon

(* The beginning of DROP INDEX.                                              *)
LEMMA UnindexBegins ==
  ASSUME NEW rel \in Names, NEW attr \in Attributes, DropIndex(rel, attr)
  PROVE  \E a, g :
           /\ a = FindAttrMetadata(rel, attr) /\ a # -1
           /\ g = Rec("attrcat", a) /\ g.indexNo # -1
           /\ stmt' = [type |-> "dropIndex", rel |-> rel, attr |-> attr,
                todo |->
                  <<[do |-> "destroy", file |-> <<rel, g.indexNo>>],
                    [do |-> "update", file |-> "attrcat", rid |-> a, rec |-> [g EXCEPT !.indexNo = -1]],
                    Flushing("attrcat")>>]
           /\ UNCHANGED dropped
<1>1. PICK a : a = FindAttrMetadata(rel, attr)
  OBVIOUS
<1>2. PICK g : g = Rec("attrcat", a)
  OBVIOUS
<1>3. PICK w, n : n = g.indexNo /\ w = [g EXCEPT !.indexNo = -1]
  OBVIOUS
<1>4. DestroyFile(<<rel, n>>) \o Update("attrcat", a, w) \o Forced(<<"attrcat">>)
      = <<[do |-> "destroy", file |-> <<rel, n>>],
          [do |-> "update", file |-> "attrcat", rid |-> a, rec |-> w], Flushing("attrcat")>>
  BY UnindexTodo
<1>5. /\ a # -1 /\ g.indexNo # -1 /\ UNCHANGED dropped
      /\ stmt' = [type |-> "dropIndex", rel |-> rel, attr |-> attr,
                  todo |-> DestroyFile(<<rel, n>>) \o Update("attrcat", a, w) \o Forced(<<"attrcat">>)]
  BY <1>1, <1>2, <1>3, Zenon DEF DropIndex
<1>6. stmt' = [type |-> "dropIndex", rel |-> rel, attr |-> attr,
               todo |-> <<[do |-> "destroy", file |-> <<rel, n>>],
                          [do |-> "update", file |-> "attrcat", rid |-> a, rec |-> w], Flushing("attrcat")>>]
  BY <1>4, <1>5, Zenon
<1>7. stmt' = [type |-> "dropIndex", rel |-> rel, attr |-> attr,
               todo |-> <<[do |-> "destroy", file |-> <<rel, g.indexNo>>],
                          [do |-> "update", file |-> "attrcat", rid |-> a, rec |-> [g EXCEPT !.indexNo = -1]],
                          Flushing("attrcat")>>]
  BY <1>3, <1>6, Zenon
<1> QED
  BY <1>1, <1>2, <1>5, <1>7, Zenon

(* ForcePages is called for the four files only.                             *)
LEMMA FlushOrderFiles ==
  \A i \in 1 .. 4 : FlushOrder[i] \in AllFiles
<1>1. \A i \in 1 .. 4 : i = 1 \/ i = 2 \/ i = 3 \/ i = 4
  OBVIOUS
<1> QED
  BY <1>1 DEF FlushOrder, AllFiles

(* Whatever the relation, what a statement begins with is well formed.       *)
Wellformed(what, rel, t, n) ==
  /\ stmt'.todo = t /\ t = [j \in 1 .. n |-> t[j]] /\ n \in Nat \ {0}
  /\ stmt'.rel = rel /\ rel \in Names /\ stmt'.type = what
  /\ StmtForm'

(* A statement begins well formed when its items are.                        *)
LEMMA BegunStmt ==
  ASSUME UNCHANGED mem, NEW what, NEW rel, NEW t, NEW n, Wellformed(what, rel, t, n),
         \A j \in 1 .. n :
           \/ /\ t[j].do = "insert" /\ t[j].file \in RecordFiles
              /\ t[j].rec \in RecordOf[t[j].file] /\ t[j].rec.rel = rel
           \/ /\ t[j].do = "update" /\ t[j].file \in RecordFiles /\ what # "dropTable"
              /\ t[j].rid \in Live(mem[t[j].file]) /\ t[j].rec \in RecordOf[t[j].file]
              /\ t[j].rec.rel = Get(mem[t[j].file], t[j].rid).rel
           \/ t[j].do = "dropRel" /\ j = 1 /\ what = "dropTable" /\ t[j].rid \in Live(mem["relcat"])
           \/ t[j].do = "dropAttr" /\ what = "dropTable" /\ t[j].rid \in Nat
           \/ t[j].do = "force" /\ t[j].file \in AllFiles
           \/ t[j].do = "create" /\ t[j].file[1] = rel
           \/ t[j].do = "destroy" /\ t[j].file[1] = rel /\ what # "createTable"
           \/ t[j].do = "open"
  PROVE  StmtOK' /\ stmt' # Idle
<1>1. \A j \in 1 .. n : ItemOK(j)'
  <2> TAKE j \in 1 .. n
  <2>1. PICK it : it = t[j]
    OBVIOUS
  <2>2. stmt'.todo[j] = it /\ stmt'.rel = rel /\ stmt'.type = what /\ mem' = mem
    BY <2>1 DEF Wellformed
  <2> QED
    BY <2>1, <2>2 DEF ItemOK
<1>2. stmt' # Idle
  <2>1. t # <<>>
    BY Todo DEF Wellformed
  <2> QED
    BY <2>1 DEF Wellformed, Idle
<1>3. stmt'.todo = [j \in 1 .. n |-> stmt'.todo[j]] /\ n \in Nat /\ stmt'.rel \in Names /\ StmtForm'
  BY DEF Wellformed
<1>4. StmtOK'
  BY <1>1, <1>2, <1>3 DEF StmtOK
<1> QED
  BY <1>2, <1>4

(* CREATE TABLE begins well formed.                                          *)
LEMMA CreateStmt ==
  ASSUME UNCHANGED mem, NEW rel \in Names, NEW D \in Declarations, CreateTable(rel, D)
  PROVE  StmtOK' /\ stmt' # Idle
<1> DEFINE n == Len(D) + 6
<1>1. PICK t : t = CreatePlan(rel, D)
  OBVIOUS
<1>2. Len(D) \in Nat /\ D \in Seq(Attributes) /\ n \in Nat \ {0}
  BY CreatingSame
<1>3. stmt' = [type |-> "createTable", rel |-> rel, attrs |-> D, todo |-> t]
  BY <1>1, CreateBegins
<1>4. t = [j \in 1 .. n |-> t[j]]
  BY <1>1 DEF CreatePlan
<1>5. Wellformed("createTable", rel, t, n)
  BY <1>2, <1>3, <1>4 DEF Wellformed, StmtForm
<1>6. ASSUME NEW j \in 1 .. n
      PROVE  \/ /\ t[j].do = "insert" /\ t[j].file \in RecordFiles
                /\ t[j].rec \in RecordOf[t[j].file] /\ t[j].rec.rel = rel
             \/ t[j].do = "force" /\ t[j].file \in AllFiles
             \/ t[j].do = "create" /\ t[j].file[1] = rel
  <2>1. CASE j <= Len(D)
    <3>1. t[j] = [do |-> "insert", file |-> "attrcat", rec |-> NewAttr(rel, D, j)]
      BY <1>1, <1>2, <2>1 DEF CreatePlan
    <3>2. D[j] \in Attributes /\ j \in Nat
      BY <1>2, <2>1
    <3>3. NewAttr(rel, D, j) \in AttrRecord /\ NewAttr(rel, D, j).rel = rel
      BY <3>2 DEF NewAttr, AttrRecord
    <3> QED
      BY <3>1, <3>3, Names4 DEF RecordFiles
  <2>2. CASE j = Len(D) + 1
    <3>1. t[j] = [do |-> "insert", file |-> "relcat", rec |-> NewRel(rel, D)]
      BY <1>1, <1>2, <2>2 DEF CreatePlan
    <3>3. NewRel(rel, D) \in RelRecord /\ NewRel(rel, D).rel = rel
      BY <1>2 DEF NewRel, RelRecord
    <3> QED
      BY <3>1, <3>3, Names4 DEF RecordFiles
  <2>3. CASE Len(D) + 1 < j /\ j < n
    <3>1. t[j] = Flushing(FlushOrder[j - (Len(D) + 1)])
      BY <1>1, <1>2, <2>3 DEF CreatePlan
    <3>2. j - (Len(D) + 1) \in 1 .. 4
      BY <1>2, <2>3
    <3> QED
      BY <3>1, <3>2, FlushOrderFiles DEF Flushing
  <2>4. CASE j = n
    <3>1. t[j] = [do |-> "create", file |-> <<rel>>]
      BY <1>1, <1>2, <2>4 DEF CreatePlan
    <3> QED
      BY <3>1
  <2> QED
    BY <1>2, <2>1, <2>2, <2>3, <2>4
<1> HIDE DEF n
<1> QED
  BY <1>5, <1>6, BegunStmt

(* DROP TABLE begins well formed.                                            *)
LEMMA DropStmt ==
  ASSUME UNCHANGED mem, FilesOK(mem), NEW rel \in Names, DropTable(rel)
  PROVE  StmtOK' /\ stmt' # Idle
<1>1. PICK r, rids :
        /\ r = FindRelMetadata(rel) /\ r # -1 /\ rids = Lookup("attrcat", rel)
        /\ stmt' = [type |-> "dropTable", rel |-> rel, todo |-> DropPlan(rel, r, rids)]
        /\ dropped' = TRUE
  BY DropBegins
<1>2. PICK t : t = DropPlan(rel, r, rids)
  OBVIOUS
<1>3. PICK n : n = Len(rids) + 6
  OBVIOUS
<1>4. Len(rids) \in Nat /\ \A i \in 1 .. Len(rids) : rids[i] \in Nat
  <2>1. PICK S, m : S = EntriesFor(mem[IndexOf["attrcat"]], rel) /\ m = Cardinality(S)
    OBVIOUS
  <2>2. m \in Nat /\ S \subseteq Nat /\ rids \in [1 .. m -> S] /\ Len(rids) = m
    <3>1. "attrcat" \in RecordFiles
      BY DEF RecordFiles
    <3> QED
      BY <1>1, <2>1, <3>1, LooksUp
  <2> QED
    BY <2>2
<1>5. r \in Live(mem["relcat"])
  BY <1>1, FindsRel
<1>6. t = [j \in 1 .. n |-> t[j]] /\ n \in Nat \ {0}
  BY <1>2, <1>3, <1>4 DEF DropPlan
<1>7. Wellformed("dropTable", rel, t, n)
  BY <1>1, <1>2, <1>6 DEF Wellformed, StmtForm
<1>8. ASSUME NEW j \in 1 .. n
      PROVE  \/ t[j].do = "dropRel" /\ j = 1 /\ t[j].rid \in Live(mem["relcat"])
             \/ t[j].do = "dropAttr" /\ t[j].rid \in Nat
             \/ t[j].do = "force" /\ t[j].file \in AllFiles
             \/ t[j].do = "destroy" /\ t[j].file[1] = rel
  <2>1. CASE j = 1
    <3>1. t[j] = [do |-> "dropRel", rid |-> r]
      BY <1>2, <1>3, <1>4, <2>1 DEF DropPlan
    <3> QED
      BY <1>5, <2>1, <3>1
  <2>2. CASE j = 2
    <3>1. t[j] = [do |-> "destroy", file |-> <<rel>>]
      BY <1>2, <1>3, <1>4, <2>2 DEF DropPlan
    <3> QED
      BY <3>1
  <2>3. CASE 2 < j /\ j <= Len(rids) + 2
    <3>1. t[j] = [do |-> "dropAttr", rid |-> rids[j - 2]]
      BY <1>2, <1>3, <1>4, <2>3 DEF DropPlan
    <3>2. rids[j - 2] \in Nat
      BY <1>4, <2>3
    <3> QED
      BY <3>1, <3>2
  <2>4. CASE j > Len(rids) + 2
    <3>1. t[j] = Flushing(FlushOrder[j - (Len(rids) + 2)])
      BY <1>2, <1>3, <1>4, <2>4 DEF DropPlan
    <3>2. j - (Len(rids) + 2) \in 1 .. 4
      BY <1>3, <1>4, <2>4
    <3> QED
      BY <3>1, <3>2, FlushOrderFiles DEF Flushing
  <2> QED
    BY <1>3, <1>4, <2>1, <2>2, <2>3, <2>4
<1> QED
  BY <1>7, <1>8, BegunStmt

(* CREATE INDEX begins well formed.                                          *)
LEMMA IndexStmt ==
  ASSUME UNCHANGED mem, FilesOK(mem), NEW rel \in Names, NEW attr \in Attributes, CreateIndex(rel, attr)
  PROVE  StmtOK' /\ stmt' # Idle
<1>1. PICK r, a, h, g :
        /\ r = FindRelMetadata(rel) /\ a = FindAttrMetadata(rel, attr) /\ r # -1 /\ a # -1
        /\ h = Rec("relcat", r) /\ g = Rec("attrcat", a) /\ g.indexNo = -1
        /\ stmt' = [type |-> "createIndex", rel |-> rel, attr |-> attr,
             todo |->
               <<[do |-> "create", file |-> <<rel, h.indexCount>>], [do |-> "open"],
                 [do |-> "update", file |-> "relcat", rid |-> r, rec |-> [h EXCEPT !.indexCount = @ + 1]],
                 [do |-> "update", file |-> "attrcat", rid |-> a,
                  rec |-> [g EXCEPT !.indexNo = h.indexCount]],
                 Flushing("relcat"), Flushing("attrcat")>>]
        /\ UNCHANGED dropped
  BY IndexBegins
<1>2. /\ r \in Live(mem["relcat"]) /\ a \in Live(mem["attrcat"])
      /\ h = Get(mem["relcat"], r) /\ g = Get(mem["attrcat"], a)
      /\ h \in RelRecord /\ g \in AttrRecord
  <2>1. r \in Live(mem["relcat"]) /\ a \in Live(mem["attrcat"])
    BY <1>1, FindsRel, FindsAttr
  <2>2. "relcat" \in RecordFiles /\ "attrcat" \in RecordFiles
    BY DEF RecordFiles
  <2> QED
    BY <1>1, <2>1, <2>2, ReadsRecords, Names4
<1>3. PICK v, w : v = [h EXCEPT !.indexCount = @ + 1] /\ w = [g EXCEPT !.indexNo = h.indexCount]
  OBVIOUS
<1>4. v \in RelRecord /\ v.rel = h.rel /\ w \in AttrRecord /\ w.rel = g.rel
  BY <1>2, <1>3 DEF RelRecord, AttrRecord
<1>5. PICK t : t = <<[do |-> "create", file |-> <<rel, h.indexCount>>], [do |-> "open"],
                     [do |-> "update", file |-> "relcat", rid |-> r, rec |-> v],
                     [do |-> "update", file |-> "attrcat", rid |-> a, rec |-> w],
                     Flushing("relcat"), Flushing("attrcat")>>
  OBVIOUS
<1>6. stmt' = [type |-> "createIndex", rel |-> rel, attr |-> attr, todo |-> t]
  BY <1>1, <1>3, <1>5, Zenon
<1>7. t = [j \in 1 .. 6 |-> t[j]] /\ 6 \in Nat \ {0}
  BY <1>5
<1>8. Wellformed("createIndex", rel, t, 6)
  BY <1>6, <1>7 DEF Wellformed, StmtForm
<1>9. ASSUME NEW j \in 1 .. 6
      PROVE  \/ /\ t[j].do = "update" /\ t[j].file \in RecordFiles
                /\ t[j].rid \in Live(mem[t[j].file]) /\ t[j].rec \in RecordOf[t[j].file]
                /\ t[j].rec.rel = Get(mem[t[j].file], t[j].rid).rel
             \/ t[j].do = "force" /\ t[j].file \in AllFiles
             \/ t[j].do = "create" /\ t[j].file[1] = rel
             \/ t[j].do = "open"
  <2>1. CASE j = 1
    BY <1>5, <2>1
  <2>2. CASE j = 2
    BY <1>5, <2>2
  <2>3. CASE j = 3
    <3>1. t[j] = [do |-> "update", file |-> "relcat", rid |-> r, rec |-> v]
      BY <1>5, <2>3
    <3> QED
      BY <1>2, <1>4, <3>1, Names4 DEF RecordFiles
  <2>4. CASE j = 4
    <3>1. t[j] = [do |-> "update", file |-> "attrcat", rid |-> a, rec |-> w]
      BY <1>5, <2>4
    <3> QED
      BY <1>2, <1>4, <3>1, Names4 DEF RecordFiles
  <2>5. CASE j = 5
    BY <1>5, <2>5 DEF Flushing, AllFiles
  <2>6. CASE j = 6
    BY <1>5, <2>6 DEF Flushing, AllFiles
  <2> QED
    BY <2>1, <2>2, <2>3, <2>4, <2>5, <2>6
<1> QED
  BY <1>8, <1>9, BegunStmt

(* DROP INDEX begins well formed.                                            *)
LEMMA UnindexStmt ==
  ASSUME UNCHANGED mem, FilesOK(mem), NEW rel \in Names, NEW attr \in Attributes, DropIndex(rel, attr)
  PROVE  StmtOK' /\ stmt' # Idle
<1>1. PICK a, g :
        /\ a = FindAttrMetadata(rel, attr) /\ a # -1
        /\ g = Rec("attrcat", a) /\ g.indexNo # -1
        /\ stmt' = [type |-> "dropIndex", rel |-> rel, attr |-> attr,
             todo |->
               <<[do |-> "destroy", file |-> <<rel, g.indexNo>>],
                 [do |-> "update", file |-> "attrcat", rid |-> a, rec |-> [g EXCEPT !.indexNo = -1]],
                 Flushing("attrcat")>>]
        /\ UNCHANGED dropped
  BY UnindexBegins
<1>2. a \in Live(mem["attrcat"]) /\ g = Get(mem["attrcat"], a) /\ g \in AttrRecord
  <2>1. a \in Live(mem["attrcat"])
    BY <1>1, FindsAttr
  <2>2. "attrcat" \in RecordFiles
    BY DEF RecordFiles
  <2> QED
    BY <1>1, <2>1, <2>2, ReadsRecords, Names4
<1>3. PICK w : w = [g EXCEPT !.indexNo = -1]
  OBVIOUS
<1>4. w \in AttrRecord /\ w.rel = g.rel
  BY <1>2, <1>3 DEF AttrRecord
<1>5. PICK t : t = <<[do |-> "destroy", file |-> <<rel, g.indexNo>>],
                     [do |-> "update", file |-> "attrcat", rid |-> a, rec |-> w], Flushing("attrcat")>>
  OBVIOUS
<1>6. stmt' = [type |-> "dropIndex", rel |-> rel, attr |-> attr, todo |-> t]
  BY <1>1, <1>3, <1>5, Zenon
<1>7. t = [j \in 1 .. 3 |-> t[j]] /\ 3 \in Nat \ {0}
  BY <1>5
<1>8. Wellformed("dropIndex", rel, t, 3)
  BY <1>6, <1>7 DEF Wellformed, StmtForm
<1>9. ASSUME NEW j \in 1 .. 3
      PROVE  \/ /\ t[j].do = "update" /\ t[j].file \in RecordFiles
                /\ t[j].rid \in Live(mem[t[j].file]) /\ t[j].rec \in RecordOf[t[j].file]
                /\ t[j].rec.rel = Get(mem[t[j].file], t[j].rid).rel
             \/ t[j].do = "force" /\ t[j].file \in AllFiles
             \/ t[j].do = "destroy" /\ t[j].file[1] = rel
  <2>1. CASE j = 1
    BY <1>5, <2>1
  <2>2. CASE j = 2
    <3>1. t[j] = [do |-> "update", file |-> "attrcat", rid |-> a, rec |-> w]
      BY <1>5, <2>2
    <3> QED
      BY <1>2, <1>4, <3>1, Names4 DEF RecordFiles
  <2>3. CASE j = 3
    BY <1>5, <2>3 DEF Flushing, AllFiles
  <2> QED
    BY <2>1, <2>2, <2>3
<1> QED
  BY <1>8, <1>9, BegunStmt

(* The beginning of a statement changes nothing of any relation.             *)
LEMMA BeginSame ==
  ASSUME UNCHANGED <<mem, disk, files, declared, indexed>>, NEW rel
  PROVE  /\ Consistent(rel) => Consistent(rel)'
         /\ Attrs(rel)' = Attrs(rel) /\ Rels(rel)' = Rels(rel)
         /\ FilesOf(rel)' = FilesOf(rel) /\ IndexedOf(rel)' = IndexedOf(rel)
         /\ SameView(rel)
         /\ \A f : AgreeOn(f, rel) => AgreeOn(f, rel)'
BY DEF Consistent, Attrs, Rels, FilesOf, IndexedOf, AgreeOn, SameView

(* The first of the plan's items is to be done.                              *)
LEMMA WholePlan ==
  ASSUME NEW P, NEW n \in Nat, P = [j \in 1 .. n |-> P[j]], stmt'.todo = P
  PROVE  Remaining(P, n, 0)'
<1>1. n - 0 = n /\ \A j \in 1 .. n : j + 0 = j
  OBVIOUS
<1>2. [j \in 1 .. n - 0 |-> P[j + 0]] = [j \in 1 .. n |-> P[j]]
  BY <1>1
<1> QED
  BY <1>2 DEF Remaining

(* CREATE TABLE begins with nothing of the relation in the catalogs.         *)
LEMMA CreateOwn ==
  ASSUME FilesOK(mem), UNCHANGED <<mem, disk, files, declared, indexed>>,
         NEW rel \in Names, NEW D \in Declarations, CreateTable(rel, D), Settled(rel)
  PROVE  InStatement(rel)'
<1> DEFINE n == Len(D)
<1>1. /\ stmt' = [type |-> "createTable", rel |-> rel, attrs |-> D, todo |-> CreatePlan(rel, D)]
      /\ FindRelMetadata(rel) = -1 /\ UNCHANGED dropped
  BY CreateBegins
<1>2. n \in Nat
  BY CreatingSame
<1>3. Consistent(rel) /\ Contents(rel)
  BY DEF Settled
<1>4. DOMAIN Rels(rel) = {}
  <2>1. DOMAIN Rels(rel) = Of(mem["relcat"], rel)
    BY ViewParts DEF Rels
  <2> QED
    BY <1>1, <1>3, <2>1, FindsRel
<1>5. rel \notin DOMAIN declared
  <2> SUFFICES ASSUME rel \in DOMAIN declared
               PROVE  FALSE
    OBVIOUS
  <2>1. Known(rel, declared[rel], Attrs(rel), Rels(rel), FilesOf(rel), IndexedOf(rel), ~dropped)
    BY <1>3 DEF Contents
  <2>2. \E r \in DOMAIN Rels(rel) : TRUE
    BY <2>1 DEF Known
  <2> QED
    BY <1>4, <2>2
<1>6. DOMAIN Attrs(rel) = {} /\ FilesOf(rel) = {} /\ IndexedOf(rel) = {}
  BY <1>3, <1>5 DEF Contents
<1>7. PICK rho : rho = [i \in 1 .. 0 |-> 0]
  OBVIOUS
<1>8. /\ rho \in [1 .. 0 -> DOMAIN Attrs(rel)] /\ Described(Attrs(rel), D, rho, 0)
  BY <1>6, <1>7 DEF Described
<1>9. Remaining(CreatePlan(rel, D), n + 6, 0)'
  <2>1. n + 6 \in Nat /\ CreatePlan(rel, D) = [j \in 1 .. n + 6 |-> CreatePlan(rel, D)[j]]
    BY <1>2 DEF CreatePlan
  <2>2. stmt'.todo = CreatePlan(rel, D)
    BY <1>1
  <2> QED
    BY <2>1, <2>2, WholePlan
<1>10. /\ Consistent(rel)' /\ Attrs(rel)' = Attrs(rel) /\ Rels(rel)' = Rels(rel)
       /\ FilesOf(rel)' = FilesOf(rel) /\ IndexedOf(rel)' = IndexedOf(rel)
  BY <1>3, BeginSame
<1>11. InsertsAscend(rho, 0, 0, n)'
  BY DEF InsertsAscend, Ascending
<1>12. FlushedUpTo(0, n + 1, rel)'
  <2>1. \A j \in 1 .. 4 : ~(0 >= n + 1 + j)
    BY <1>2
  <2> QED
    BY <2>1 DEF FlushedUpTo
<1>13. WithIndex(Attrs(rel)) = {}
  BY <1>6 DEF WithIndex
<1>14. Creating(rel, D, 0)'
  <2>1. (IF 0 < n THEN 0 ELSE n) = 0 /\ 0 <= n /\ 0 < n + 6
    BY <1>2
  <2> HIDE DEF n
  <2>2. /\ Remaining(CreatePlan(rel, D), n + 6, 0)'
        /\ rel \notin DOMAIN declared' /\ IndexedOf(rel)' = {}
        /\ rho \in [1 .. 0 -> DOMAIN Attrs(rel)'] /\ Described(Attrs(rel)', D, rho, 0) /\ InsertsAscend(rho, 0, 0, n)'
        /\ WithIndex(Attrs(rel)') = {}
        /\ DOMAIN Rels(rel)' = {} /\ FilesOf(rel)' = {}
        /\ FlushedUpTo(0, n + 1, rel)'
    BY <1>4, <1>5, <1>6, <1>8, <1>9, <1>10, <1>11, <1>12, <1>13
  <2> QED
    BY <2>1, <2>2 DEF Creating, n
<1>15. 0 \in 0 .. n + 6 /\ stmt'.type = "createTable" /\ stmt'.attrs = D
  BY <1>1, <1>2
<1> QED
  BY <1>10, <1>14, <1>15 DEF InStatement

(* DROP TABLE begins with the records of the relation as they are declared.  *)
LEMMA DropOwn ==
  ASSUME FilesOK(mem), UNCHANGED <<mem, disk, files, declared, indexed>>,
         NEW rel \in Names, DropTable(rel), Settled(rel)
  PROVE  InStatement(rel)'
<1>1. PICK r, rids :
        /\ r = FindRelMetadata(rel) /\ r # -1 /\ rids = Lookup("attrcat", rel)
        /\ stmt' = [type |-> "dropTable", rel |-> rel, todo |-> DropPlan(rel, r, rids)]
        /\ dropped' = TRUE
  BY DropBegins
<1> DEFINE n == Len(rids)
<1>2. Consistent(rel) /\ Contents(rel)
  BY DEF Settled
<1>3. /\ DOMAIN Rels(rel) = Of(mem["relcat"], rel) /\ DOMAIN Attrs(rel) = Of(mem["attrcat"], rel)
      /\ EntriesFor(mem["relIndex"], rel) = Of(mem["relcat"], rel)
      /\ EntriesFor(mem["attrIndex"], rel) = Of(mem["attrcat"], rel)
  <2>1. "relcat" \in RecordFiles /\ "attrcat" \in RecordFiles
    BY DEF RecordFiles
  <2> QED
    BY <1>2, <2>1, ViewParts, Names4 DEF Rels, Attrs, Consistent
<1>4. r \in DOMAIN Rels(rel) /\ r \in Nat
  <2>1. r \in Live(mem["relcat"]) /\ r \in EntriesFor(mem["relIndex"], rel)
    BY <1>1, FindsRel
  <2>2. "relcat" \in RecordFiles
    BY DEF RecordFiles
  <2> QED
    BY <1>3, <2>1, <2>2, ReadsRecords
<1>5. rel \in DOMAIN declared
  BY <1>2, <1>4 DEF Contents
<1>6. PICK q : Table(Rels(rel), rel, Len(declared[rel]), q, Rels(rel)[q].indexCount)
               /\ Numbers(Attrs(rel), WithIndex(Attrs(rel)), Rels(rel)[q].indexCount)
               /\ FilesOf(rel) = {<<rel>>} \union FilesAt(rel, Attrs(rel), WithIndex(Attrs(rel)))
  BY <1>2, <1>5 DEF Contents, Known
<1>7. DOMAIN Rels(rel) = {r}
  BY <1>4, <1>6 DEF Table
<1>8. Distinct(Attrs(rel))
  BY <1>6 DEF Distinct, Numbers
<1>9. PICK S : S = EntriesFor(mem["attrIndex"], rel)
  OBVIOUS
<1>10. /\ n \in Nat /\ S \subseteq Nat /\ rids \in [1 .. n -> S]
       /\ \A x \in S : \E i \in 1 .. n : rids[i] = x
       /\ \A i, j \in 1 .. n : i < j => rids[i] < rids[j]
  <2>1. "attrcat" \in RecordFiles
    BY DEF RecordFiles
  <2>2. PICK m : m = Cardinality(EntriesFor(mem[IndexOf["attrcat"]], rel))
    OBVIOUS
  <2>4. S = EntriesFor(mem[IndexOf["attrcat"]], rel)
    BY <1>9, Names4
  <2>3. /\ m \in Nat /\ S \subseteq Nat /\ rids \in [1 .. m -> S] /\ Len(rids) = m
        /\ \A x \in S : \E i \in 1 .. m : rids[i] = x
        /\ \A i, j \in 1 .. m : i < j => rids[i] < rids[j]
    BY <1>1, <2>1, <2>2, <2>4, LooksUp
  <2> QED
    BY <2>3
<1>11. rids \in Seq(Nat)
  <2>1. rids \in [1 .. n -> Nat]
    BY <1>10
  <2>2. PICK m \in Nat : rids \in [1 .. m -> Nat]
    BY <1>10, <2>1
  <2> QED
    BY <2>2
<1>12. \A i, j \in 1 .. n : rids[i] = rids[j] => i = j
  <2> SUFFICES ASSUME NEW i \in 1 .. n, NEW j \in 1 .. n, rids[i] = rids[j], i # j
               PROVE  FALSE
    OBVIOUS
  <2> HIDE DEF n
  <2>1. rids[i] \in S /\ rids[j] \in S
    BY <1>10
  <2>2. rids[i] \in Nat /\ rids[j] \in Nat
    BY <1>10, <2>1
  <2>3. i < j \/ j < i
    BY <1>10
  <2> QED
    BY <1>10, <2>2, <2>3
<1>13. DOMAIN Attrs(rel) = Left(rids, 0)
  <2>1. \A i \in 1 .. n : i + 2 > 0
    BY <1>10
  <2>2. Left(rids, 0) = {rids[j] : j \in 1 .. n}
    BY <2>1 DEF Left
  <2>3. {rids[j] : j \in 1 .. n} = S
    BY <1>10
  <2> QED
    BY <1>3, <1>9, <2>2, <2>3
<1>14. Remaining(DropPlan(rel, r, rids), n + 6, 0)'
  <2>1. n + 6 \in Nat /\ DropPlan(rel, r, rids) = [j \in 1 .. n + 6 |-> DropPlan(rel, r, rids)[j]]
    BY <1>10 DEF DropPlan
  <2>2. stmt'.todo = DropPlan(rel, r, rids)
    BY <1>1
  <2> QED
    BY <2>1, <2>2, WholePlan
<1>15. /\ Consistent(rel)' /\ Attrs(rel)' = Attrs(rel) /\ Rels(rel)' = Rels(rel)
       /\ FilesOf(rel)' = FilesOf(rel)
  BY <1>2, BeginSame
<1>16. FlushedUpTo(0, n + 2, rel)'
  <2>1. \A j \in 1 .. 4 : ~(0 >= n + 2 + j)
    BY <1>10
  <2> QED
    BY <2>1 DEF FlushedUpTo
<1>17. Dropping(rel, r, rids, 0)'
  <2>1. /\ Remaining(DropPlan(rel, r, rids), n + 6, 0)'
        /\ rel \in DOMAIN declared'
        /\ \A i, j \in 1 .. n : rids[i] = rids[j] => i = j
        /\ DOMAIN Rels(rel)' = {r}
        /\ DOMAIN Attrs(rel)' = Left(rids, 0)
        /\ Distinct(Attrs(rel)')
        /\ FilesOf(rel)' = {<<rel>>} \union FilesAt(rel, Attrs(rel)', WithIndex(Attrs(rel)'))
        /\ FlushedUpTo(0, n + 2, rel)'
    BY <1>5, <1>6, <1>7, <1>8, <1>12, <1>13, <1>14, <1>15, <1>16
  <2> QED
    BY <2>1 DEF Dropping
<1>18. 0 \in 0 .. n + 6 /\ stmt'.type = "dropTable"
  BY <1>1, <1>10
<1> QED
  BY <1>4, <1>11, <1>15, <1>17, <1>18 DEF InStatement

(* The record of an attribute, at a, of the table D, and the numbers of its  *)
(* index and of the other attributes' with one, S.                           *)
Found(rel, attr, D, r, a, o, x, cnt, S) ==
  /\ D \in Declarations /\ r \in Nat /\ a \in Nat /\ o \in Nat /\ cnt \in Nat /\ S \subseteq Nat
  /\ x \in Nat \union {-1}
  /\ Altered(rel, D, r, a, attr, o, x, cnt, S)
  /\ Get(mem["attrcat"], a) = [rel |-> rel, attr |-> attr, offset |-> o, indexNo |-> x]
  /\ Get(mem["relcat"], r) = [rel |-> rel, attrCount |-> Len(D), indexCount |-> cnt]
  /\ DOMAIN Rels(rel) = {r}
  /\ Numbers(Attrs(rel), WithIndex(Attrs(rel)), cnt)
  /\ FilesOf(rel) = {<<rel>>} \union FilesAt(rel, Attrs(rel), WithIndex(Attrs(rel)))
  /\ IndexedOf(rel) = AttrsAt(Attrs(rel), WithIndex(Attrs(rel)))
  /\ attr \notin AttrsAt(Attrs(rel), S)

(* What CreateIndex and DropIndex find of a settled relation.                *)
LEMMA FoundAttr ==
  ASSUME FilesOK(mem), HistoryOK, NEW rel \in Names, NEW attr, Settled(rel),
         NEW a, a = FindAttrMetadata(rel, attr), a # -1
  PROVE  \E D, r, o, x, cnt, S : Found(rel, attr, D, r, a, o, x, cnt, S)
<1> DEFINE g == Attrs(rel)
           h == Rels(rel)
<1>1. Consistent(rel) /\ Contents(rel)
  BY DEF Settled
<1>2. a \in DOMAIN g /\ g[a] = Get(mem["attrcat"], a) /\ g[a].attr = attr
  <2>1. a \in EntriesFor(mem["attrIndex"], rel) /\ Get(mem["attrcat"], a).attr = attr
    BY FindsAttr
  <2>2. "attrcat" \in RecordFiles
    BY DEF RecordFiles
  <2>3. EntriesFor(mem["attrIndex"], rel) = Of(mem["attrcat"], rel)
    BY <1>1, <2>2, Names4 DEF Consistent
  <2> QED
    BY <2>1, <2>3, ViewParts DEF Attrs
<1>3. rel \in DOMAIN declared
  BY <1>1, <1>2 DEF Contents
<1>4. PICK D \in Declarations : D = declared[rel]
  BY <1>3 DEF HistoryOK
<1>5. PICK r \in DOMAIN h, rho \in [1 .. Len(D) -> DOMAIN g] :
         /\ Table(h, rel, Len(D), r, h[r].indexCount)
         /\ Described(g, D, rho, Len(D))
         /\ ~dropped => Ascending(rho, Len(D))
         /\ Numbers(g, WithIndex(g), h[r].indexCount)
         /\ FilesOf(rel) = {<<rel>>} \union FilesAt(rel, g, WithIndex(g))
         /\ IndexedOf(rel) = AttrsAt(g, WithIndex(g))
  <2>1. Known(rel, D, g, h, FilesOf(rel), IndexedOf(rel), ~dropped)
    BY <1>1, <1>3, <1>4 DEF Contents
  <2> HIDE DEF g, h
  <2> QED
    BY <2>1 DEF Known
<1>6. /\ \A y \in DOMAIN g : y \in Nat /\ g[y] \in AttrRecord /\ g[y].rel = rel
      /\ \A y \in DOMAIN h : y \in Nat /\ h[y] \in RelRecord /\ h[y].rel = rel
  BY RowsTyped
<1>7. h[r] = Get(mem["relcat"], r)
  BY <1>5, ViewParts DEF Rels
<1> HIDE DEF g, h
<1>8. PICK o, x, cnt, S : o = g[a].offset /\ x = g[a].indexNo /\ cnt = h[r].indexCount /\ S = WithIndex(g) \ {a}
  OBVIOUS
<1>9. o \in Nat /\ x \in Nat \union {-1} /\ cnt \in Nat /\ S \subseteq Nat /\ a \in Nat /\ r \in Nat
  BY <1>2, <1>6, <1>8 DEF AttrRecord, RelRecord, WithIndex
<1>10. g[a] = [rel |-> rel, attr |-> attr, offset |-> o, indexNo |-> x]
  BY <1>2, <1>6, <1>8 DEF AttrRecord
<1>11. h[r] = [rel |-> rel, attrCount |-> Len(D), indexCount |-> cnt] /\ DOMAIN h = {r}
  BY <1>5, <1>8 DEF Table
<1>12. Numbers(g, S, cnt)
  BY <1>5, <1>8 DEF Numbers
<1>13. attr \notin AttrsAt(g, S)
  <2> SUFFICES ASSUME NEW p \in S, g[p].attr = attr
               PROVE  FALSE
    BY DEF AttrsAt
  <2>1. p \in DOMAIN g /\ p # a
    BY <1>8 DEF WithIndex
  <2>2. PICK i \in 1 .. Len(D), j \in 1 .. Len(D) : rho[i] = p /\ rho[j] = a
    BY <1>2, <1>5, <2>1 DEF Described
  <2>3. D[i] = D[j]
    BY <1>2, <1>5, <2>2 DEF Described
  <2>4. i = j
    BY <2>3, CreatingSame
  <2> QED
    BY <2>1, <2>2, <2>4
<1>14. Altered(rel, D, r, a, attr, o, x, cnt, S)
  <2>1. /\ Table(h, rel, Len(D), r, cnt)
        /\ rho \in [1 .. Len(D) -> DOMAIN g] /\ Described(g, D, rho, Len(D)) /\ (~dropped => Ascending(rho, Len(D)))
        /\ a \in DOMAIN g /\ g[a] = [rel |-> rel, attr |-> attr, offset |-> o, indexNo |-> x]
        /\ S = WithIndex(g) \ {a}
        /\ Numbers(g, S, cnt)
        /\ rel \in DOMAIN declared /\ declared[rel] = D
    BY <1>2, <1>3, <1>4, <1>5, <1>8, <1>10, <1>12
  <2> QED
    BY <2>1 DEF Altered, g, h
<1>15. Found(rel, attr, D, r, a, o, x, cnt, S)
  <2>1. /\ Get(mem["attrcat"], a) = [rel |-> rel, attr |-> attr, offset |-> o, indexNo |-> x]
        /\ Get(mem["relcat"], r) = [rel |-> rel, attrCount |-> Len(D), indexCount |-> cnt]
        /\ DOMAIN h = {r}
        /\ Numbers(g, WithIndex(g), cnt)
        /\ FilesOf(rel) = {<<rel>>} \union FilesAt(rel, g, WithIndex(g))
        /\ IndexedOf(rel) = AttrsAt(g, WithIndex(g))
    BY <1>2, <1>5, <1>7, <1>8, <1>10, <1>11
  <2> QED
    BY <1>9, <1>13, <1>14, <2>1 DEF Found, g, h
<1> QED
  BY <1>15

(* CREATE INDEX begins with an attribute that has no index.                  *)
LEMMA IndexOwn ==
  ASSUME FilesOK(mem), HistoryOK, UNCHANGED <<mem, disk, files, declared, indexed>>,
         NEW rel \in Names, NEW attr \in Attributes, CreateIndex(rel, attr), Settled(rel)
  PROVE  InStatement(rel)'
<1>1. PICK r, a, h, g :
        /\ r = FindRelMetadata(rel) /\ a = FindAttrMetadata(rel, attr) /\ r # -1 /\ a # -1
        /\ h = Rec("relcat", r) /\ g = Rec("attrcat", a) /\ g.indexNo = -1
        /\ stmt' = [type |-> "createIndex", rel |-> rel, attr |-> attr,
             todo |->
               <<[do |-> "create", file |-> <<rel, h.indexCount>>], [do |-> "open"],
                 [do |-> "update", file |-> "relcat", rid |-> r, rec |-> [h EXCEPT !.indexCount = @ + 1]],
                 [do |-> "update", file |-> "attrcat", rid |-> a,
                  rec |-> [g EXCEPT !.indexNo = h.indexCount]],
                 Flushing("relcat"), Flushing("attrcat")>>]
        /\ UNCHANGED dropped
  BY IndexBegins
<1>2. Consistent(rel) /\ \A f \in AllFiles : AgreeOn(f, rel)
  BY DEF Settled
<1>3. PICK D, q, o, x, cnt, S : Found(rel, attr, D, q, a, o, x, cnt, S)
  BY <1>1, FoundAttr
<1>4. r = q
  <2>1. "relcat" \in RecordFiles
    BY DEF RecordFiles
  <2>2. r \in Of(mem["relcat"], rel)
    BY <1>1, <1>2, <2>1, FindsRel, Names4 DEF Consistent
  <2>3. DOMAIN Rels(rel) = Of(mem["relcat"], rel)
    BY ViewParts DEF Rels
  <2> QED
    BY <1>3, <2>2, <2>3 DEF Found
<1>5. /\ h = [rel |-> rel, attrCount |-> Len(D), indexCount |-> cnt]
      /\ g = [rel |-> rel, attr |-> attr, offset |-> o, indexNo |-> x]
  <2>1. h = Get(mem["relcat"], r) /\ g = Get(mem["attrcat"], a)
    BY <1>1 DEF Rec, Get
  <2> QED
    BY <1>3, <1>4, <2>1 DEF Found
<1>6. x = -1 /\ h.indexCount = cnt
  BY <1>1, <1>5
<1>7. /\ [h EXCEPT !.indexCount = @ + 1] = [rel |-> rel, attrCount |-> Len(D), indexCount |-> cnt + 1]
      /\ [g EXCEPT !.indexNo = h.indexCount] = [rel |-> rel, attr |-> attr, offset |-> o, indexNo |-> cnt]
  BY <1>5
<1>8. stmt'.todo = IndexPlan(rel, attr, r, a, Len(D), o, cnt)
  <2>1. stmt'.todo = <<[do |-> "create", file |-> <<rel, h.indexCount>>], [do |-> "open"],
                       [do |-> "update", file |-> "relcat", rid |-> r, rec |-> [h EXCEPT !.indexCount = @ + 1]],
                       [do |-> "update", file |-> "attrcat", rid |-> a,
                        rec |-> [g EXCEPT !.indexNo = h.indexCount]],
                       Flushing("relcat"), Flushing("attrcat")>>
    BY <1>1
  <2> QED
    BY <1>6, <1>7, <2>1, Zenon DEF IndexPlan
<1>9. Remaining(IndexPlan(rel, attr, r, a, Len(D), o, cnt), 6, 0)'
  <2>1. 6 \in Nat /\ IndexPlan(rel, attr, r, a, Len(D), o, cnt)
                     = [j \in 1 .. 6 |-> IndexPlan(rel, attr, r, a, Len(D), o, cnt)[j]]
    BY DEF IndexPlan
  <2> QED
    BY <1>8, <2>1, WholePlan
<1>10. /\ Consistent(rel)' /\ Attrs(rel)' = Attrs(rel) /\ SameView(rel)
       /\ FilesOf(rel)' = FilesOf(rel) /\ IndexedOf(rel)' = IndexedOf(rel)
       /\ \A f \in IndexFiles : AgreeOn(f, rel)'
  <2>1. \A f \in IndexFiles : f \in AllFiles
    BY DEF IndexFiles, AllFiles
  <2> QED
    BY <1>2, <2>1, BeginSame
<1>11. Altered(rel, D, r, a, attr, o, -1, cnt, S)'
  BY <1>1, <1>3, <1>4, <1>6, <1>10, AlteredSame DEF Found
<1>12. S = WithIndex(Attrs(rel))
  BY <1>3, <1>6 DEF Found, Altered, WithIndex
<1>13. \A p \in S : Attrs(rel)[p].indexNo < cnt
  BY <1>3, <1>12 DEF Found, Numbers
<1>14. IndexingAt(rel, attr, 0, D, r, a, o, cnt, S)'
  <2>1. /\ FilesOf(rel)' = {<<rel>>} \union FilesAt(rel, Attrs(rel)', S) \union {}
        /\ IndexedOf(rel)' = AttrsAt(Attrs(rel)', S)
        /\ \A p \in S : Attrs(rel)'[p].indexNo < cnt
    BY <1>3, <1>10, <1>12, <1>13 DEF Found
  <2>2. 0 < 4 /\ 0 < 3 /\ 0 < 1 /\ ~(0 >= 5) /\ ~(0 >= 6)
    OBVIOUS
  <2> QED
    BY <1>9, <1>10, <1>11, <2>1, <2>2 DEF IndexingAt
<1>15. Indexing(rel, attr, 0)'
  <2>1. D \in Declarations /\ r \in Nat /\ a \in Nat /\ o \in Nat /\ cnt \in Nat /\ S \in SUBSET Nat
    BY <1>3, <1>4 DEF Found
  <2> QED
    BY <1>14, <2>1 DEF Indexing
<1>16. 0 \in 0 .. 6 /\ stmt'.type = "createIndex" /\ stmt'.attr = attr
  BY <1>1
<1> QED
  BY <1>10, <1>15, <1>16 DEF InStatement

(* DROP INDEX begins with an attribute that has one.                         *)
LEMMA UnindexOwn ==
  ASSUME FilesOK(mem), HistoryOK, UNCHANGED <<mem, disk, files, declared, indexed>>,
         NEW rel \in Names, NEW attr \in Attributes, DropIndex(rel, attr), Settled(rel)
  PROVE  InStatement(rel)'
<1>1. PICK a, g :
        /\ a = FindAttrMetadata(rel, attr) /\ a # -1
        /\ g = Rec("attrcat", a) /\ g.indexNo # -1
        /\ stmt' = [type |-> "dropIndex", rel |-> rel, attr |-> attr,
             todo |->
               <<[do |-> "destroy", file |-> <<rel, g.indexNo>>],
                 [do |-> "update", file |-> "attrcat", rid |-> a, rec |-> [g EXCEPT !.indexNo = -1]],
                 Flushing("attrcat")>>]
        /\ UNCHANGED dropped
  BY UnindexBegins
<1>2. Consistent(rel) /\ \A f \in AllFiles : AgreeOn(f, rel)
  BY DEF Settled
<1>3. PICK D, r, o, x, cnt, S : Found(rel, attr, D, r, a, o, x, cnt, S)
  BY <1>1, FoundAttr
<1>5. g = [rel |-> rel, attr |-> attr, offset |-> o, indexNo |-> x]
  <2>1. g = Get(mem["attrcat"], a)
    BY <1>1 DEF Rec, Get
  <2> QED
    BY <1>3, <2>1 DEF Found
<1>6. x # -1 /\ g.indexNo = x /\ x \in Nat
  BY <1>1, <1>3, <1>5 DEF Found
<1>7. [g EXCEPT !.indexNo = -1] = [rel |-> rel, attr |-> attr, offset |-> o, indexNo |-> -1]
  BY <1>5
<1>8. stmt'.todo = DropIndexPlan(rel, attr, a, o, x)
  <2>1. stmt'.todo = <<[do |-> "destroy", file |-> <<rel, g.indexNo>>],
                       [do |-> "update", file |-> "attrcat", rid |-> a, rec |-> [g EXCEPT !.indexNo = -1]],
                       Flushing("attrcat")>>
    BY <1>1
  <2> QED
    BY <1>6, <1>7, <2>1, Zenon DEF DropIndexPlan
<1>9. Remaining(DropIndexPlan(rel, attr, a, o, x), 3, 0)'
  <2>1. 3 \in Nat /\ DropIndexPlan(rel, attr, a, o, x) = [j \in 1 .. 3 |-> DropIndexPlan(rel, attr, a, o, x)[j]]
    BY DEF DropIndexPlan
  <2> QED
    BY <1>8, <2>1, WholePlan
<1>10. /\ Consistent(rel)' /\ Attrs(rel)' = Attrs(rel) /\ SameView(rel)
       /\ FilesOf(rel)' = FilesOf(rel) /\ IndexedOf(rel)' = IndexedOf(rel)
       /\ \A f \in IndexFiles \union {"relcat"} : AgreeOn(f, rel)'
  <2>1. \A f \in IndexFiles \union {"relcat"} : f \in AllFiles
    BY DEF IndexFiles, AllFiles
  <2> QED
    BY <1>2, <2>1, BeginSame
<1>11. Altered(rel, D, r, a, attr, o, x, cnt, S)'
  BY <1>1, <1>3, <1>10, AlteredSame DEF Found
<1>12. /\ a \in DOMAIN Attrs(rel) /\ Attrs(rel)[a].indexNo = x /\ S = WithIndex(Attrs(rel)) \ {a}
       /\ a \in WithIndex(Attrs(rel))
  BY <1>3, <1>6 DEF Found, Altered, WithIndex
<1>13. x < cnt /\ \A p \in S : Attrs(rel)[p].indexNo # x
  BY <1>3, <1>12 DEF Found, Numbers
<1>14. /\ FilesAt(rel, Attrs(rel), WithIndex(Attrs(rel))) = FilesAt(rel, Attrs(rel), S) \union {<<rel, x>>}
       /\ AttrsAt(Attrs(rel), WithIndex(Attrs(rel))) = AttrsAt(Attrs(rel), S) \union {attr}
  <2>1. PICK W, w : W = WithIndex(Attrs(rel)) /\ w = Attrs(rel)
    OBVIOUS
  <2>2. W = S \union {a} /\ w[a].indexNo = x /\ w[a].attr = attr
    BY <1>3, <1>12, <2>1 DEF Found, Altered
  <2>3. FilesAt(rel, w, W) = FilesAt(rel, w, S) \union {<<rel, x>>}
    BY <2>2 DEF FilesAt
  <2>4. AttrsAt(w, W) = AttrsAt(w, S) \union {attr}
    BY <2>2 DEF AttrsAt
  <2> QED
    BY <2>1, <2>3, <2>4
<1>15. UnindexingAt(rel, attr, 0, D, r, a, o, x, cnt, S)'
  <2>1. /\ FilesOf(rel)' = {<<rel>>} \union FilesAt(rel, Attrs(rel)', S) \union {<<rel, x>>}
        /\ IndexedOf(rel)' = AttrsAt(Attrs(rel)', S) \union {attr}
        /\ attr \notin AttrsAt(Attrs(rel)', S)
        /\ x < cnt /\ \A p \in S : Attrs(rel)'[p].indexNo # x
    <3>1. FilesOf(rel) = {<<rel>>} \union FilesAt(rel, Attrs(rel), WithIndex(Attrs(rel)))
      BY <1>3 DEF Found
    <3>2. IndexedOf(rel) = AttrsAt(Attrs(rel), WithIndex(Attrs(rel))) /\ attr \notin AttrsAt(Attrs(rel), S)
      BY <1>3 DEF Found
    <3> QED
      BY <1>10, <1>13, <1>14, <3>1, <3>2
  <2>2. 0 < 2 /\ 0 < 1 /\ ~(0 >= 3)
    OBVIOUS
  <2> QED
    BY <1>9, <1>10, <1>11, <2>1, <2>2 DEF UnindexingAt
<1>16. Unindexing(rel, attr, 0)'
  <2>1. D \in Declarations /\ r \in Nat /\ a \in Nat /\ o \in Nat /\ x \in Nat /\ cnt \in Nat /\ S \in SUBSET Nat
    BY <1>3, <1>6 DEF Found
  <2> QED
    BY <1>15, <2>1 DEF Unindexing
<1>17. 0 \in 0 .. 3 /\ stmt'.type = "dropIndex" /\ stmt'.attr = attr
  BY <1>1
<1> QED
  BY <1>10, <1>16, <1>17 DEF InStatement

(* The beginning of a statement leaves the other relations settled.          *)
LEMMA BeginOther ==
  ASSUME UNCHANGED <<mem, disk, files, declared, indexed>>, dropped => dropped', NEW rel, Settled(rel)
  PROVE  Settled(rel)'
<1>1. /\ Consistent(rel)' /\ SameView(rel)
      /\ FilesOf(rel)' = FilesOf(rel) /\ IndexedOf(rel)' = IndexedOf(rel)
      /\ \A f \in AllFiles : AgreeOn(f, rel)'
  BY BeginSame DEF Settled
<1>2. Contents(rel)'
  BY <1>1, ContentsBy DEF Settled
<1> QED
  BY <1>1, <1>2 DEF Settled

(* The beginning of a statement keeps the invariant.                         *)
LEMMA StatementInv ==
  ASSUME Inv, Statement
  PROVE  Inv'
<1>1. /\ UNCHANGED <<mem, disk, files, db, declared, indexed, broken, failed, headers>>
      /\ db = "open" /\ stmt = Idle
  BY DEF Statement, Ready
<1>2. FilesOK(mem) /\ FilesOK(disk) /\ Within(disk, mem) /\ HistoryOK /\ HeadersOK /\ LogOK
  BY DEF Inv
<1>3. PICK rel \in Names :
         \/ \E d \in Declarations : CreateTable(rel, d)
         \/ DropTable(rel)
         \/ \E attr \in Attributes : CreateIndex(rel, attr) \/ DropIndex(rel, attr)
  BY DEF Statement
<1>4. StmtOK' /\ stmt' # Idle
  BY <1>1, <1>2, <1>3, CreateStmt, DropStmt, IndexStmt, UnindexStmt
<1>5. stmt'.rel = rel /\ (dropped' = dropped \/ dropped' = TRUE)
  <2>1. ASSUME NEW d \in Declarations, CreateTable(rel, d)
        PROVE  stmt'.rel = rel /\ dropped' = dropped
    <3>1. /\ stmt' = [type |-> "createTable", rel |-> rel, attrs |-> d, todo |-> CreatePlan(rel, d)]
          /\ UNCHANGED dropped
      BY <2>1, CreateBegins
    <3> QED
      BY <3>1
  <2>2. ASSUME DropTable(rel)
        PROVE  stmt'.rel = rel /\ dropped' = TRUE
    <3>1. PICK r, rids : /\ stmt' = [type |-> "dropTable", rel |-> rel, todo |-> DropPlan(rel, r, rids)]
                         /\ dropped' = TRUE
      BY <1>2, <2>2, DropBegins
    <3> QED
      BY <3>1
  <2>3. ASSUME NEW attr \in Attributes, CreateIndex(rel, attr)
        PROVE  stmt'.rel = rel /\ dropped' = dropped
    <3>1. PICK t : stmt' = [type |-> "createIndex", rel |-> rel, attr |-> attr, todo |-> t] /\ UNCHANGED dropped
      BY <2>3, Zenon DEF CreateIndex
    <3> QED
      BY <3>1
  <2>4. ASSUME NEW attr \in Attributes, DropIndex(rel, attr)
        PROVE  stmt'.rel = rel /\ dropped' = dropped
    <3>1. PICK t : stmt' = [type |-> "dropIndex", rel |-> rel, attr |-> attr, todo |-> t] /\ UNCHANGED dropped
      BY <2>4, Zenon DEF DropIndex
    <3> QED
      BY <3>1
  <2> QED
    BY <1>3, <2>1, <2>2, <2>3, <2>4
<1>6. dropped' \in BOOLEAN /\ (dropped => dropped') /\ (~dropped' => ~dropped)
  <2>1. dropped \in BOOLEAN
    BY <1>2 DEF HistoryOK
  <2>2. CASE dropped' = dropped
    BY <2>1, <2>2
  <2>3. CASE dropped' = TRUE
    <3>1. dropped'
      BY <2>3
    <3> QED
      BY <2>3, <3>1
  <2> QED
    BY <1>5, <2>2, <2>3
<1>7. Settled(rel) => InStatement(rel)'
  BY <1>1, <1>2, <1>3, CreateOwn, DropOwn, IndexOwn, UnindexOwn
<1>8. RelationsOK'
  <2> SUFFICES ASSUME NEW q \in Names \ broken
               PROVE  IF stmt'.rel = q THEN InStatement(q)' ELSE Settled(q)'
    BY <1>1, <1>4 DEF RelationsOK
  <2>1. Settled(q)
    BY <1>1 DEF Inv, RelationsOK
  <2>2. q # rel => Settled(q)'
    BY <1>1, <1>6, <2>1, BeginOther
  <2> QED
    BY <1>5, <1>7, <2>1, <2>2
<1>9. HistoryOK'
  BY <1>1, <1>2, <1>6 DEF HistoryOK
<1>10. HeadersOK'
  BY <1>1, <1>2, <1>6 DEF HeadersOK
<1>11. LogOK' /\ FailsOnlyWhenBroken'
  BY <1>1 DEF Inv, LogOK, FailsOnlyWhenBroken
<1>12. FilesOK(mem') /\ FilesOK(disk') /\ Within(disk', mem')
  BY <1>1, <1>2
<1> QED
  BY <1>4, <1>8, <1>9, <1>10, <1>11, <1>12 DEF Inv

-------------------------------------------------------------------------------
(* Between statements the relations are intact.                              *)

(* A finite set and one in bijection with it have as many members.           *)
LEMMA OneToOne ==
  ASSUME NEW S, IsFiniteSet(S), NEW T, NEW f \in [S -> T],
         \A x, y \in S : f[x] = f[y] => x = y, \A t \in T : \E x \in S : f[x] = t
  PROVE  IsFiniteSet(T) /\ Cardinality(T) = Cardinality(S)
<1>1. f \in Bijection(S, T)
  BY DEF Bijection, Injection, Surjection, IsInjective
<1> QED
  BY <1>1, FS_Bijection DEF ExistsBijection

(* The image of a finite set is finite.                                      *)
LEMMA ImageFinite ==
  ASSUME NEW S, IsFiniteSet(S), NEW f
  PROVE  IsFiniteSet({f[x] : x \in S})
<1> DEFINE T == {f[x] : x \in S}
           F == [x \in S |-> f[x]]
<1>1. F \in Surjection(S, T)
  BY DEF Surjection
<1> QED
  BY <1>1, FS_Surjection

(* Nothing is left of a settled relation that is not declared.               *)
LEMMA NoneUndeclared ==
  ASSUME FilesOK(mem), NEW rel, Settled(rel), rel \notin DOMAIN declared
  PROVE  RidsWith("relcat", rel) = {} /\ RidsWith("attrcat", rel) = {} /\ FilesOf(rel) = {}
<1>1. DOMAIN Rels(rel) = {} /\ DOMAIN Attrs(rel) = {} /\ FilesOf(rel) = {}
  BY DEF Settled, Contents
<1>2. RidsWith("relcat", rel) = Of(mem["relcat"], rel) /\ RidsWith("attrcat", rel) = Of(mem["attrcat"], rel)
  BY ReadsRecords DEF RecordFiles
<1> QED
  BY <1>1, <1>2, ViewParts DEF Rels, Attrs

(* The records A of the attributes of D, and those of them with an index, W. *)
RowsAre(A, W, g, D, cnt, rel) ==
  /\ Cardinality(DOMAIN g) = Len(D)
  /\ {<<a.offset, a.attr>> : a \in A} = {<<i, D[i]>> : i \in 1 .. Len(D)}
  /\ \A a \in W : a.indexNo < cnt
  /\ {a.attr : a \in W} = AttrsAt(g, WithIndex(g))
  /\ {<<rel, a.indexNo>> : a \in W} = FilesAt(rel, g, WithIndex(g))
  /\ Cardinality({a.indexNo : a \in W}) = Cardinality(W)

(* What Intact says of the attributes follows from Described and Numbers.    *)
LEMMA RowsOfTable ==
  ASSUME NEW D, Len(D) \in Nat, NEW g, NEW rho, Described(g, D, rho, Len(D)), NEW cnt,
         Numbers(g, WithIndex(g), cnt), NEW A, A = {g[x] : x \in DOMAIN g}, NEW W, W = {a \in A : a.indexNo # -1}, NEW rel
  PROVE  RowsAre(A, W, g, D, cnt, rel)
<1> DEFINE n == Len(D)
<1>1. IsFiniteSet(1 .. n) /\ Cardinality(1 .. n) = n
  <2>1. PICK m : m = n
    OBVIOUS
  <2>3. m \in Nat
    BY <2>1
  <2>2. IsFiniteSet(1 .. m) /\ Cardinality(1 .. m) = m
    BY <2>3, FS_Interval
  <2> QED
    BY <2>1, <2>2
<1>2. IsFiniteSet(DOMAIN g) /\ Cardinality(DOMAIN g) = n
  BY <1>1, OneToOne DEF Described
<1>3. {<<a.offset, a.attr>> : a \in A} = {<<i, D[i]>> : i \in 1 .. n}
  <2>1. ASSUME NEW a \in A
        PROVE  <<a.offset, a.attr>> \in {<<i, D[i]>> : i \in 1 .. n}
    <3>1. PICK x \in DOMAIN g : a = g[x]
      OBVIOUS
    <3>2. PICK i \in 1 .. n : rho[i] = x
      BY DEF Described
    <3>3. a.offset = i /\ a.attr = D[i]
      BY <3>1, <3>2 DEF Described
    <3> QED
      BY <3>3
  <2>2. ASSUME NEW i \in 1 .. n
        PROVE  \E a \in A : <<a.offset, a.attr>> = <<i, D[i]>>
    <3>1. rho[i] \in DOMAIN g /\ g[rho[i]].attr = D[i] /\ g[rho[i]].offset = i
      BY DEF Described
    <3> QED
      BY <3>1
  <2> QED
    BY <2>1, <2>2
<1>4. W = {g[x] : x \in WithIndex(g)}
  BY DEF WithIndex
<1>5. \A a \in W : a.indexNo < cnt
  BY <1>4 DEF Numbers
<1>6. {a.attr : a \in W} = AttrsAt(g, WithIndex(g))
  BY <1>4 DEF AttrsAt
<1>7. {<<rel, a.indexNo>> : a \in W} = FilesAt(rel, g, WithIndex(g))
  <2>1. ASSUME NEW a \in W
        PROVE  <<rel, a.indexNo>> \in FilesAt(rel, g, WithIndex(g))
    <3>1. PICK x \in WithIndex(g) : a = g[x]
      BY <1>4
    <3> QED
      BY <3>1 DEF FilesAt
  <2>2. ASSUME NEW x \in WithIndex(g)
        PROVE  <<rel, g[x].indexNo>> \in {<<rel, a.indexNo>> : a \in W}
    <3>1. g[x] \in W
      BY <1>4
    <3> QED
      BY <3>1
  <2> QED
    BY <2>1, <2>2 DEF FilesAt
<1>8. Cardinality({a.indexNo : a \in W}) = Cardinality(W)
  <2>1. IsFiniteSet(W)
    <3>1. WithIndex(g) \subseteq DOMAIN g
      BY DEF WithIndex
    <3>2. IsFiniteSet(WithIndex(g))
      BY <1>2, <3>1, FS_Subset
    <3> QED
      BY <1>4, <3>2, ImageFinite
  <2> DEFINE N == {a.indexNo : a \in W}
             f == [a \in W |-> a.indexNo]
  <2>2. f \in [W -> N] /\ \A t \in N : \E a \in W : f[a] = t
    OBVIOUS
  <2>3. \A a, b \in W : f[a] = f[b] => a = b
    <3> TAKE a \in W, b \in W
    <3>1. PICK x \in WithIndex(g), y \in WithIndex(g) : a = g[x] /\ b = g[y]
      BY <1>4
    <3>2. f[a] = g[x].indexNo /\ f[b] = g[y].indexNo
      BY <3>1
    <3> QED
      BY <3>1, <3>2 DEF Numbers
  <2> HIDE DEF N, f
  <2>4. Cardinality(N) = Cardinality(W)
    BY <2>1, <2>2, <2>3, OneToOne
  <2> QED
    BY <2>4 DEF N
<1> QED
  BY <1>2, <1>3, <1>5, <1>6, <1>7, <1>8 DEF RowsAre

(* FillDataAttributes finds the attributes as they were declared.            *)
LEMMA FoundInOrder ==
  ASSUME FilesOK(mem), NEW rel, Consistent(rel), NEW D, Len(D) \in Nat,
         NEW rho, Described(Attrs(rel), D, rho, Len(D)), Ascending(rho, Len(D))
  PROVE  \A i \in 1 .. Len(D) : Rec("attrcat", Lookup("attrcat", rel)[i]).attr = D[i]
<1> DEFINE n == Len(D)
<1>1. "attrcat" \in RecordFiles
  BY DEF RecordFiles
<1>2. /\ DOMAIN Attrs(rel) = Of(mem["attrcat"], rel) /\ DOMAIN Attrs(rel) \subseteq Nat
      /\ \A x \in DOMAIN Attrs(rel) : Attrs(rel)[x] = Get(mem["attrcat"], x)
  <2>1. /\ DOMAIN View(mem["attrcat"], rel) = Of(mem["attrcat"], rel)
        /\ \A x \in Of(mem["attrcat"], rel) : View(mem["attrcat"], rel)[x] = Get(mem["attrcat"], x)
    BY DEF View
  <2>2. DOMAIN View(mem["attrcat"], rel) \subseteq Nat
    BY <1>1, ViewTyped
  <2> QED
    BY <2>1, <2>2 DEF Attrs
<1>3. rho \in [1 .. n -> Nat] /\ \A i, j \in 1 .. n : i < j => rho[i] < rho[j]
  BY <1>2 DEF Described, Ascending
<1>4. {rho[i] : i \in 1 .. n} = DOMAIN Attrs(rel)
  <2>1. PICK g : g = Attrs(rel)
    OBVIOUS
  <2>2. /\ \A i \in 1 .. n : rho[i] \in DOMAIN g
        /\ \A x \in DOMAIN g : \E i \in 1 .. n : rho[i] = x
    BY <2>1 DEF Described
  <2> QED
    BY <2>1, <2>2
<1>5. InOrder({rho[i] : i \in 1 .. n}) = rho
  BY <1>3, AscendingInOrder
<1>6. Lookup("attrcat", rel) = InOrder(EntriesFor(mem[IndexOf["attrcat"]], rel))
  BY <1>1, LooksUp
<1>7. EntriesFor(mem[IndexOf["attrcat"]], rel) = Of(mem["attrcat"], rel)
  BY <1>1 DEF Consistent
<1>8. Lookup("attrcat", rel) = rho
  BY <1>2, <1>4, <1>5, <1>6, <1>7
<1>9. \A i \in 1 .. n : rho[i] \in DOMAIN Attrs(rel) /\ Attrs(rel)[rho[i]].attr = D[i]
  BY DEF Described
<1>10. \A x : Rec("attrcat", x) = Get(mem["attrcat"], x)
  BY <1>1, ReadsRecords
<1> QED
  BY <1>2, <1>8, <1>9, <1>10

(* A settled relation is intact.                                             *)
LEMMA SettledIntact ==
  ASSUME FilesOK(mem), HistoryOK, NEW rel, Settled(rel)
  PROVE  Intact(rel)
<1>1. Consistent(rel) /\ Contents(rel)
  BY DEF Settled
<1>2. \A c \in RecordFiles : ToSet(Lookup(c, rel)) = RidsWith(c, rel)
  <2> TAKE c \in RecordFiles
  <2>1. ToSet(Lookup(c, rel)) = EntriesFor(mem[IndexOf[c]], rel)
    BY LooksUp
  <2>2. RidsWith(c, rel) = Of(mem[c], rel)
    BY ReadsRecords
  <2> QED
    BY <1>1, <2>1, <2>2 DEF Consistent
<1>3. CASE rel \notin DOMAIN declared
  BY <1>2, <1>3, NoneUndeclared DEF Intact
<1>4. CASE rel \in DOMAIN declared
  <2>1. PICK D \in Declarations : D = declared[rel]
    BY <1>4 DEF HistoryOK
  <2>2. Len(D) \in Nat /\ DOMAIN D = 1 .. Len(D)
    BY CreatingSame
  <2>3. PICK g, h, F : g = Attrs(rel) /\ h = Rels(rel) /\ F = FilesOf(rel)
    OBVIOUS
  <2>4. Known(rel, D, g, h, F, IndexedOf(rel), ~dropped)
    BY <1>1, <1>4, <2>1, <2>3 DEF Contents
  <2>5. PICK r \in DOMAIN h, rho \in [1 .. Len(D) -> DOMAIN g] :
           /\ Table(h, rel, Len(D), r, h[r].indexCount)
           /\ Described(g, D, rho, Len(D))
           /\ ~dropped => Ascending(rho, Len(D))
           /\ Numbers(g, WithIndex(g), h[r].indexCount)
           /\ F = {<<rel>>} \union FilesAt(rel, g, WithIndex(g))
           /\ IndexedOf(rel) = AttrsAt(g, WithIndex(g))
    BY <2>4 DEF Known
  <2>6. PICK A, W : A = {g[x] : x \in DOMAIN g} /\ W = {a \in A : a.indexNo # -1}
    OBVIOUS
  <2>7. /\ RidsWith("relcat", rel) = DOMAIN h /\ RidsWith("attrcat", rel) = DOMAIN g
        /\ \A x \in DOMAIN h : Rec("relcat", x) = h[x]
        /\ \A x \in DOMAIN g : Rec("attrcat", x) = g[x]
    <3>1. "relcat" \in RecordFiles /\ "attrcat" \in RecordFiles
      BY DEF RecordFiles
    <3>2. /\ RidsWith("relcat", rel) = Of(mem["relcat"], rel) /\ RidsWith("attrcat", rel) = Of(mem["attrcat"], rel)
          /\ \A x : Rec("relcat", x) = Get(mem["relcat"], x) /\ Rec("attrcat", x) = Get(mem["attrcat"], x)
      BY <3>1, ReadsRecords
    <3> QED
      BY <2>3, <3>2, ViewParts DEF Rels, Attrs
  <2>8. {Rec("attrcat", rid) : rid \in RidsWith("attrcat", rel)} = A
    BY <2>6, <2>7
  <2>9. /\ Cardinality(DOMAIN g) = Len(D)
        /\ {<<a.offset, a.attr>> : a \in A} = {<<i, D[i]>> : i \in 1 .. Len(D)}
        /\ \A a \in W : a.indexNo < h[r].indexCount
        /\ {a.attr : a \in W} = AttrsAt(g, WithIndex(g))
        /\ {<<rel, a.indexNo>> : a \in W} = FilesAt(rel, g, WithIndex(g))
        /\ Cardinality({a.indexNo : a \in W}) = Cardinality(W)
    <3>1. PICK cnt : cnt = h[r].indexCount
      OBVIOUS
    <3>2. Described(g, D, rho, Len(D)) /\ Numbers(g, WithIndex(g), cnt)
      BY <2>5, <3>1
    <3>3. RowsAre(A, W, g, D, cnt, rel)
      BY <2>2, <2>6, <3>2, RowsOfTable
    <3> QED
      BY <3>1, <3>3 DEF RowsAre
  <2>10. DOMAIN h = {r} /\ h[r].attrCount = Len(D) /\ Cardinality({r}) = 1
    <3>1. Cardinality({r}) = 1
      BY FS_Singleton
    <3>2. PICK cnt : cnt = h[r].indexCount
      OBVIOUS
    <3>3. h = [rid \in {r} |-> [rel |-> rel, attrCount |-> Len(D), indexCount |-> cnt]]
      BY <2>5, <3>2 DEF Table
    <3> QED
      BY <3>1, <3>3
  <2>11. dropped \/ \A i \in 1 .. Len(D) : Rec("attrcat", Lookup("attrcat", rel)[i]).attr = D[i]
    BY <1>1, <2>2, <2>3, <2>5, FoundInOrder
  <2>12. {x[2] : x \in {y \in indexed : y[1] = rel}} = {a.attr : a \in W}
    BY <2>5, <2>9 DEF IndexedOf
  <2>13. /\ Cardinality(RidsWith("relcat", rel)) = 1
         /\ \A rid \in RidsWith("relcat", rel) :
              Rec("relcat", rid).attrCount = Len(D) /\ \A a \in W : a.indexNo < Rec("relcat", rid).indexCount
         /\ Cardinality(RidsWith("attrcat", rel)) = Len(D)
    BY <2>7, <2>9, <2>10
  <2>14. FilesOf(rel) = {<<rel>>} \union {<<rel, a.indexNo>> : a \in W}
    BY <2>3, <2>5, <2>9
  <2> QED
    <3>1. /\ {<<a.offset, a.attr>> : a \in A} = {<<i, D[i]>> : i \in DOMAIN D}
          /\ dropped \/ \A i \in DOMAIN D : Rec("attrcat", Lookup("attrcat", rel)[i]).attr = D[i]
          /\ {a.attr : a \in W} = {x[2] : x \in {y \in indexed : y[1] = rel}}
          /\ Cardinality({a.indexNo : a \in W}) = Cardinality(W)
      BY <2>2, <2>9, <2>11, <2>12
    <3>2. /\ Cardinality(RidsWith("relcat", rel)) = 1
          /\ \A rid \in RidsWith("relcat", rel) :
               /\ Rec("relcat", rid).attrCount = Len(declared[rel])
               /\ \A a \in W : a.indexNo < Rec("relcat", rid).indexCount
          /\ Cardinality(RidsWith("attrcat", rel)) = Len(declared[rel])
          /\ {<<a.offset, a.attr>> : a \in A} = {<<i, declared[rel][i]>> : i \in DOMAIN declared[rel]}
          /\ dropped \/ \A i \in DOMAIN declared[rel] :
               Rec("attrcat", Lookup("attrcat", rel)[i]).attr = declared[rel][i]
          /\ {a.attr : a \in W} = {x[2] : x \in {y \in indexed : y[1] = rel}}
          /\ FilesOf(rel) = {<<rel>>} \union {<<rel, a.indexNo>> : a \in W}
          /\ Cardinality({a.indexNo : a \in W}) = Cardinality(W)
      BY <2>1, <2>13, <2>14, <3>1
    <3> QED
      BY <1>2, <1>4, <2>6, <2>8, <3>2, Zenon DEF Intact
<1> QED
  BY <1>3, <1>4

-------------------------------------------------------------------------------
(* The theorems.                                                             *)

(* In every state the files of the catalogs are well formed, what is left of *)
(* a statement is in order, and every relation that no interrupted statement *)
(* has harmed is as declared or as its statement has left it so far          *)
(* (SM_Manager, from OpenDb to CloseDb and across crashes).                  *)
THEOREM CatalogInvariant == Spec => []Inv
<1>1. Init => Inv
  BY InitInv
<1>2. Inv /\ [Next]_vars => Inv'
  BY StatementInv, StepInv, FinishInv, WriteInv, CrashInv, ExitInv, StutterInv DEF Next
<1> QED
  BY <1>1, <1>2, PTL DEF Spec

(* A statement that has passed its checks fails only on a relation that an   *)
(* interrupted statement has harmed, or on the one with the name of the log; *)
(* and InsertRec meets a page without room, or one never written, only when  *)
(* an old header has come back from the disk: after a crash, or an exit that *)
(* closed no catalog because the log was gone (FailsOnlyWhenBroken).  Pages  *)
(* go to disk one by one.                                                    *)
THEOREM StatementsFailOnlyWhenBroken == Spec => []FailsOnlyWhenBroken
<1>1. Inv => FailsOnlyWhenBroken
  BY DEF Inv
<1> QED
  BY <1>1, CatalogInvariant, PTL

(* Between statements the records, the index entries and the files of every  *)
(* relation that no interrupted statement has harmed agree with each other   *)
(* and with what has been declared: what CreateTable, DropTable, CreateIndex *)
(* and DropIndex have done survives a crash, also one within a force of      *)
(* another statement or within CloseDb, and one of them that a crash or an   *)
(* error has interrupted harms no other relation (TablesIntact).  It says    *)
(* nothing of the states in which the model ends: a tree torn by a crash     *)
(* with changed pages of an index not on disk, a relation read as the log.   *)
THEOREM TablesStayIntact == Spec => []TablesIntact
<1>1. Inv => TablesIntact
  <2> SUFFICES ASSUME Inv, Ready, NEW rel \in Names \ broken
               PROVE  Intact(rel)
    BY DEF TablesIntact
  <2>1. FilesOK(mem) /\ HistoryOK /\ db = "open" /\ stmt = Idle
    BY DEF Inv, Ready
  <2>2. Settled(rel)
    BY <2>1 DEF Inv, RelationsOK
  <2> QED
    BY <2>1, <2>2, SettledIntact
<1> QED
  BY <1>1, CatalogInvariant, PTL
===============================================================================
