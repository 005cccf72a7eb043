--------------------------- MODULE RecordFileProofs ---------------------------
(***************************************************************************)
(* Proofs about RecordFile, for any number of pages, slots and values.     *)
(*                                                                         *)
(* The inductive invariant is the conjunction of                           *)
(*   TypeOK            the types,                                          *)
(*   NumRecordsExact   the count of a page is that of its bitmap,          *)
(*   FreeListShape     the links of the free list,                         *)
(*   HeaderKept        what the header on disk is worth,                   *)
(*   ScanOwes          what an open scan has still to return is ahead.     *)
(* No conjunct but the first is inductive alone: deleting needs the counts *)
(* to know that the page stays visible to the scan, inserting needs the    *)
(* links to know that the next free page has room.  That the free list     *)
(* leaves no page with room out is the invariant Reached, further on.      *)
(***************************************************************************)
EXTENDS RecordFile, RecordPageProofs

(* The pages that are not full, by their counts. *)
Open == {p \in DataPages : page[p].num # RecordsPerPage}

(* A page is marked full exactly when it is; the head and the links of the *)
(* free list lead to pages that are not full; no page is led to twice.     *)
FullMarked == \A p \in DataPages : page[p].next = PageFull <=> p \notin Open
HeadOpen   == firstFree \in Open \cup {ListEnd}
LinksOpen  == \A p \in DataPages : page[p].next \in Open \cup {ListEnd, PageFull}
HeadUnlinked ==
  \A p \in DataPages : page[p].next \in DataPages => page[p].next # firstFree
LinksUnique ==
  \A p, q \in DataPages :
    page[p].next = page[q].next /\ page[p].next \in DataPages => p = q

FreeListShape ==
  FullMarked /\ HeadOpen /\ LinksOpen /\ HeadUnlinked /\ LinksUnique

(* The header on disk is the handle's unless the handle noted a change,    *)
(* and a closed file has none to note.                                     *)
HeaderKept == /\ ~hdrModified => savedFirst = firstFree
              /\ ~valid => ~hdrModified

(* What an open scan owes lies ahead of it, and nothing once it has ended. *)
ScanOwes ==
  /\ owed \subseteq Records
  /\ scan.on => /\ scan.done => owed = {}
                /\ ~scan.done => owed \subseteq Ahead
  /\ ~scan.on => owed = {}

Inv == /\ TypeOK
       /\ NumRecordsExact
       /\ FreeListShape
       /\ HeaderKept
       /\ ScanOwes

-------------------------------------------------------------------------------
(* The counts of a file in Inv are those of its bitmaps. *)
LEMMA PagesCounted ==
  ASSUME NumRecordsExact
  PROVE  \A p \in DataPages : Counted(page[p])
BY DEF NumRecordsExact, Counted, UsedSlots

(* A record lies on a page of the file that counts it. *)
LEMMA RecordsCounted ==
  ASSUME TypeOK, NumRecordsExact
  PROVE  \A r \in Records :
           /\ r \in Rid /\ r[1] \in DataPages /\ r[2] \in Slots
           /\ Contents[r] = page[r[1]].rec[r[2]]
           /\ page[r[1]].rec[r[2]] \in Val
           /\ page[r[1]].num > 0
<1> SUFFICES ASSUME NEW r \in Records
             PROVE  /\ r \in Rid /\ r[1] \in DataPages /\ r[2] \in Slots
                    /\ Contents[r] = page[r[1]].rec[r[2]]
                    /\ page[r[1]].rec[r[2]] \in Val
                    /\ page[r[1]].num > 0
  OBVIOUS
<1>1. r \in Rid /\ r[2] \in Slots
  BY DEF Records, Rid
<1>2. r[1] \in DataPages /\ Contents[r] = page[r[1]].rec[r[2]]
  BY <1>1 DEF Records, Contents
<1>3. page[r[1]].rec[r[2]] \in Val
  BY <1>1, <1>2 DEF Records, TypeOK, PageRec
<1>4. Counted(page[r[1]]) /\ page[r[1]].rec[r[2]] # Empty
  BY <1>2, <1>3, PagesCounted, PageAssumption
<1>5. page[r[1]].num \in 0 .. RecordsPerPage /\ page[r[1]].num # 0
  BY <1>1, <1>4, CountTests
<1> QED
  BY <1>1, <1>2, <1>3, <1>5, PageAssumption

(* A scan keeps what it owes ahead of it when a page edit leaves the       *)
(* records it owes as they are, and the pages they are on counted.         *)
LEMMA OwedStayAhead ==
  ASSUME TypeOK, ScanOwes, UNCHANGED scan, DataPages \subseteq DataPages',
         owed' \subseteq owed, owed' \subseteq Records',
         \A q \in owed' : Contents'[q] \in scan.match,
         \A q \in owed' : page'[q[1]].num > 0
  PROVE  ScanOwes'
<1>1. ASSUME scan.on, ~scan.done
      PROVE  owed' \subseteq Ahead'
  BY <1>1 DEF ScanOwes, Ahead, PagesAfter
<1> QED
  BY <1>1 DEF ScanOwes

-------------------------------------------------------------------------------
LEMMA InitInv == Init => Inv
<1> SUFFICES ASSUME Init PROVE Inv
  OBVIOUS
<1> USE DEF Init, DataPages
<1>1. DataPages = {}
  OBVIOUS
<1>2. TypeOK
  <2>1. page \in [DataPages -> PageRec]
    BY <1>1
  <2>2. scan \in [on : BOOLEAN, done : BOOLEAN, page : 0 .. MaxPages,
                  slot : 0 .. RecordsPerPage, np : 0 .. MaxPages,
                  match : SUBSET Val]
    BY MaxPagesAssumption, PageAssumption DEF NoScan
  <2>3. numPages \in 0 .. MaxPages /\ firstFree \in Int /\ savedFirst \in Int
    BY MaxPagesAssumption DEF ListEnd
  <2>4. owed \subseteq Rid /\ valid \in BOOLEAN /\ hdrModified \in BOOLEAN
    OBVIOUS
  <2> HIDE DEF Init, DataPages
  <2> QED
    BY <2>1, <2>2, <2>3, <2>4 DEF TypeOK
<1>3. NumRecordsExact
  BY <1>1 DEF NumRecordsExact
<1>4. FreeListShape
  BY <1>1 DEF FreeListShape, FullMarked, HeadOpen, LinksOpen, HeadUnlinked,
              LinksUnique
<1> QED
  BY <1>2, <1>3, <1>4 DEF Inv, HeaderKept, ScanOwes, NoScan

-------------------------------------------------------------------------------
(* The fields of an edited page. *)
LEMMA InsertedFields ==
  ASSUME NEW pg \in PageRec, NEW s \in Slots, NEW v \in Val
  PROVE  /\ InsertInto(pg, s, v) \in PageRec
         /\ InsertInto(pg, s, v).num = pg.num + 1
         /\ InsertInto(pg, s, v).rec = [pg.rec EXCEPT ![s] = v]
         /\ InsertInto(pg, s, v).next =
              IF pg.num + 1 = RecordsPerPage THEN PageFull ELSE pg.next
<1> DEFINE next == IF pg.num + 1 = RecordsPerPage THEN PageFull ELSE pg.next
<1>1. next \in Int
  BY DEF PageRec, PageFull
<1>2. InsertInto(pg, s, v) =
        [pg EXCEPT !.rec[s] = v, !.num = pg.num + 1, !.next = next]
  BY DEF InsertInto
<1> HIDE DEF next
<1>3. InsertInto(pg, s, v) = [num |-> pg.num + 1, next |-> next,
                              rec |-> [pg.rec EXCEPT ![s] = v]]
  BY <1>2 DEF PageRec
<1>4. [pg.rec EXCEPT ![s] = v] \in [Slots -> Val \cup {Empty}]
  BY DEF PageRec
<1>5. InsertInto(pg, s, v) \in PageRec
  BY <1>1, <1>3, <1>4 DEF PageRec
<1> QED
  BY <1>3, <1>5 DEF next

LEMMA DeletedFields ==
  ASSUME NEW pg \in PageRec, NEW s \in Slots, NEW ff \in Int
  PROVE  /\ DeleteFrom(pg, s, ff) \in PageRec
         /\ DeleteFrom(pg, s, ff).num = pg.num - 1
         /\ DeleteFrom(pg, s, ff).rec = [pg.rec EXCEPT ![s] = Empty]
         /\ DeleteFrom(pg, s, ff).next =
              IF pg.num = RecordsPerPage THEN ff ELSE pg.next
<1> DEFINE next == IF pg.num = RecordsPerPage THEN ff ELSE pg.next
<1>1. next \in Int
  BY DEF PageRec
<1>2. DeleteFrom(pg, s, ff) =
        [pg EXCEPT !.rec[s] = Empty, !.num = pg.num - 1, !.next = next]
  BY DEF DeleteFrom
<1> HIDE DEF next
<1>3. DeleteFrom(pg, s, ff) = [num |-> pg.num - 1, next |-> next,
                               rec |-> [pg.rec EXCEPT ![s] = Empty]]
  BY <1>2 DEF PageRec
<1>4. [pg.rec EXCEPT ![s] = Empty] \in [Slots -> Val \cup {Empty}]
  BY DEF PageRec
<1>5. DeleteFrom(pg, s, ff) \in PageRec
  BY <1>1, <1>3, <1>4 DEF PageRec
<1> QED
  BY <1>3, <1>5 DEF next

LEMMA OverwrittenFields ==
  ASSUME NEW pg \in PageRec, NEW s \in Slots, NEW v \in Val
  PROVE  /\ PutAt(pg, s, v) \in PageRec
         /\ PutAt(pg, s, v).num = pg.num
         /\ PutAt(pg, s, v).next = pg.next
         /\ PutAt(pg, s, v).rec = [pg.rec EXCEPT ![s] = v]
<1>1. PutAt(pg, s, v) =
        [num |-> pg.num, next |-> pg.next, rec |-> [pg.rec EXCEPT ![s] = v]]
  BY DEF PutAt, PageRec
<1>2. [pg.rec EXCEPT ![s] = v] \in [Slots -> Val \cup {Empty}]
  BY DEF PageRec
<1>3. PutAt(pg, s, v) \in PageRec
  BY <1>1, <1>2 DEF PageRec
<1> QED
  BY <1>1, <1>3

(* A page just allocated counts no record and has none. *)
LEMMA BlankPageCounted == BlankPage \in PageRec /\ Counted(BlankPage)
<1>1. BlankPage \in PageRec
  BY DEF BlankPage, PageRec, ListEnd
<1>2. UsedSlots(BlankPage) = {}
  BY DEF BlankPage, UsedSlots
<1> QED
  BY <1>1, <1>2, FS_EmptySet DEF Counted, BlankPage

-------------------------------------------------------------------------------
LEMMA InsertInNewPageInv ==
  ASSUME Inv, NEW v \in Val, InsertInNewPage(v)
  PROVE  Inv'
<1> DEFINE n == numPages + 1
           pg == InsertInto(BlankPage, 0, v)
<1> USE DEF Inv
<1>1. /\ pg \in PageRec /\ pg.num = 1 /\ Counted(pg)
      /\ pg.next = IF 1 = RecordsPerPage THEN PageFull ELSE ListEnd
  <2>1. 0 \in Slots
    BY PageAssumption DEF Slots
  <2>2. /\ pg \in PageRec
        /\ pg.num = BlankPage.num + 1
        /\ pg.rec = [BlankPage.rec EXCEPT ![0] = v]
        /\ pg.next = IF BlankPage.num + 1 = RecordsPerPage THEN PageFull
                                                   ELSE BlankPage.next
    BY <2>1, BlankPageCounted, InsertedFields
  <2>3. Counted(pg)
    BY <2>1, <2>2, BlankPageCounted, CountAfterInsert
       DEF BlankPage, SlotArrays
  <2> QED
    BY <2>2, <2>3 DEF BlankPage
<1>2. /\ numPages \in Nat /\ n \in Nat /\ n <= MaxPages
      /\ DataPages' = DataPages \cup {n} /\ n \notin DataPages
      /\ page' = [q \in DataPages' |-> IF q = n THEN pg ELSE page[q]]
      /\ firstFree' = IF 1 = RecordsPerPage THEN ListEnd ELSE n
      /\ firstFree = ListEnd
      /\ valid /\ valid' /\ hdrModified' = TRUE /\ UNCHANGED <<savedFirst, scan, owed>>
  BY MaxPagesAssumption
     DEF InsertInNewPage, TypeOK, DataPages, FirstFreeAfterInsert, BlankPage,
         scanVars
<1> HIDE DEF pg, n
<1>3. TypeOK'
  <2>1. page' \in [DataPages' -> PageRec]
    BY <1>1, <1>2 DEF TypeOK
  <2>2. numPages' \in 0 .. MaxPages
    BY <1>2, MaxPagesAssumption DEF InsertInNewPage, n
  <2> QED
    BY <1>2, <2>1, <2>2 DEF TypeOK, ListEnd
<1>4. NumRecordsExact'
  BY <1>1, <1>2, PagesCounted DEF NumRecordsExact, Counted, UsedSlots
<1>5. Open' = IF 1 = RecordsPerPage THEN Open ELSE Open \cup {n}
  BY <1>1, <1>2 DEF Open
<1>6. FreeListShape'
  <2> USE DEF FreeListShape, ListEnd, PageFull
  <2>1. FullMarked'
    BY <1>1, <1>2, <1>5 DEF FullMarked, Open
  <2>2. HeadOpen'
    BY <1>2, <1>5 DEF HeadOpen
  <2>3. LinksOpen'
    BY <1>1, <1>2, <1>5 DEF LinksOpen
  <2>4. /\ -1 \notin DataPages' /\ -2 \notin DataPages'
        /\ \A q \in DataPages : page[q].next # n
        /\ \A q \in DataPages : page[q].next \in DataPages' => page[q].next \in DataPages
    BY <1>2 DEF LinksOpen, Open, DataPages
  <2>5. HeadUnlinked'
    BY <1>1, <1>2, <2>4 DEF HeadUnlinked
  <2>6. LinksUnique'
    BY <1>1, <1>2, <2>4 DEF LinksUnique
  <2> QED
    BY <2>1, <2>2, <2>3, <2>5, <2>6
<1>7. HeaderKept'
  BY <1>2 DEF HeaderKept
<1>8. ScanOwes'
  <2>1. \A q \in Records : /\ q \in Records' /\ Contents'[q] = Contents[q]
                           /\ page'[q[1]].num > 0
    BY <1>2, RecordsCounted DEF Records, Contents
  <2>2. scan.on /\ ~scan.done => \A q \in owed : Contents[q] \in scan.match
    BY DEF ScanOwes, Ahead
  <2>3. CASE scan.on /\ ~scan.done
    BY <1>2, <2>1, <2>2, <2>3, OwedStayAhead DEF ScanOwes
  <2>4. CASE ~(scan.on /\ ~scan.done)
    BY <1>2, <2>1, <2>4 DEF ScanOwes
  <2> QED
    BY <2>3, <2>4
<1> QED
  BY <1>3, <1>4, <1>6, <1>7, <1>8

-------------------------------------------------------------------------------
(* When the page at the head of the list fills it leaves the list; its     *)
(* link, which no other page shares, becomes the head.                     *)
LEMMA InsertInFreePageInv ==
  ASSUME Inv, NEW v \in Val, InsertInFreePage(v)
  PROVE  Inv'
<1> DEFINE p  == firstFree
           s  == FindAvailableSlot(page[p])
           pg == InsertInto(page[p], s, v)
<1> USE DEF Inv
<1>1. /\ p \in Open /\ p \in DataPages
      /\ page[p] \in PageRec /\ Counted(page[p])
      /\ s \in Slots /\ page[p].rec[s] = Empty
  <2>1. p \in Open /\ p \in DataPages
    BY DEF InsertInFreePage, FreeListShape, HeadOpen, Open
  <2> QED
    BY <2>1, FreeSlotFound, PagesCounted DEF InsertInFreePage, TypeOK
<1>2. /\ pg \in PageRec /\ pg.num = page[p].num + 1 /\ Counted(pg)
      /\ pg.rec = [page[p].rec EXCEPT ![s] = v]
      /\ pg.next = IF page[p].num + 1 = RecordsPerPage THEN PageFull
                                                       ELSE page[p].next
  <2>1. /\ pg \in PageRec /\ pg.num = page[p].num + 1
        /\ pg.rec = [page[p].rec EXCEPT ![s] = v]
        /\ pg.next = IF page[p].num + 1 = RecordsPerPage THEN PageFull
                                                         ELSE page[p].next
    BY <1>1, InsertedFields
  <2>2. page[p].rec \in SlotArrays
    BY <1>1 DEF PageRec, SlotArrays
  <2> HIDE DEF s, pg
  <2>3. Counted(pg)
    BY <1>1, <2>1, <2>2, CountAfterInsert
  <2> QED
    BY <2>1, <2>3
<1>3. /\ valid /\ valid'
      /\ page' = [page EXCEPT ![p] = pg]
      /\ firstFree' = IF page[p].num + 1 = RecordsPerPage THEN page[p].next
                                                          ELSE p
      /\ hdrModified' = (hdrModified \/ page[p].num + 1 = RecordsPerPage)
      /\ numPages' = numPages /\ DataPages' = DataPages
      /\ UNCHANGED <<savedFirst, scan, owed>>
  BY DEF InsertInFreePage, FirstFreeAfterInsert, DataPages, scanVars
<1> HIDE DEF s, pg, p
<1>4. page[p].next \in Int /\ page[p].num \in Int
  BY <1>1 DEF PageRec
<1>5. page \in [DataPages -> PageRec] /\ page' \in [DataPages -> PageRec]
  BY <1>1, <1>2, <1>3 DEF TypeOK
<1>6. TypeOK'
  BY <1>3, <1>4, <1>5 DEF TypeOK, p
<1>7. NumRecordsExact'
  BY <1>1, <1>2, <1>3, <1>5, PagesCounted
     DEF NumRecordsExact, Counted, UsedSlots
<1>8. Open' = IF page[p].num + 1 = RecordsPerPage THEN Open \ {p} ELSE Open
  BY <1>1, <1>2, <1>3, <1>5 DEF Open
<1>9. FreeListShape'
  <2> USE DEF FreeListShape, ListEnd, PageFull
  <2>1. FullMarked'
    BY <1>1, <1>2, <1>3, <1>5, <1>8 DEF FullMarked
  <2>2. -1 \notin DataPages /\ -2 \notin DataPages
    BY DEF DataPages
  <2>3. HeadOpen'
    BY <1>1, <1>3, <1>8, <2>2
       DEF HeadOpen, LinksOpen, FullMarked, HeadUnlinked, Open, p
  <2>4. LinksOpen'
    BY <1>1, <1>2, <1>3, <1>5, <1>8
       DEF LinksOpen, HeadUnlinked, Open, p
  <2>5. HeadUnlinked'
    BY <1>1, <1>2, <1>3, <1>5, <2>2 DEF HeadUnlinked, LinksUnique, p
  <2>6. LinksUnique'
    BY <1>1, <1>2, <1>3, <1>5, <2>2 DEF LinksUnique
  <2> QED
    BY <2>1, <2>3, <2>4, <2>5, <2>6
<1>10. HeaderKept'
  BY <1>3 DEF HeaderKept, p
<1>11. ScanOwes'
  <2>1. \A q \in Records : /\ q \in Records' /\ Contents'[q] = Contents[q]
                           /\ page'[q[1]].num > 0
    <3> SUFFICES ASSUME NEW q \in Records
                 PROVE  /\ q \in Records' /\ Contents'[q] = Contents[q]
                        /\ page'[q[1]].num > 0
      OBVIOUS
    <3>1. /\ q \in Rid /\ q[1] \in DataPages /\ q[2] \in Slots
          /\ Contents[q] = page[q[1]].rec[q[2]]
          /\ Contents[q] # Empty /\ page[q[1]].num > 0
      BY RecordsCounted DEF Records
    <3>2. page'[q[1]].rec[q[2]] = page[q[1]].rec[q[2]]
      BY <1>1, <1>2, <1>3, <1>5, <3>1 DEF PageRec
    <3>3. page'[q[1]].num > 0
      BY <1>2, <1>3, <1>4, <1>5, <3>1
    <3> QED
      BY <1>3, <3>1, <3>2, <3>3 DEF Records, Contents
  <2>2. scan.on /\ ~scan.done => \A q \in owed : Contents[q] \in scan.match
    BY DEF ScanOwes, Ahead
  <2>3. CASE scan.on /\ ~scan.done
    BY <1>3, <2>1, <2>2, <2>3, OwedStayAhead DEF ScanOwes
  <2>4. CASE ~(scan.on /\ ~scan.done)
    BY <1>3, <2>1, <2>4 DEF ScanOwes
  <2> QED
    BY <2>3, <2>4
<1> QED
  BY <1>6, <1>7, <1>9, <1>10, <1>11

-------------------------------------------------------------------------------
(* A page that was full is pushed on the list, on which it was not.        *)
LEMMA DeleteRecInv ==
  ASSUME Inv, NEW r \in Records, DeleteRec(r)
  PROVE  Inv'
<1> DEFINE p  == r[1]
           s  == r[2]
           pg == DeleteFrom(page[p], s, firstFree)
<1> USE DEF Inv
<1>1. /\ p \in DataPages /\ s \in Slots /\ r \in Rid /\ r = <<p, s>>
      /\ page[p] \in PageRec /\ Counted(page[p])
      /\ page[p].rec[s] # Empty
      /\ firstFree \in Int
  BY RecordsCounted, PagesCounted, PageAssumption DEF TypeOK, Rid
<1>2. /\ pg \in PageRec /\ pg.num = page[p].num - 1 /\ Counted(pg)
      /\ pg.rec = [page[p].rec EXCEPT ![s] = Empty]
      /\ pg.next = IF page[p].num = RecordsPerPage THEN firstFree
                                                   ELSE page[p].next
  <2>1. /\ pg \in PageRec /\ pg.num = page[p].num - 1
        /\ pg.rec = [page[p].rec EXCEPT ![s] = Empty]
        /\ pg.next = IF page[p].num = RecordsPerPage THEN firstFree
                                                     ELSE page[p].next
    BY <1>1, DeletedFields
  <2>2. page[p].rec \in SlotArrays
    BY <1>1 DEF PageRec, SlotArrays
  <2> HIDE DEF s, pg
  <2>3. Counted(pg)
    BY <1>1, <2>1, <2>2, CountAfterDelete
  <2> QED
    BY <2>1, <2>3
<1>3. /\ valid /\ valid'
      /\ page' = [page EXCEPT ![p] = pg]
      /\ firstFree' = IF page[p].num = RecordsPerPage THEN p ELSE firstFree
      /\ hdrModified' = (hdrModified \/ page[p].num = RecordsPerPage)
      /\ numPages' = numPages /\ DataPages' = DataPages
      /\ owed' = owed \ {r}
      /\ UNCHANGED <<savedFirst, scan>>
  <2>1. page' = [page EXCEPT ![p] = DeleteFrom(@, s, firstFree)]
    BY DEF DeleteRec
  <2>2. page' = [page EXCEPT ![p] = pg]
    BY <1>1, <2>1 DEF TypeOK
  <2> QED
    BY <2>2 DEF DeleteRec, FirstFreeAfterDelete, DataPages
<1> HIDE DEF s, pg, p
<1>4. page[p].num \in 0 .. RecordsPerPage
  BY <1>1, CountTests
<1>5. page \in [DataPages -> PageRec] /\ page' \in [DataPages -> PageRec]
  BY <1>1, <1>2, <1>3 DEF TypeOK
<1>6. TypeOK'
  <2>1. p \in Int
    BY <1>1 DEF DataPages
  <2> QED
    BY <1>3, <1>5, <2>1 DEF TypeOK
<1>7. NumRecordsExact'
  BY <1>1, <1>2, <1>3, <1>5, PagesCounted
     DEF NumRecordsExact, Counted, UsedSlots
<1>8. Open' = Open \cup {p}
  BY <1>1, <1>2, <1>3, <1>4, <1>5, PageAssumption DEF Open
<1>9. p \in Open <=> page[p].num # RecordsPerPage
  BY <1>1 DEF Open
<1>10. FreeListShape'
  <2> USE DEF FreeListShape, ListEnd, PageFull
  <2>1. -1 \notin DataPages /\ -2 \notin DataPages /\ Open \subseteq DataPages
    BY DEF DataPages, Open
  <2>2. FullMarked'
    BY <1>1, <1>2, <1>3, <1>5, <1>8, <1>9, <2>1 DEF FullMarked, HeadOpen
  <2>3. HeadOpen'
    BY <1>3, <1>8 DEF HeadOpen
  <2>4. LinksOpen'
    BY <1>1, <1>2, <1>3, <1>5, <1>8 DEF LinksOpen, HeadOpen
  <2>5. HeadUnlinked'
    BY <1>1, <1>2, <1>3, <1>5, <1>9, <2>1
       DEF HeadUnlinked, LinksOpen, HeadOpen
  <2>6. LinksUnique'
    BY <1>1, <1>2, <1>3, <1>5, <1>9, <2>1 DEF LinksUnique, HeadUnlinked
  <2> QED
    BY <2>2, <2>3, <2>4, <2>5, <2>6
<1>11. HeaderKept'
  BY <1>3 DEF HeaderKept
<1>12. ScanOwes'
  <2>1. \A q \in owed' : /\ q \in Records' /\ Contents'[q] = Contents[q]
                         /\ page'[q[1]].num > 0
    <3> SUFFICES ASSUME NEW q \in owed'
                 PROVE  /\ q \in Records' /\ Contents'[q] = Contents[q]
                        /\ page'[q[1]].num > 0
      OBVIOUS
    <3>1. q \in Records /\ q # r
      BY <1>3 DEF ScanOwes
    <3>2. /\ q \in Rid /\ q[1] \in DataPages /\ q[2] \in Slots
          /\ Contents[q] = page[q[1]].rec[q[2]]
          /\ Contents[q] # Empty
      BY <3>1, RecordsCounted DEF Records
    <3>3. q[1] # p \/ q[2] # s
      BY <1>1, <3>1, <3>2 DEF Rid
    <3>4. page'[q[1]].rec[q[2]] = page[q[1]].rec[q[2]]
      BY <1>1, <1>2, <1>3, <1>5, <3>2, <3>3 DEF PageRec
    <3>5. Counted(page'[q[1]])
      BY <1>2, <1>3, <1>5, <3>2, PagesCounted
    <3>6. page'[q[1]].num \in 0 .. RecordsPerPage /\ page'[q[1]].num # 0
      BY <3>2, <3>4, <3>5, CountTests
    <3> QED
      BY <1>3, <3>2, <3>4, <3>6, PageAssumption DEF Records, Contents
  <2>2. scan.on /\ ~scan.done => \A q \in owed : Contents[q] \in scan.match
    BY DEF ScanOwes, Ahead
  <2>3. CASE scan.on /\ ~scan.done
    BY <1>3, <2>1, <2>2, <2>3, OwedStayAhead DEF ScanOwes
  <2>4. CASE ~(scan.on /\ ~scan.done)
    BY <1>3, <2>1, <2>4 DEF ScanOwes
  <2> QED
    BY <2>3, <2>4
<1> QED
  BY <1>6, <1>7, <1>10, <1>11, <1>12

-------------------------------------------------------------------------------
LEMMA UpdateRecInv ==
  ASSUME Inv, NEW r \in Records, NEW v \in Val, UpdateRec(r, v)
  PROVE  Inv'
<1> DEFINE p  == r[1]
           s  == r[2]
           pg == PutAt(page[p], s, v)
<1> USE DEF Inv
<1>1. /\ p \in DataPages /\ s \in Slots /\ r \in Rid /\ r = <<p, s>>
      /\ page[p] \in PageRec /\ Counted(page[p])
      /\ page[p].rec[s] # Empty
  BY RecordsCounted, PagesCounted, PageAssumption DEF TypeOK, Rid
<1>2. /\ pg \in PageRec /\ pg.num = page[p].num /\ Counted(pg)
      /\ pg.rec = [page[p].rec EXCEPT ![s] = v]
      /\ pg.next = page[p].next
  <2>1. /\ pg \in PageRec /\ pg.num = page[p].num /\ pg.next = page[p].next
        /\ pg.rec = [page[p].rec EXCEPT ![s] = v]
    BY <1>1, OverwrittenFields
  <2>2. page[p].rec \in SlotArrays
    BY <1>1 DEF PageRec, SlotArrays
  <2> HIDE DEF s, pg
  <2>3. Counted(pg)
    BY <1>1, <2>1, <2>2, CountAfterUpdate
  <2> QED
    BY <2>1, <2>3
<1>3. /\ valid /\ valid'
      /\ page' = [page EXCEPT ![p] = pg]
      /\ numPages' = numPages /\ DataPages' = DataPages
      /\ owed' = IF v \in scan.match THEN owed ELSE owed \ {r}
      /\ UNCHANGED <<firstFree, hdrModified, savedFirst, scan>>
  <2>1. page' = [page EXCEPT ![p] = PutAt(@, s, v)]
    BY DEF UpdateRec
  <2>2. page' = [page EXCEPT ![p] = pg]
    BY <1>1, <2>1 DEF TypeOK
  <2> QED
    BY <2>2 DEF UpdateRec, DataPages
<1> HIDE DEF s, pg, p
<1>4. page \in [DataPages -> PageRec] /\ page' \in [DataPages -> PageRec]
  BY <1>1, <1>2, <1>3 DEF TypeOK
<1>5. TypeOK'
  BY <1>3, <1>4 DEF TypeOK
<1>6. NumRecordsExact'
  BY <1>1, <1>2, <1>3, <1>4, PagesCounted
     DEF NumRecordsExact, Counted, UsedSlots
<1>7. \A q \in DataPages : /\ page'[q].num = page[q].num
                           /\ page'[q].next = page[q].next
  BY <1>2, <1>3, <1>4
<1>8. Open' = Open
  BY <1>3, <1>7 DEF Open
<1>9. FreeListShape'
  BY <1>3, <1>7, <1>8
     DEF FreeListShape, FullMarked, HeadOpen, LinksOpen, HeadUnlinked,
         LinksUnique
<1>10. HeaderKept'
  BY <1>3 DEF HeaderKept
<1>11. ScanOwes'
  <2>1. \A q \in Records :
          /\ q \in Records'
          /\ Contents'[q] = IF q = r THEN v ELSE Contents[q]
          /\ page'[q[1]].num > 0
    <3> SUFFICES ASSUME NEW q \in Records
                 PROVE  /\ q \in Records'
                        /\ Contents'[q] = IF q = r THEN v ELSE Contents[q]
                        /\ page'[q[1]].num > 0
      OBVIOUS
    <3>1. /\ q \in Rid /\ q[1] \in DataPages /\ q[2] \in Slots
          /\ Contents[q] = page[q[1]].rec[q[2]]
          /\ Contents[q] # Empty /\ page[q[1]].num > 0
      BY RecordsCounted DEF Records
    <3>2. q = r <=> q[1] = p /\ q[2] = s
      BY <1>1, <3>1 DEF Rid
    <3>3. page'[q[1]].rec[q[2]] = IF q = r THEN v ELSE page[q[1]].rec[q[2]]
      BY <1>1, <1>2, <1>3, <1>4, <3>1, <3>2 DEF PageRec
    <3> QED
      BY <1>3, <1>7, <3>1, <3>3, PageAssumption DEF Records, Contents
  <2>2. scan.on /\ ~scan.done => \A q \in owed : Contents[q] \in scan.match
    BY DEF ScanOwes, Ahead
  <2>3. owed' \subseteq owed /\ owed' \subseteq Records'
    BY <1>3, <2>1 DEF ScanOwes
  <2>4. CASE scan.on /\ ~scan.done
    <3>1. \A q \in owed' : Contents'[q] \in scan.match /\ page'[q[1]].num > 0
      BY <1>3, <2>1, <2>2, <2>4 DEF ScanOwes
    <3> QED
      BY <1>3, <2>3, <3>1, OwedStayAhead
  <2>5. CASE ~(scan.on /\ ~scan.done)
    BY <1>3, <2>3, <2>5 DEF ScanOwes
  <2> QED
    BY <2>4, <2>5
<1> QED
  BY <1>5, <1>6, <1>9, <1>10, <1>11

-------------------------------------------------------------------------------
(* What a step that leaves the file alone keeps. *)
LEMMA FileUnchanged ==
  ASSUME Inv, UNCHANGED fileVars
  PROVE  /\ NumRecordsExact' /\ FreeListShape' /\ HeaderKept'
         /\ UNCHANGED <<DataPages, Contents, Records>>
<1>1. UNCHANGED <<DataPages, Contents, Records, Open>>
  BY DEF fileVars, DataPages, Contents, Records, Open
<1> QED
  BY <1>1
     DEF Inv, fileVars, NumRecordsExact, HeaderKept, FreeListShape,
         FullMarked, HeadOpen, LinksOpen, HeadUnlinked, LinksUnique

(* A scan starts at the first page that counts a record: every record is   *)
(* on it or on a page behind it.                                           *)
LEMMA OpenScanInv ==
  ASSUME Inv, NEW m \in SUBSET Val, OpenScan(m)
  PROVE  Inv'
<1> DEFINE next == PagesAfter(0, numPages)
           first == IF next = {} THEN 0 ELSE Least(next)
<1> USE DEF Inv
<1>1. /\ UNCHANGED fileVars
      /\ scan' = [on |-> TRUE, done |-> next = {}, slot |-> 0,
                  np |-> numPages, page |-> first, match |-> m]
      /\ owed' = {r \in Records : Contents[r] \in m}
  BY DEF OpenScan
<1>2. next # {} => /\ Least(next) \in next
                   /\ \A q \in next : Least(next) <= q
  <2>1. next \subseteq Nat
    BY DEF PagesAfter, DataPages
  <2> HIDE DEF next
  <2>2. next # {} => \E x \in next : \A q \in next : x <= q
    BY <2>1, LeastNatural
  <2> QED
    BY <2>2 DEF Least
<1>3. next \subseteq DataPages /\ DataPages \subseteq 1 .. MaxPages
  BY MaxPagesAssumption DEF PagesAfter, TypeOK, DataPages
<1>4. TypeOK'
  <2>1. first \in 0 .. MaxPages /\ numPages \in 0 .. MaxPages
    <3>1. numPages \in 0 .. MaxPages
      BY DEF TypeOK
    <3>2. next # {} => Least(next) \in 1 .. MaxPages
      BY <1>2, <1>3
    <3>3. 0 \in 0 .. MaxPages /\ 1 .. MaxPages \subseteq 0 .. MaxPages
      BY MaxPagesAssumption
    <3> QED
      BY <3>1, <3>2, <3>3, Zenon
  <2> HIDE DEF first, next
  <2>2. scan' \in [on : BOOLEAN, done : BOOLEAN, page : 0 .. MaxPages,
                   slot : 0 .. RecordsPerPage, np : 0 .. MaxPages,
                   match : SUBSET Val]
    BY <1>1, <2>1, PageAssumption
  <2>3. owed' \subseteq Rid
    BY <1>1 DEF Records
  <2>4. page' \in [DataPages' -> PageRec]
    BY <1>1 DEF fileVars, TypeOK, DataPages
  <2> QED
    BY <1>1, <2>2, <2>3, <2>4 DEF fileVars, TypeOK
<1>5. \A r \in Records : r[1] \in next /\ r[2] >= 0
  BY RecordsCounted DEF PagesAfter, DataPages, Slots
<1>6. next = {} => owed' = {}
  BY <1>1, <1>5
<1>7. next # {} => owed' \subseteq Ahead'
  <2> SUFFICES ASSUME next # {}, NEW r \in owed'
               PROVE  r \in Ahead'
    OBVIOUS
  <2>1. r \in Records' /\ Contents'[r] = Contents[r] /\ Contents[r] \in m
    BY <1>1, FileUnchanged
  <2>2. r[1] \in next /\ r[2] >= 0 /\ r[1] >= first
    BY <1>1, <1>2, <1>5
  <2>3. r[1] = first \/ r[1] > first
    BY <1>2, <1>3, <2>2 DEF DataPages
  <2>4. scan'.page = first /\ scan'.slot = 0 /\ scan'.np = numPages
        /\ scan'.match = m
    BY <1>1
  <2>5. r[1] > first => r[1] \in PagesAfter(scan.page, scan.np)'
    BY <1>1, <2>2, <2>4 DEF PagesAfter, fileVars, DataPages
  <2> QED
    BY <2>1, <2>2, <2>3, <2>4, <2>5 DEF Ahead
<1>8. ScanOwes'
  <2>1. scan'.on = TRUE /\ scan'.done = (next = {})
    BY <1>1
  <2>2. owed' \subseteq Records'
    BY <1>1, FileUnchanged
  <2> QED
    BY <1>6, <1>7, <2>1, <2>2 DEF ScanOwes
<1> QED
  BY <1>1, <1>4, <1>8, FileUnchanged

(* What is owed is not before the record returned, the first one ahead.    *)
LEMMA GetNextRecInv ==
  ASSUME Inv, GetNextRec
  PROVE  Inv'
<1> USE DEF Inv
<1>1. UNCHANGED fileVars /\ scan.on /\ ~scan.done /\ owed \subseteq Ahead
  BY DEF GetNextRec, ScanOwes
<1>2. CASE \E r \in Ahead :
             /\ \A q \in Ahead : Precedes(r, q)
             /\ scan' = [scan EXCEPT !.page = r[1], !.slot = r[2] + 1]
             /\ owed' = owed \ {r}
  <2>1. PICK r \in Ahead :
             /\ \A q \in Ahead : Precedes(r, q)
             /\ scan' = [scan EXCEPT !.page = r[1], !.slot = r[2] + 1]
             /\ owed' = owed \ {r}
    BY <1>2
  <2>2. \A q \in Ahead : q \in Rid /\ q[1] \in DataPages /\ q[2] \in Slots
    BY RecordsCounted DEF Ahead
  <2>3. /\ scan'.page = r[1] /\ scan'.slot = r[2] + 1
        /\ scan'.on /\ ~scan'.done
        /\ scan'.np = scan.np /\ scan'.match = scan.match
    BY <1>1, <2>1 DEF TypeOK
  <2>4. TypeOK'
    <3>1. r[1] \in 0 .. MaxPages /\ r[2] + 1 \in 0 .. RecordsPerPage
      BY <2>2, PageAssumption, MaxPagesAssumption DEF Rid, Slots
    <3>2. scan' \in [on : BOOLEAN, done : BOOLEAN, page : 0 .. MaxPages,
                     slot : 0 .. RecordsPerPage, np : 0 .. MaxPages,
                     match : SUBSET Val]
      BY <2>1, <3>1 DEF TypeOK
    <3>3. page' \in [DataPages' -> PageRec]
      BY <1>1 DEF fileVars, TypeOK, DataPages
    <3> QED
      BY <1>1, <2>1, <3>2, <3>3 DEF fileVars, TypeOK
  <2>5. owed' \subseteq Ahead'
    <3> SUFFICES ASSUME NEW q \in owed'
                 PROVE  q \in Ahead'
      OBVIOUS
    <3>1. q \in Ahead /\ q # r
      BY <1>1, <2>1
    <3>2. q \in Records' /\ Contents'[q] = Contents[q]
          /\ Contents[q] \in scan'.match
      BY <1>1, <2>3, <3>1, FileUnchanged DEF Ahead
    <3>3. q[1] \in Int /\ r[1] \in Int /\ q[2] \in Int /\ r[2] \in Int
          /\ ~(q[1] = r[1] /\ q[2] = r[2])
      BY <2>2, <3>1 DEF Rid, DataPages, Slots
    <3>4. CASE q[1] = r[1]
      <4>1. q[2] >= r[2] + 1
        BY <2>1, <3>1, <3>3, <3>4 DEF Precedes
      <4> QED
        BY <2>3, <3>2, <3>4, <4>1 DEF Ahead
    <3>5. CASE q[1] # r[1]
      <4>1. r[1] < q[1]
        BY <2>1, <3>1, <3>5 DEF Precedes
      <4>2. scan.page <= r[1]
        BY <3>3 DEF Ahead, PagesAfter, TypeOK
      <4>3. q[1] \in PagesAfter(scan.page, scan.np)
        BY <3>1, <3>3, <4>1, <4>2 DEF Ahead, TypeOK
      <4>4. q[1] \in PagesAfter(scan.page, scan.np)'
        BY <1>1, <2>3, <4>1, <4>3 DEF PagesAfter, fileVars, DataPages
      <4> QED
        BY <3>2, <4>4 DEF Ahead
    <3> QED
      BY <3>4, <3>5
  <2>6. ScanOwes'
    BY <1>1, <2>1, <2>3, <2>5, FileUnchanged DEF ScanOwes
  <2> QED
    BY <1>1, <2>4, <2>6, FileUnchanged
<1>3. CASE Ahead = {} /\ scan' = [scan EXCEPT !.done = TRUE] /\ owed' = owed
  <2>1. owed = {} /\ owed' = {}
    BY <1>1, <1>3
  <2>2. TypeOK'
    BY <1>1, <1>3 DEF fileVars, TypeOK, DataPages
  <2>3. scan'.on /\ scan'.done
    BY <1>1, <1>3 DEF TypeOK
  <2>4. ScanOwes'
    BY <2>1, <2>3 DEF ScanOwes
  <2> QED
    BY <1>1, <2>2, <2>4, FileUnchanged
<1> QED
  BY <1>2, <1>3 DEF GetNextRec

LEMMA CloseScanInv ==
  ASSUME Inv, CloseScan
  PROVE  Inv'
<1> USE DEF Inv
<1>1. UNCHANGED fileVars /\ scan' = NoScan /\ owed' = {}
  BY DEF CloseScan
<1>2. scan' \in [on : BOOLEAN, done : BOOLEAN, page : 0 .. MaxPages,
                 slot : 0 .. RecordsPerPage, np : 0 .. MaxPages,
                 match : SUBSET Val]
  BY <1>1, PageAssumption, MaxPagesAssumption DEF NoScan
<1>3. TypeOK'
  BY <1>1, <1>2 DEF fileVars, TypeOK, DataPages
<1>4. ScanOwes'
  BY <1>1 DEF ScanOwes, NoScan
<1> QED
  BY <1>1, <1>3, <1>4, FileUnchanged

-------------------------------------------------------------------------------
(* Closing writes the header back when it has to; opening reads it: the    *)
(* head of the free list is the same before and after.                     *)
LEMMA HeaderStays ==
  ASSUME Inv, CloseFile \/ OpenFile
  PROVE  Inv' /\ UNCHANGED <<firstFree, numPages, page>>
<1> USE DEF Inv
<1>1. UNCHANGED <<firstFree, numPages, page, scan, owed>>
  BY DEF CloseFile, OpenFile, HeaderKept, scanVars
<1>2. UNCHANGED <<DataPages, Contents, Records, Open, Ahead>>
  BY <1>1 DEF DataPages, Contents, Records, Open, Ahead, PagesAfter
<1>3. NumRecordsExact' /\ FreeListShape'
  BY <1>1, <1>2
     DEF NumRecordsExact, FreeListShape, FullMarked, HeadOpen, LinksOpen,
         HeadUnlinked, LinksUnique
<1>4. HeaderKept' /\ savedFirst' \in Int /\ valid' \in BOOLEAN
      /\ hdrModified' \in BOOLEAN
  BY <1>1 DEF CloseFile, OpenFile, HeaderKept, TypeOK
<1>5. TypeOK'
  BY <1>1, <1>2, <1>4 DEF TypeOK
<1>6. ScanOwes'
  BY <1>1, <1>2 DEF ScanOwes
<1> QED
  BY <1>1, <1>3, <1>4, <1>5, <1>6

LEMMA StutterInv ==
  ASSUME Inv, UNCHANGED vars
  PROVE  Inv'
<1>1. UNCHANGED <<DataPages, Contents, Records, Open, Ahead>>
  BY DEF vars, DataPages, Contents, Records, Open, Ahead, PagesAfter
<1> QED
  BY <1>1 DEF vars, Inv, TypeOK, NumRecordsExact, FreeListShape, FullMarked,
              HeadOpen, LinksOpen, HeadUnlinked, LinksUnique, HeaderKept,
              ScanOwes

LEMMA NextInv == Inv /\ [Next]_vars => Inv'
<1> SUFFICES ASSUME Inv, [Next]_vars
             PROVE  Inv'
  OBVIOUS
<1>1. ASSUME NEW v \in Val, InsertRec(v)
      PROVE  Inv'
  BY <1>1, InsertInNewPageInv, InsertInFreePageInv DEF InsertRec
<1>2. ASSUME NEW r \in Records, DeleteRec(r)
      PROVE  Inv'
  BY <1>2, DeleteRecInv
<1>3. ASSUME NEW r \in Records, NEW v \in Val, UpdateRec(r, v)
      PROVE  Inv'
  BY <1>3, UpdateRecInv
<1>4. ASSUME NEW m \in {Val} \cup {{v} : v \in Val}, OpenScan(m)
      PROVE  Inv'
  BY <1>4, OpenScanInv
<1>5. CASE GetNextRec
  BY <1>5, GetNextRecInv
<1>6. CASE CloseScan
  BY <1>6, CloseScanInv
<1>7. CASE CloseFile
  BY <1>7, HeaderStays
<1>8. CASE OpenFile
  BY <1>8, HeaderStays
<1>9. CASE UNCHANGED vars
  BY <1>9, StutterInv
<1> QED
  BY <1>1, <1>2, <1>3, <1>4, <1>5, <1>6, <1>7, <1>8, <1>9 DEF Next

(* The inductive invariant holds in every reachable state, for files of    *)
(* any size and pages of any capacity.                                     *)
THEOREM InvHolds == Spec => []Inv
BY InitInv, NextInv, PTL DEF Spec

-------------------------------------------------------------------------------
(* Every variable keeps its type: in particular a header, a link or a      *)
(* scan's position never leaves its range.                                 *)
THEOREM TypeCorrect == Spec => []TypeOK
<1>1. Inv => TypeOK
  BY DEF Inv
<1> QED
  BY <1>1, InvHolds, PTL

(* numRecords of every page is the number of its records, so that the      *)
(* scan, which skips a page that counts none, skips no record.             *)
THEOREM CountsExact == Spec => []NumRecordsExact
<1>1. Inv => NumRecordsExact
  BY DEF Inv
<1> QED
  BY <1>1, InvHolds, PTL

(* InsertRec always finds an empty slot on the page the free list offers,  *)
(* in an open file and in one that will be opened again.                   *)
THEOREM FreePageFound == Spec => []FreePageHasRoom
<1>1. ASSUME Inv PROVE FreePageHasRoom
  <2>1. \A p \in Open : p \in DataPages /\ HasRoom(page[p])
    BY <1>1, PagesCounted, CountTests DEF Inv, Open
  <2>2. ~valid => savedFirst = firstFree
    BY <1>1 DEF Inv, HeaderKept
  <2> QED
    BY <1>1, <2>1, <2>2 DEF Inv, FreeListShape, HeadOpen, FreePageHasRoom
<1> QED
  BY <1>1, InvHolds, PTL

(* A scan that has ended returned every record that stayed in the file and *)
(* satisfied its condition since it was opened.                            *)
THEOREM ScansComplete == Spec => []ScanComplete
<1>1. Inv => ScanComplete
  BY DEF Inv, ScanOwes, ScanComplete
<1> QED
  BY <1>1, InvHolds, PTL

-------------------------------------------------------------------------------
(* The free list reaches every page that is not full.  FreeListShape says  *)
(* only what the links lead to; this says that nothing is left out, and is *)
(* kept because the set of pages a list reaches after a step follows the   *)
(* list before it, but for the page that filled or is put back.            *)
Reached == \A S \in SUBSET DataPages : FollowsList(S) => Open \subseteq S

LEMMA InitReached == Init => Reached
<1> SUFFICES ASSUME Init PROVE Reached
  OBVIOUS
<1>1. DataPages = {}
  BY DEF Init, DataPages
<1> QED
  BY <1>1 DEF Reached, Open

(* A file is extended when its list is empty, that is, has no page with    *)
(* room; the new page is the list unless it is full at once.               *)
LEMMA InsertInNewPageReached ==
  ASSUME Inv, Reached, NEW v \in Val, InsertInNewPage(v)
  PROVE  Reached'
<1> DEFINE n  == numPages + 1
           pg == InsertInto(BlankPage, 0, v)
<1>1. numPages \in Nat /\ DataPages' = DataPages \cup {n}
      /\ n \in DataPages' /\ n \notin DataPages
  BY MaxPagesAssumption DEF Inv, TypeOK, InsertInNewPage, DataPages
<1>2. /\ page' = [q \in DataPages' |-> IF q = n THEN pg ELSE page[q]]
      /\ firstFree' = IF 1 = RecordsPerPage THEN ListEnd ELSE n
      /\ firstFree = ListEnd
  BY DEF InsertInNewPage, DataPages, FirstFreeAfterInsert, BlankPage
<1>3. pg.num = 1
  <2>1. 0 \in Slots
    BY PageAssumption DEF Slots
  <2>2. pg.num = BlankPage.num + 1
    BY <2>1, BlankPageCounted, InsertedFields
  <2> QED
    BY <2>2 DEF BlankPage
<1> HIDE DEF n, pg
<1>4. Open = {}
  <2>1. firstFree \notin DataPages
    BY <1>1, <1>2 DEF ListEnd, DataPages
  <2>2. FollowsList({})
    BY <2>1 DEF FollowsList
  <2> QED
    BY <2>2 DEF Reached
<1>5. Open' \subseteq {n} /\ (1 = RecordsPerPage => Open' = {})
  BY <1>1, <1>2, <1>3, <1>4 DEF Open
<1>6. ASSUME NEW S \in SUBSET DataPages', FollowsList(S)'
      PROVE  Open' \subseteq S
  BY <1>1, <1>2, <1>5, <1>6 DEF FollowsList
<1> QED
  BY <1>6 DEF Reached

(* The head of the list leaves it when it fills: with the head, what the   *)
(* new list reaches follows the old one.                                   *)
LEMMA InsertInFreePageReached ==
  ASSUME Inv, Reached, NEW v \in Val, InsertInFreePage(v)
  PROVE  Reached'
<1> DEFINE p  == firstFree
           s  == FindAvailableSlot(page[p])
           pg == InsertInto(page[p], s, v)
<1>1. /\ p \in DataPages /\ page[p] \in PageRec /\ s \in Slots
      /\ page \in [DataPages -> PageRec]
  <2>1. p \in DataPages
    BY DEF Inv, InsertInFreePage, FreeListShape, HeadOpen, Open
  <2> QED
    BY <2>1, FreeSlotFound DEF Inv, InsertInFreePage, TypeOK
<1>2. /\ pg.num = page[p].num + 1
      /\ pg.next = IF page[p].num + 1 = RecordsPerPage THEN PageFull
                                                       ELSE page[p].next
  <2>1. /\ pg \in PageRec /\ pg.num = page[p].num + 1
        /\ pg.rec = [page[p].rec EXCEPT ![s] = v]
        /\ pg.next = IF page[p].num + 1 = RecordsPerPage THEN PageFull
                                                         ELSE page[p].next
    BY <1>1, InsertedFields
  <2> QED
    BY <2>1
<1>3. /\ page' = [page EXCEPT ![p] = pg]
      /\ firstFree' = IF page[p].num + 1 = RecordsPerPage THEN page[p].next
                                                          ELSE p
      /\ DataPages' = DataPages
  BY DEF InsertInFreePage, FirstFreeAfterInsert, DataPages
<1>4. p \in Open /\ page[p].num \in Int /\ PageFull \notin DataPages
  BY <1>1 DEF Inv, FreeListShape, HeadOpen, Open, DataPages, ListEnd,
              PageFull, PageRec
<1> SUFFICES ASSUME NEW S \in SUBSET DataPages', FollowsList(S)'
             PROVE  Open' \subseteq S
  BY DEF Reached
<1> HIDE DEF s, pg
<1>5. page'[p] = pg /\ \A q \in DataPages : q # p => page'[q] = page[q]
  BY <1>1, <1>3
<1>6. CASE page[p].num + 1 = RecordsPerPage
  <2>1. FollowsList(S \cup {p})
    BY <1>1, <1>3, <1>5, <1>6 DEF FollowsList
  <2>2. Open \subseteq S \cup {p}
    BY <1>1, <1>3, <2>1 DEF Reached
  <2>3. Open' \subseteq Open \ {p}
    BY <1>2, <1>3, <1>4, <1>5, <1>6 DEF Open
  <2> QED
    BY <2>2, <2>3
<1>7. CASE page[p].num + 1 # RecordsPerPage
  <2>1. \A q \in DataPages : page'[q].next = page[q].next
    BY <1>2, <1>5, <1>7
  <2>2. FollowsList(S)
    BY <1>3, <1>7, <2>1 DEF FollowsList
  <2>3. Open' \subseteq Open
    BY <1>2, <1>3, <1>4, <1>5, <1>7 DEF Open
  <2> QED
    BY <1>3, <2>2, <2>3 DEF Reached
<1> QED
  BY <1>6, <1>7

(* A page that was full had no link into the list; put in front of it, it  *)
(* reaches what the list reached.                                          *)
LEMMA DeleteRecReached ==
  ASSUME Inv, Reached, NEW r \in Records, DeleteRec(r)
  PROVE  Reached'
<1> DEFINE p  == r[1]
           s  == r[2]
           pg == DeleteFrom(page[p], s, firstFree)
<1>1. /\ p \in DataPages /\ s \in Slots /\ page[p] \in PageRec
      /\ firstFree \in Int /\ page \in [DataPages -> PageRec]
  BY RecordsCounted DEF Inv, TypeOK
<1>2. /\ pg.num = page[p].num - 1
      /\ pg.next = IF page[p].num = RecordsPerPage THEN firstFree
                                                   ELSE page[p].next
  BY <1>1, DeletedFields
<1>3. /\ page' = [page EXCEPT ![p] = pg]
      /\ firstFree' = IF page[p].num = RecordsPerPage THEN p ELSE firstFree
      /\ DataPages' = DataPages
  <2>1. page' = [page EXCEPT ![p] = DeleteFrom(@, s, firstFree)]
    BY DEF DeleteRec
  <2>2. page' = [page EXCEPT ![p] = pg]
    BY <1>1, <2>1
  <2> QED
    BY <2>2 DEF DeleteRec, FirstFreeAfterDelete, DataPages
<1>4. page[p].num \in 0 .. RecordsPerPage
  BY <1>1, PagesCounted, CountTests DEF Inv
<1>5. page[p].num = RecordsPerPage => page[p].next \notin DataPages
  BY <1>1 DEF Inv, FreeListShape, FullMarked, Open, DataPages, PageFull
<1> SUFFICES ASSUME NEW S \in SUBSET DataPages', FollowsList(S)'
             PROVE  Open' \subseteq S
  BY DEF Reached
<1> HIDE DEF p, s, pg
<1>6. page'[p] = pg /\ \A q \in DataPages : q # p => page'[q] = page[q]
  BY <1>1, <1>3
<1>7. CASE page[p].num = RecordsPerPage
  <2>1. FollowsList(S) /\ p \in S
    BY <1>1, <1>2, <1>3, <1>5, <1>6, <1>7 DEF FollowsList
  <2>2. Open' \subseteq Open \cup {p}
    BY <1>3, <1>6 DEF Open
  <2> QED
    BY <1>3, <2>1, <2>2 DEF Reached
<1>8. CASE page[p].num # RecordsPerPage
  <2>1. \A q \in DataPages : page'[q].next = page[q].next
    BY <1>2, <1>6, <1>8
  <2>2. FollowsList(S)
    BY <1>3, <1>8, <2>1 DEF FollowsList
  <2>3. Open' \subseteq Open
    BY <1>1, <1>3, <1>6, <1>8 DEF Open
  <2> QED
    BY <1>3, <2>2, <2>3 DEF Reached
<1> QED
  BY <1>7, <1>8

(* The other steps change no count, no link and not the head.              *)
LEMMA LinksKept ==
  ASSUME Reached, UNCHANGED <<firstFree, DataPages>>,
         \A q \in DataPages : /\ page'[q].num = page[q].num
                              /\ page'[q].next = page[q].next
  PROVE  Reached'
<1> SUFFICES ASSUME NEW S \in SUBSET DataPages', FollowsList(S)'
             PROVE  Open' \subseteq S
  BY DEF Reached
<1>1. FollowsList(S)
  BY DEF FollowsList
<1>2. Open' \subseteq Open
  BY DEF Open
<1> QED
  BY <1>1, <1>2 DEF Reached

LEMMA UpdateRecReached ==
  ASSUME Inv, Reached, NEW r \in Records, NEW v \in Val, UpdateRec(r, v)
  PROVE  Reached'
<1> DEFINE p  == r[1]
           pg == PutAt(page[p], r[2], v)
<1>1. /\ p \in DataPages /\ r[2] \in Slots /\ page[p] \in PageRec
      /\ page \in [DataPages -> PageRec]
  BY RecordsCounted DEF Inv, TypeOK
<1>2. pg.num = page[p].num /\ pg.next = page[p].next
  BY <1>1, OverwrittenFields
<1>3. UNCHANGED <<firstFree, DataPages>>
      /\ page' = [page EXCEPT ![p] = PutAt(@, r[2], v)]
  BY DEF UpdateRec, DataPages
<1>4. page' = [page EXCEPT ![p] = pg]
  BY <1>1, <1>3
<1> HIDE DEF p, pg
<1>5. \A q \in DataPages : /\ page'[q].num = page[q].num
                           /\ page'[q].next = page[q].next
  BY <1>1, <1>2, <1>4
<1> QED
  BY <1>3, <1>5, LinksKept

LEMMA NextReached == Inv /\ Reached /\ [Next]_vars => Reached'
<1> SUFFICES ASSUME Inv, Reached, [Next]_vars
             PROVE  Reached'
  OBVIOUS
<1>1. ASSUME NEW v \in Val, InsertRec(v)
      PROVE  Reached'
  BY <1>1, InsertInNewPageReached, InsertInFreePageReached DEF InsertRec
<1>2. ASSUME NEW r \in Records, DeleteRec(r)
      PROVE  Reached'
  BY <1>2, DeleteRecReached
<1>3. ASSUME NEW r \in Records, NEW v \in Val, UpdateRec(r, v)
      PROVE  Reached'
  BY <1>3, UpdateRecReached
<1>4. CASE UNCHANGED <<firstFree, numPages, page>>
  BY <1>4, LinksKept DEF DataPages
<1>5. CASE CloseFile \/ OpenFile
  BY <1>4, <1>5, HeaderStays
<1>6. CASE GetNextRec \/ CloseScan
           \/ \E m \in {Val} \cup {{v} : v \in Val} : OpenScan(m)
  BY <1>4, <1>6 DEF GetNextRec, CloseScan, OpenScan, fileVars
<1>7. CASE UNCHANGED vars
  BY <1>4, <1>7 DEF vars
<1> QED
  BY <1>1, <1>2, <1>3, <1>5, <1>6, <1>7 DEF Next

(* The free list reaches exactly the pages with an empty slot, in files of *)
(* any size: no room is lost to DeleteRec, and no full page is offered to  *)
(* InsertRec, however often pages filled and were emptied.                 *)
THEOREM FreeListReachesRoom == Spec => []FreeListComplete
<1>1. ASSUME Inv, Reached PROVE FreeListComplete
  <2>1. {p \in DataPages : HasRoom(page[p])} = Open
    BY <1>1, PagesCounted, CountTests DEF Inv, Open
  <2>2. Open \in SUBSET DataPages /\ FollowsList(Open)
    BY <1>1
       DEF Inv, FreeListShape, HeadOpen, LinksOpen, FollowsList, Open,
           DataPages, ListEnd, PageFull
  <2>3. OnFreeList = Open
    BY <1>1, <2>2 DEF OnFreeList, Reached
  <2> QED
    BY <2>1, <2>3 DEF FreeListComplete
<1> QED
  BY <1>1, InvHolds, InitReached, NextReached, PTL DEF Spec

-------------------------------------------------------------------------------
(* Every step of the file is a step of the store of records it implements, *)
(* or leaves that store alone.                                             *)
LEMMA InsertsImplement ==
  ASSUME Inv, NEW v \in Val, InsertRec(v)
  PROVE  Store!Insert
<1>1. CASE InsertInNewPage(v)
  <2> DEFINE n == numPages + 1
             r == <<n, 0>>
  <2>1. /\ n \in 1 .. MaxPages /\ 0 \in Slots /\ numPages \in Nat
        /\ DataPages' = DataPages \cup {n} /\ n \notin DataPages
        /\ page' = [q \in 1 .. n |-> IF q = n THEN InsertInto(BlankPage, 0, v)
                                              ELSE page[q]]
    BY <1>1, PageAssumption, MaxPagesAssumption
       DEF InsertInNewPage, Inv, TypeOK, DataPages, Slots
  <2>2. r \in Rid /\ Contents[r] = Empty
    BY <2>1 DEF Rid, Contents
  <2>3. page'[n].rec = [s \in Slots |-> IF s = 0 THEN v ELSE Empty]
    <3>1. page'[n] = InsertInto(BlankPage, 0, v)
      BY <2>1
    <3>2. InsertInto(BlankPage, 0, v).rec = [BlankPage.rec EXCEPT ![0] = v]
      BY <2>1, BlankPageCounted, InsertedFields
    <3> QED
      BY <3>1, <3>2 DEF BlankPage
  <2>4. \A q \in DataPages : page'[q] = page[q]
    BY <2>1 DEF DataPages
  <2>5. Contents' = [Contents EXCEPT ![r] = v]
    <3>1. \A q \in Rid : Contents'[q] = IF q = r THEN v ELSE Contents[q]
      BY <2>1, <2>3, <2>4 DEF Contents, Rid
    <3>2. /\ Contents = [q \in Rid |-> Contents[q]]
          /\ Contents' = [q \in Rid |-> Contents'[q]]
      BY DEF Contents
    <3> HIDE DEF r
    <3> QED
      BY <2>2, <3>1, <3>2
  <2> QED
    BY <2>2, <2>5 DEF Store!Insert
<1>2. CASE InsertInFreePage(v)
  <2> DEFINE s == FindAvailableSlot(page[firstFree])
             r == <<firstFree, s>>
  <2>1. /\ firstFree \in DataPages /\ page[firstFree] \in PageRec
        /\ firstFree \in 1 .. MaxPages
        /\ s \in Slots /\ page[firstFree].rec[s] = Empty
    <3>1. firstFree \in DataPages /\ firstFree \in 1 .. MaxPages
      BY <1>2, MaxPagesAssumption
         DEF InsertInFreePage, Inv, FreeListShape, HeadOpen, Open, TypeOK,
             DataPages
    <3> QED
      BY <1>2, <3>1, FreeSlotFound DEF InsertInFreePage, Inv, TypeOK
  <2>2. r \in Rid /\ Contents[r] = Empty
    BY <2>1 DEF Rid, Contents
  <2>3. /\ DataPages' = DataPages
        /\ page' = [page EXCEPT ![firstFree] =
                      InsertInto(page[firstFree], s, v)]
    BY <1>2 DEF InsertInFreePage, DataPages
  <2>4. InsertInto(page[firstFree], s, v).rec =
          [page[firstFree].rec EXCEPT ![s] = v]
    BY <2>1, InsertedFields
  <2> HIDE DEF s
  <2>5. Contents' = [Contents EXCEPT ![r] = v]
    <3>1. \A q \in DataPages, t \in Slots :
            page'[q].rec[t] = IF q = firstFree /\ t = s THEN v
                                                       ELSE page[q].rec[t]
      BY <2>1, <2>3, <2>4 DEF Inv, TypeOK, PageRec
    <3>2. \A q \in Rid : Contents'[q] = IF q = r THEN v ELSE Contents[q]
      BY <2>1, <2>3, <3>1 DEF Contents, Rid
    <3>3. /\ Contents = [q \in Rid |-> Contents[q]]
          /\ Contents' = [q \in Rid |-> Contents'[q]]
      BY DEF Contents
    <3> HIDE DEF r
    <3> QED
      BY <2>2, <3>2, <3>3
  <2> QED
    BY <2>2, <2>5 DEF Store!Insert
<1> QED
  BY <1>1, <1>2 DEF InsertRec

(* An edit of one used slot of one page edits one record of the store. *)
LEMMA SlotEdited ==
  ASSUME Inv, NEW r \in Records, NEW x, NEW pg,
         page' = [page EXCEPT ![r[1]] = pg],
         pg.rec = [page[r[1]].rec EXCEPT ![r[2]] = x],
         UNCHANGED numPages
  PROVE  /\ r \in Rid /\ Contents[r] # Empty
         /\ Contents' = [Contents EXCEPT ![r] = x]
<1>1. /\ r \in Rid /\ Contents[r] # Empty
      /\ r[1] \in DataPages /\ r[2] \in Slots /\ r = <<r[1], r[2]>>
      /\ DataPages' = DataPages
  BY RecordsCounted DEF Inv, Records, Rid, DataPages
<1>2. \A q \in DataPages, t \in Slots :
        page'[q].rec[t] = IF q = r[1] /\ t = r[2] THEN x ELSE page[q].rec[t]
  BY <1>1 DEF Inv, TypeOK, PageRec
<1>3. \A q \in Rid : Contents'[q] = IF q = r THEN x ELSE Contents[q]
  <2> SUFFICES ASSUME NEW q \in Rid
               PROVE  Contents'[q] = IF q = r THEN x ELSE Contents[q]
    OBVIOUS
  <2>1. q = r <=> q[1] = r[1] /\ q[2] = r[2]
    BY <1>1 DEF Rid
  <2>2. q[2] \in Slots
    BY DEF Rid
  <2> QED
    BY <1>1, <1>2, <2>1, <2>2 DEF Contents
<1>4. /\ Contents = [q \in Rid |-> Contents[q]]
      /\ Contents' = [q \in Rid |-> Contents'[q]]
  BY DEF Contents
<1> QED
  BY <1>1, <1>3, <1>4

LEMMA DeletesImplement ==
  ASSUME Inv, NEW r \in Records, DeleteRec(r)
  PROVE  Store!Delete
<1>1. /\ r[1] \in DataPages /\ r[2] \in Slots /\ page[r[1]] \in PageRec
      /\ firstFree \in Int
  BY RecordsCounted DEF Inv, TypeOK
<1>2. /\ page' = [page EXCEPT ![r[1]] =
                    DeleteFrom(page[r[1]], r[2], firstFree)]
      /\ UNCHANGED numPages
  BY <1>1 DEF DeleteRec, Inv, TypeOK
<1>3. DeleteFrom(page[r[1]], r[2], firstFree).rec =
        [page[r[1]].rec EXCEPT ![r[2]] = Empty]
  BY <1>1, DeletedFields
<1> QED
  BY <1>2, <1>3, SlotEdited DEF Store!Delete

LEMMA UpdatesImplement ==
  ASSUME Inv, NEW r \in Records, NEW v \in Val, UpdateRec(r, v)
  PROVE  Store!Update
<1>1. r[1] \in DataPages /\ r[2] \in Slots /\ page[r[1]] \in PageRec
  BY RecordsCounted DEF Inv, TypeOK
<1>2. /\ page' = [page EXCEPT ![r[1]] = PutAt(page[r[1]], r[2], v)]
      /\ UNCHANGED numPages
  BY <1>1 DEF UpdateRec, Inv, TypeOK
<1>3. PutAt(page[r[1]], r[2], v).rec = [page[r[1]].rec EXCEPT ![r[2]] = v]
  BY <1>1, OverwrittenFields
<1>4. /\ r \in Rid /\ Contents[r] # Empty
      /\ Contents' = [Contents EXCEPT ![r] = v]
  BY <1>2, <1>3, SlotEdited
<1> QED
  BY <1>4 DEF Store!Update

LEMMA StepsImplement ==
  ASSUME Inv, [Next]_vars
  PROVE  [Store!Next]_Contents
<1>1. ASSUME NEW v \in Val, InsertRec(v)
      PROVE  Store!Next
  BY <1>1, InsertsImplement DEF Store!Next
<1>2. ASSUME NEW r \in Records, DeleteRec(r)
      PROVE  Store!Next
  BY <1>2, DeletesImplement DEF Store!Next
<1>3. ASSUME NEW r \in Records, NEW v \in Val, UpdateRec(r, v)
      PROVE  Store!Next
  BY <1>3, UpdatesImplement DEF Store!Next
<1>4. ASSUME UNCHANGED <<numPages, page>>
      PROVE  UNCHANGED Contents
  BY <1>4 DEF Contents, DataPages
<1>5. CASE \E m \in {Val} \cup {{v} : v \in Val} : OpenScan(m)
  BY <1>4, <1>5 DEF OpenScan, fileVars
<1>6. CASE GetNextRec \/ CloseScan \/ CloseFile \/ OpenFile \/ UNCHANGED vars
  BY <1>4, <1>6
     DEF GetNextRec, CloseScan, CloseFile, OpenFile, fileVars, vars
<1> QED
  BY <1>1, <1>2, <1>3, <1>5, <1>6 DEF Next

(* A record file, its free list, bitmaps and header hidden, is a set of    *)
(* records with stable identifiers: an insertion takes a free identifier,  *)
(* and no operation touches a record other than the one it names.          *)
THEOREM FileImplementsStore == Spec => ImplementsRecordStore
<1>1. Init => Store!Init
  BY DEF Init, Store!Init, Contents, DataPages
<1>2. Inv /\ [Next]_vars => [Store!Next]_Contents
  BY StepsImplement
<1> QED
  BY <1>1, <1>2, InvHolds, PTL DEF Spec, Store!Spec, ImplementsRecordStore
===============================================================================
