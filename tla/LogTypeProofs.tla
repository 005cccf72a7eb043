---------------------------- MODULE LogTypeProofs -----------------------------
(***************************************************************************)
(* Proofs that LogRecovery keeps its types and that the count of a page of *)
(* the relation never passes the number of its records.                    *)
(*                                                                         *)
(* Both need to know what Undo and Redo find at the LSN they are at.  The  *)
(* inductive invariant, beside LogInv and ChainInv of LogRecoveryProofs:   *)
(*   Scalars      the variables that are no pages have their types,        *)
(*   LogOK        log records are typed, refer to older ones only, link to *)
(*                the next position or to none, and carry the images that  *)
(*                rollback and redo write back,                            *)
(*   CurrFilled   the page being written has a record at every position up *)
(*                to lastRec and is the last of the log,                   *)
(*   UndoTrail    from lastRec, and from where Undo is, the chain of prev  *)
(*                and undonext stays among the records there are,          *)
(*   RedoReached  Redo has found every record before the one it is at,     *)
(*   PagesOK      pages are typed and their counts are not too high.       *)
(***************************************************************************)
EXTENDS LogRecoveryProofs, RecordPageProofs

Pos == [pn : Nat, off : 0 .. LogPageCap - 1]

(* Where the record after the one at l is put. *)
Successor(l) == IF l.off + 1 < LogPageCap THEN LSN(l.pn, l.off + 1)
                                          ELSE LSN(l.pn + 1, 0)

(* A record that is written back has bytes to be written. *)
Imaged(r) ==
  /\ r.type \in {"delete", "update"} => r.old # Empty
  /\ r.type \in {"insert", "update"} => r.new # Empty
  /\ r.type = "clr" /\ r.undo = "insert" => r.new # Empty

BackFrom(l) == {LogEOF} \cup {k \in Pos : Older(k, l)}

RecordOK(l, r) ==
  /\ l \in Pos
  /\ r \in LogRec
  /\ Imaged(r)
  /\ r.prev \in BackFrom(l)
  /\ r.undonext \in BackFrom(l)
  /\ r.next \in {LogEOF, Successor(l)}

LogOK == /\ \A l \in DOMAIN log : RecordOK(l, log[l])
         /\ \A l \in DOMAIN logDisk : RecordOK(l, logDisk[l])

CurrFilled ==
  lastRec # LogEOF =>
    /\ logPages = curr + 1
    /\ \A o \in 0 .. lastRec.off : LSN(curr, o) \in DOMAIN log

Trail(S) ==
  /\ S \subseteq DOMAIN log
  /\ \A l \in S : {log[l].prev, log[l].undonext} \subseteq S \cup {LogEOF}

Undoing == pc = "undo" \/ (pc = "closing" /\ stmt = "undo")
Redoing == pc = "redo" \/ (pc = "closing" /\ stmt = "redo")

UndoTrail == \E S : /\ Trail(S)
                    /\ lastRec \in S \cup {LogEOF}
                    /\ Undoing => cur \in S \cup {LogEOF}

RedoReached == Redoing => /\ lastRec = LogEOF
                          /\ cur \in Pos
                          /\ \A l \in Pos : Older(l, cur) => l \in DOMAIN log

Page == [num : Int, next : Int, lsn : [pn : Int, off : Int], era : Nat,
         rec : [Slots -> Cell]]

PageOK(pg) == pg \in Page /\ pg.num <= Cardinality(UsedSlots(pg))

PagesOK == /\ \A p \in DOMAIN rel :
                /\ p \in 1 .. MaxPages /\ rel[p] \in Page
                /\ p # held => PageOK(rel[p])
           /\ \A p \in DOMAIN relDisk : p \in 1 .. MaxPages /\ PageOK(relDisk[p])

Scalars ==
  /\ relPages \in 1 .. MaxPages + 1 /\ relDiskPages \in 1 .. MaxPages + 1
  /\ relFirst \in Int /\ relDiskFirst \in Int
  /\ held \in 0 .. MaxPages /\ (held # 0 => pc = "wedged")
  /\ inTxn \in BOOLEAN /\ auto \in BOOLEAN
  /\ currXID \in Nat /\ undoXid \in Nat
  /\ stmt \in Kinds \cup {"none", "undo", "redo"}
  /\ pc \in {"idle", "open", "closing", "tocommit", "committing", "aborting",
             "undo", "ending", "redo", "failed", "wedged"}
  /\ skipped \subseteq Rid
  /\ torn \in BOOLEAN /\ fresh \in BOOLEAN /\ reused \in BOOLEAN
  /\ leftover \in BOOLEAN
  /\ era \in 1 .. MaxEras /\ crashes \in 0 .. MaxCrashes

TypeInv == Scalars /\ LogOK /\ CurrFilled /\ UndoTrail /\ RedoReached /\ PagesOK

-------------------------------------------------------------------------------
(* Pages. *)

(* Of the count of a page whose slots change. *)
LEMMA OnlySlotChanges ==
  ASSUME NEW pg \in Page, NEW q \in Page, NEW s \in Slots, NEW c,
         q.rec = [pg.rec EXCEPT ![s] = c]
  PROVE  Cardinality(UsedSlots(q)) =
           IF c = Empty
             THEN IF pg.rec[s] = Empty THEN Cardinality(UsedSlots(pg))
                                       ELSE Cardinality(UsedSlots(pg)) - 1
             ELSE IF pg.rec[s] = Empty THEN Cardinality(UsedSlots(pg)) + 1
                                       ELSE Cardinality(UsedSlots(pg))
<1>1. \A t \in Slots : q.rec[t] = IF t = s THEN c ELSE pg.rec[t]
  BY DEF Page
<1>2. UsedSlots(q) = IF c = Empty THEN UsedSlots(pg) \ {s}
                                  ELSE UsedSlots(pg) \cup {s}
  BY <1>1 DEF UsedSlots
<1>3. s \in UsedSlots(pg) <=> pg.rec[s] # Empty
  BY DEF UsedSlots
<1>4. /\ IsFiniteSet(UsedSlots(pg)) /\ Cardinality(UsedSlots(pg)) \in Nat
  BY SlotsFinite
<1>5. CASE c = Empty
  BY <1>2, <1>3, <1>4, <1>5, FS_RemoveElement
<1>6. CASE c # Empty
  BY <1>2, <1>3, <1>4, <1>6, FS_AddElement
<1> QED
  BY <1>5, <1>6

LEMMA CellFacts == /\ Val \subseteq Cell /\ Garbage \in Cell /\ Empty \in Cell
                   /\ Garbage # Empty /\ \A v \in Val : v # Empty
BY PageAssumption, LogAssumption DEF Cell

(* The page edits, with the stamp that follows them. *)
LEMMA PageOKAfterInsert ==
  ASSUME NEW pg, PageOK(pg), NEW s \in Slots, pg.rec[s] = Empty, NEW v \in Val,
         NEW l \in [pn : Int, off : Int], NEW e \in Nat
  PROVE  PageOK([InsertInto(pg, s, v) EXCEPT !.lsn = l, !.era = e])
<1> DEFINE q == [InsertInto(pg, s, v) EXCEPT !.lsn = l, !.era = e]
<1> SUFFICES PageOK(q)
  OBVIOUS
<1>1. q \in Page /\ q.num = pg.num + 1 /\ q.rec = [pg.rec EXCEPT ![s] = v]
  <2> DEFINE R == [pg.rec EXCEPT ![s] = v]
             N == IF pg.num + 1 = RecordsPerPage THEN PageFull ELSE pg.next
             M == pg.num + 1
  <2>1. pg \in Page /\ pg.num \in Int /\ pg.next \in Int /\ pg.rec \in [Slots -> Cell]
    BY DEF PageOK, Page
  <2>2. R \in [Slots -> Cell] /\ N \in Int /\ M \in Int
    BY <2>1, CellFacts DEF PageFull
  <2>3. q = [pg EXCEPT !.rec = R, !.num = M, !.next = N, !.lsn = l, !.era = e]
    BY <2>1 DEF InsertInto, Page
  <2> HIDE DEF q, R, N, M
  <2>4. q \in Page /\ q.num = M /\ q.rec = R
    BY <2>1, <2>2, <2>3 DEF Page
  <2> QED
    BY <2>4 DEF R, M
<1>2. pg \in Page /\ pg.num \in Int /\ pg.num <= Cardinality(UsedSlots(pg))
  BY DEF PageOK, Page
<1> HIDE DEF q
<1>3. Cardinality(UsedSlots(q)) = Cardinality(UsedSlots(pg)) + 1
  <2>1. v # Empty
    BY CellFacts
  <2> QED
    BY <1>1, <1>2, <2>1, OnlySlotChanges
<1>4. Cardinality(UsedSlots(pg)) \in Nat /\ Cardinality(UsedSlots(q)) \in Nat
  BY SlotsFinite
<1> QED
  BY <1>1, <1>2, <1>3, <1>4 DEF PageOK

LEMMA PageOKAfterDelete ==
  ASSUME NEW pg, PageOK(pg), NEW s \in Slots, NEW ff \in Int,
         NEW l \in [pn : Int, off : Int], NEW e \in Nat
  PROVE  PageOK([DeleteFrom(pg, s, ff) EXCEPT !.lsn = l, !.era = e])
<1> DEFINE q == [DeleteFrom(pg, s, ff) EXCEPT !.lsn = l, !.era = e]
<1> SUFFICES PageOK(q)
  OBVIOUS
<1>1. q \in Page /\ q.num = pg.num - 1 /\ q.rec = [pg.rec EXCEPT ![s] = Empty]
  <2> DEFINE R == [pg.rec EXCEPT ![s] = Empty]
             N == IF pg.num = RecordsPerPage THEN ff ELSE pg.next
             M == pg.num - 1
  <2>1. pg \in Page /\ pg.num \in Int /\ pg.next \in Int /\ pg.rec \in [Slots -> Cell]
    BY DEF PageOK, Page
  <2>2. R \in [Slots -> Cell] /\ N \in Int /\ M \in Int
    BY <2>1, CellFacts DEF PageFull
  <2>3. q = [pg EXCEPT !.rec = R, !.num = M, !.next = N, !.lsn = l, !.era = e]
    BY <2>1 DEF DeleteFrom, Page
  <2> HIDE DEF q, R, N, M
  <2>4. q \in Page /\ q.num = M /\ q.rec = R
    BY <2>1, <2>2, <2>3 DEF Page
  <2> QED
    BY <2>4 DEF R, M
<1>2. pg \in Page /\ pg.num \in Int /\ pg.num <= Cardinality(UsedSlots(pg))
  BY DEF PageOK, Page
<1> HIDE DEF q
<1>3. Cardinality(UsedSlots(q)) >= Cardinality(UsedSlots(pg)) - 1
  BY <1>1, <1>2, OnlySlotChanges, SlotsFinite
<1>4. Cardinality(UsedSlots(pg)) \in Nat /\ Cardinality(UsedSlots(q)) \in Nat
  BY SlotsFinite
<1> QED
  BY <1>1, <1>2, <1>3, <1>4 DEF PageOK

LEMMA PageOKAfterPut ==
  ASSUME NEW pg, PageOK(pg), NEW s \in Slots, NEW c \in Cell, c # Empty,
         NEW l \in [pn : Int, off : Int], NEW e \in Nat
  PROVE  PageOK([PutAt(pg, s, c) EXCEPT !.lsn = l, !.era = e])
<1> DEFINE q == [PutAt(pg, s, c) EXCEPT !.lsn = l, !.era = e]
<1> SUFFICES PageOK(q)
  OBVIOUS
<1>1. q \in Page /\ q.num = pg.num /\ q.rec = [pg.rec EXCEPT ![s] = c]
  BY DEF PageOK, Page, PutAt
<1>2. pg \in Page /\ pg.num \in Int /\ pg.num <= Cardinality(UsedSlots(pg))
  BY DEF PageOK, Page
<1> HIDE DEF q
<1>3. Cardinality(UsedSlots(q)) >= Cardinality(UsedSlots(pg))
  BY <1>1, <1>2, OnlySlotChanges, SlotsFinite
<1>4. Cardinality(UsedSlots(pg)) \in Nat /\ Cardinality(UsedSlots(q)) \in Nat
  BY SlotsFinite
<1> QED
  BY <1>1, <1>2, <1>3, <1>4 DEF PageOK

LEMMA PageOKAfterStamp ==
  ASSUME NEW pg, PageOK(pg), NEW l \in [pn : Int, off : Int], NEW e \in Nat
  PROVE  PageOK([pg EXCEPT !.lsn = l, !.era = e])
<1> DEFINE q == [pg EXCEPT !.lsn = l, !.era = e]
<1> SUFFICES PageOK(q)
  OBVIOUS
<1>1. q \in Page /\ q.num = pg.num /\ q.rec = pg.rec
  BY DEF PageOK, Page
<1> QED
  BY <1>1 DEF PageOK, UsedSlots

LEMMA BlankOK == PageOK(BlankPage)
<1>1. BlankPage \in Page /\ BlankPage.num = 0
  BY CellFacts DEF BlankPage, Page, ListEnd, ZeroLSN, LSN
<1> QED
  BY <1>1, SlotsFinite DEF PageOK

(* Where a record or its RID is. *)
LEMMA RecordPlace ==
  ASSUME PagesOK
  PROVE  /\ \A r \in Records : /\ r \in Rid /\ r[1] \in DOMAIN rel /\ r[2] \in Slots
                               /\ Contents[r] \in Cell /\ Contents[r] # Empty
         /\ \A r \in Rid \cup {NoRid} :
              Readable(r[1]) => /\ r \in Rid
                                /\ r[1] \in DOMAIN rel /\ r[2] \in Slots
<1>1. ASSUME NEW r \in Records
      PROVE  /\ r \in Rid /\ r[1] \in DOMAIN rel /\ r[2] \in Slots
             /\ Contents[r] \in Cell /\ Contents[r] # Empty
  <2>1. r \in Rid /\ Contents[r] # Empty /\ r[2] \in Slots
    BY DEF Records, Rid
  <2>2. r[1] \in DOMAIN rel /\ Contents[r] = rel[r[1]].rec[r[2]]
    BY <2>1 DEF Contents, ContentsOf
  <2>3. rel[r[1]].rec[r[2]] \in Cell
    BY <2>1, <2>2 DEF PagesOK, PageOK, Page
  <2> QED
    BY <2>1, <2>2, <2>3
<1>2. ASSUME NEW r \in Rid \cup {NoRid}, Readable(r[1])
      PROVE  r \in Rid /\ r[1] \in DOMAIN rel /\ r[2] \in Slots
  <2>1. r[1] \in DOMAIN rel /\ r[1] \in 1 .. MaxPages
    BY <1>2 DEF Readable, PagesOK
  <2>2. r # NoRid
    BY <2>1 DEF NoRid
  <2> QED
    BY <2>1, <2>2 DEF Rid
<1> QED
  BY <1>1, <1>2

-------------------------------------------------------------------------------
(* The log. *)

LEMMA OlderTransitive ==
  \A a, b, c : IsLSN(a) /\ IsLSN(b) /\ IsLSN(c) /\ Older(a, b) /\ Older(b, c)
                 => Older(a, c)
BY DEF IsLSN, Older

LEMMA PosFacts == /\ \A l \in Pos : IsLSN(l) /\ l # LogEOF
                  /\ \A l \in Pos : l = LSN(l.pn, l.off)
                  /\ \A l \in Pos \cup {LogEOF} : l \in [pn : Int, off : Int]
                  /\ ZeroLSN \in Pos
BY LogAssumption DEF Pos, IsLSN, LogEOF, ZeroLSN, LSN

(* The records of the current page are those up to lastRec. *)
LEMMA CurrentPage ==
  ASSUME LogPlaced, LastNewest, LogOK, CurrFilled, lastRec # LogEOF
  PROVE  Cardinality(OnPage(curr)) = lastRec.off + 1
<1>1. /\ lastRec \in DOMAIN log /\ curr = lastRec.pn
      /\ lastRec \in Pos
      /\ \A l \in DOMAIN log : ~Older(lastRec, l) /\ l \in Pos
      /\ \A o \in 0 .. lastRec.off : LSN(curr, o) \in DOMAIN log
  BY DEF LastNewest, CurrFilled, LogOK, RecordOK
<1>2. lastRec.off \in Nat /\ curr \in Nat
  BY <1>1, LogAssumption DEF Pos
<1>3. \A l \in OnPage(curr) : l.off \in 0 .. lastRec.off /\ l = LSN(curr, l.off)
  <2> SUFFICES ASSUME NEW l \in OnPage(curr)
               PROVE  l.off \in 0 .. lastRec.off /\ l = LSN(curr, l.off)
    OBVIOUS
  <2>1. l \in Pos /\ l.pn = curr /\ ~Older(lastRec, l)
    BY <1>1 DEF OnPage
  <2>2. l.off \in Nat /\ l = LSN(l.pn, l.off)
    BY <2>1, PosFacts, LogAssumption DEF Pos
  <2> QED
    BY <1>1, <1>2, <2>1, <2>2 DEF Older
<1> DEFINE f == [o \in 0 .. lastRec.off |-> LSN(curr, o)]
<1>4. \A o \in 0 .. lastRec.off : f[o] \in OnPage(curr)
  BY <1>1 DEF OnPage, LSN
<1>5. \A o, n \in 0 .. lastRec.off : f[o] = f[n] => o = n
  BY DEF LSN
<1>6. \A l \in OnPage(curr) : \E o \in 0 .. lastRec.off : f[o] = l
  BY <1>3
<1>7. f \in [0 .. lastRec.off -> OnPage(curr)]
  BY <1>4
<1> HIDE DEF f
<1>8. f \in Bijection(0 .. lastRec.off, OnPage(curr))
  BY <1>5, <1>6, <1>7 DEF Bijection, Injection, IsInjective, Surjection
<1>9. /\ IsFiniteSet(0 .. lastRec.off)
      /\ Cardinality(0 .. lastRec.off) = lastRec.off + 1
  BY <1>2, FS_Interval
<1> QED
  BY <1>8, <1>9, FS_Bijection DEF ExistsBijection

(* InsertLogRec puts a record at the next position. *)
LEMMA NextPlace ==
  ASSUME LogPlaced, LastNewest, LogOK, CurrFilled
  PROVE  /\ NextLSN \in Pos
         /\ lastRec # LogEOF => NextLSN = Successor(lastRec)
         /\ \A o \in 0 .. NextLSN.off : o # NextLSN.off => LSN(NextLSN.pn, o) \in DOMAIN log
<1>1. CASE lastRec = LogEOF
  <2>1. NextLSN = LSN(logPages, 0)
    BY <1>1 DEF NextLSN, NeedsNewPage
  <2> QED
    BY <1>1, <2>1, LogAssumption DEF Pos, LSN, LogPlaced
<1>2. CASE lastRec # LogEOF
  <2>1. /\ lastRec \in Pos /\ curr = lastRec.pn /\ logPages = curr + 1
        /\ \A o \in 0 .. lastRec.off : LSN(curr, o) \in DOMAIN log
    BY <1>2 DEF LastNewest, CurrFilled, LogOK, RecordOK
  <2>2. /\ curr \in Nat /\ lastRec.off \in Nat /\ lastRec.off < LogPageCap
        /\ LogPageCap \in Nat \ {0}
    BY <2>1, LogAssumption DEF Pos
  <2>3. NeedsNewPage <=> lastRec.off + 1 >= LogPageCap
    BY <1>2, CurrentPage DEF NeedsNewPage
  <2>4. CASE NeedsNewPage
    <3>1. NextLSN = LSN(curr + 1, 0)
      BY <2>1, <2>4 DEF NextLSN
    <3> QED
      BY <2>1, <2>2, <2>3, <2>4, <3>1 DEF Successor, Pos, LSN
  <2>5. CASE ~NeedsNewPage
    <3>1. NextLSN = LSN(curr, lastRec.off + 1)
      BY <2>5 DEF NextLSN
    <3>2. lastRec.off + 1 < LogPageCap
      BY <2>2, <2>3, <2>5
    <3> QED
      BY <2>1, <2>2, <3>1, <3>2 DEF Successor, Pos, LSN
  <2> QED
    BY <2>4, <2>5
<1> QED
  BY <1>1, <1>2

(* What may be logged. *)
BodyOK(body) ==
  /\ body.type \in LogTypes /\ body.rid \in Rid \cup {NoRid}
  /\ body.old \in Cell /\ body.new \in Cell
  /\ body.undo \in Changes \cup {"none"}
  /\ Imaged(body)
  /\ body.undonext \in BackFrom(NextLSN)

LEMMA AppendedOK ==
  ASSUME LogPlaced, LastNewest, LogOK, CurrFilled, currXID \in Nat,
         NEW body, BodyOK(body), InsertLogRec(body), UNCHANGED logDisk
  PROVE  /\ LogOK' /\ CurrFilled'
         /\ lastRec' = NextLSN /\ NextLSN \in Pos
         /\ DOMAIN log' = DOMAIN log \cup {NextLSN}
         /\ log'[NextLSN].prev = lastRec
         /\ log'[NextLSN].undonext = body.undonext
         /\ \A l \in DOMAIN log : /\ log'[l].prev = log[l].prev
                                  /\ log'[l].undonext = log[l].undonext
<1>1. /\ NextLSN \in Pos
      /\ lastRec # LogEOF => NextLSN = Successor(lastRec)
      /\ \A o \in 0 .. NextLSN.off : o # NextLSN.off => LSN(NextLSN.pn, o) \in DOMAIN log
  BY NextPlace
<1>2. /\ \A l \in DOMAIN log : Older(l, NextLSN)
      /\ NextLSN.pn = IF NeedsNewPage THEN logPages ELSE curr
  BY NextIsNewest
<1>3. NextLSN \notin DOMAIN log
  BY <1>1, <1>2, PosFacts DEF IsLSN, Older
<1> DEFINE recd == [type |-> body.type, rid |-> body.rid, old |-> body.old,
                    new |-> body.new, undo |-> body.undo,
                    undonext |-> body.undonext,
                    xid |-> currXID, prev |-> lastRec, next |-> LogEOF]
<1>4. /\ log' = [k \in DOMAIN log \cup {NextLSN} |->
                   IF k = NextLSN THEN recd ELSE LinkLast(NextLSN)[k]]
      /\ lastRec' = NextLSN /\ curr' = NextLSN.pn
      /\ logPages' = IF NeedsNewPage THEN logPages + 1 ELSE logPages
  BY DEF InsertLogRec
<1>5. /\ DOMAIN log' = DOMAIN log \cup {NextLSN}
      /\ log'[NextLSN] = recd
      /\ \A l \in DOMAIN log :
           log'[l] = IF l = lastRec /\ lastRec # LogEOF
                       THEN [log[l] EXCEPT !.next = NextLSN] ELSE log[l]
  BY <1>3, <1>4 DEF LinkLast
<1>6. lastRec # LogEOF => lastRec \in DOMAIN log /\ lastRec \in Pos
  BY DEF LastNewest, LogOK, RecordOK
<1>7. RecordOK(NextLSN, recd)
  <2>1. lastRec \in BackFrom(NextLSN)
    BY <1>2, <1>6 DEF BackFrom
  <2>2. {lastRec, body.undonext, LogEOF} \subseteq [pn : Int, off : Int]
    BY <1>6, PosFacts DEF BodyOK, BackFrom
  <2>3. recd \in LogRec
    BY <2>2 DEF BodyOK, LogRec
  <2>4. Imaged(recd)
    BY DEF BodyOK, Imaged
  <2> QED
    BY <1>1, <2>1, <2>3, <2>4 DEF RecordOK, BodyOK
<1> HIDE DEF recd
<1>8. ASSUME NEW l \in DOMAIN log
      PROVE  /\ RecordOK(l, log'[l])
             /\ log'[l].prev = log[l].prev
             /\ log'[l].undonext = log[l].undonext
  <2>1. RecordOK(l, log[l])
    BY DEF LogOK
  <2>2. CASE log'[l] = log[l]
    BY <2>1, <2>2
  <2>3. CASE l = lastRec /\ log'[l] = [log[l] EXCEPT !.next = NextLSN]
    <3>1. NextLSN = Successor(l) /\ NextLSN \in [pn : Int, off : Int]
      BY <1>1, <1>6, <2>1, <2>3, PosFacts DEF RecordOK
    <3>2. log[l] \in LogRec
      BY <2>1 DEF RecordOK
    <3>3. /\ log'[l] \in LogRec
          /\ log'[l].next = NextLSN
          /\ log'[l].type = log[l].type /\ log'[l].old = log[l].old
          /\ log'[l].new = log[l].new /\ log'[l].undo = log[l].undo
          /\ log'[l].prev = log[l].prev
          /\ log'[l].undonext = log[l].undonext
      BY <2>3, <3>1, <3>2 DEF LogRec
    <3> QED
      BY <2>1, <3>1, <3>3 DEF RecordOK, Imaged
  <2> QED
    BY <1>5, <2>2, <2>3
<1>9. LogOK'
  BY <1>5, <1>7, <1>8 DEF LogOK
<1>10. CurrFilled'
  <2>1. logPages' = curr' + 1
    BY <1>2, <1>4 DEF LogPlaced, CurrFilled, NeedsNewPage
  <2>2. LSN(NextLSN.pn, NextLSN.off) = NextLSN
    BY <1>1, PosFacts
  <2> QED
    BY <1>1, <1>4, <1>5, <2>1, <2>2 DEF CurrFilled, LSN
<1>11. log'[NextLSN].prev = lastRec /\ log'[NextLSN].undonext = body.undonext
  BY <1>5 DEF recd
<1> QED
  BY <1>1, <1>4, <1>5, <1>8, <1>9, <1>10, <1>11

(* The chain from a new record is that of the records it refers to. *)
LEMMA TrailAppended ==
  ASSUME LogPlaced, LastNewest, LogOK, CurrFilled, currXID \in Nat,
         NEW body, BodyOK(body), InsertLogRec(body), UNCHANGED logDisk,
         NEW S, Trail(S), {lastRec, body.undonext} \subseteq S \cup {LogEOF},
         NEW T, T = S \cup {NextLSN}
  PROVE  Trail(T)'
<1>1. /\ DOMAIN log' = DOMAIN log \cup {NextLSN}
      /\ log'[NextLSN].prev = lastRec
      /\ log'[NextLSN].undonext = body.undonext
      /\ \A l \in DOMAIN log : /\ log'[l].prev = log[l].prev
                               /\ log'[l].undonext = log[l].undonext
  BY AppendedOK
<1>2. T \subseteq DOMAIN log'
  BY <1>1 DEF Trail
<1>3. ASSUME NEW l \in T
      PROVE  {log'[l].prev, log'[l].undonext} \subseteq T \cup {LogEOF}
  <2>1. CASE l = NextLSN
    BY <1>1, <2>1
  <2>2. CASE l \in S
    BY <1>1, <2>2 DEF Trail
  <2> QED
    BY <2>1, <2>2
<1> QED
  BY <1>2, <1>3 DEF Trail

-------------------------------------------------------------------------------
(* Steps.  First, those that leave the pages and the log as they are. *)

LEMMA SteadyStep ==
  ASSUME TypeInv, Scalars',
         UNCHANGED <<logDisk, relDisk, log, logPages, lastRec, curr, rel, held>>,
         Undoing' => Undoing /\ cur' = cur,
         Redoing' => Redoing /\ cur' = cur
  PROVE  TypeInv'
<1>1. LogOK' /\ PagesOK'
  BY DEF TypeInv, LogOK, PagesOK
<1>2. CurrFilled'
  BY DEF TypeInv, CurrFilled, LogEOF, LSN
<1>3. UndoTrail'
  <2>1. PICK S : Trail(S) /\ lastRec \in S \cup {LogEOF}
                 /\ (Undoing => cur \in S \cup {LogEOF})
    BY DEF TypeInv, UndoTrail
  <2>2. Trail(S)'
    BY <2>1 DEF Trail, LogEOF, LSN
  <2> QED
    BY <2>1, <2>2 DEF UndoTrail, LogEOF, LSN
<1>4. RedoReached'
  BY DEF TypeInv, RedoReached, LogEOF, LSN, Older, Pos
<1> QED
  BY <1>1, <1>2, <1>3, <1>4 DEF TypeInv

(* Those that log a record: a compensation record goes back to before the  *)
(* one it is for.                                                          *)
LEMMA LoggingStep ==
  ASSUME TypeInv, LogInv, NEW body, BodyOK(body), InsertLogRec(body),
         UNCHANGED logDisk, Scalars', PagesOK', ~Redoing',
         \/ body.undonext = LogEOF
         \/ Undoing /\ cur # LogEOF /\ body.undonext = log[cur].prev,
         Undoing' => Undoing /\ cur # LogEOF /\ cur' \in {cur, log[cur].prev}
  PROVE  TypeInv'
<1>1. /\ LogPlaced /\ LastNewest /\ LogOK /\ CurrFilled /\ currXID \in Nat
  BY DEF LogInv, TypeInv, Scalars
<1>2. LogOK' /\ CurrFilled' /\ lastRec' = NextLSN
  BY <1>1, AppendedOK
<1>3. PICK S : Trail(S) /\ lastRec \in S \cup {LogEOF}
               /\ (Undoing => cur \in S \cup {LogEOF})
  BY DEF TypeInv, UndoTrail
<1>4. {lastRec, body.undonext} \subseteq S \cup {LogEOF}
  BY <1>3 DEF Trail
<1>5. PICK T : T = S \cup {NextLSN}
  OBVIOUS
<1>6. Trail(T)'
  BY <1>1, <1>3, <1>4, <1>5, TrailAppended
<1>7. Undoing' => cur' \in T \cup {LogEOF}
  BY <1>3, <1>5 DEF Trail
<1>8. UndoTrail'
  BY <1>2, <1>5, <1>6, <1>7 DEF UndoTrail, LogEOF, LSN
<1>9. RedoReached'
  BY DEF RedoReached
<1> QED
  BY <1>2, <1>8, <1>9 DEF TypeInv

LEMMA StampFacts ==
  ASSUME TypeInv, LogInv
  PROVE  /\ NextLSN \in [pn : Int, off : Int] /\ NextLSN \in Pos
         /\ LogEOF \in BackFrom(NextLSN)
         /\ era \in Nat
<1>1. NextLSN \in Pos
  BY NextPlace DEF TypeInv, LogInv
<1>2. era \in Nat
  BY LogAssumption DEF TypeInv, Scalars
<1> QED
  BY <1>1, <1>2, PosFacts DEF BackFrom

LEMMA ControlOK ==
  ASSUME TypeInv, LogInv, NEW t \in {"commit", "abort", "end"}
  PROVE  BodyOK(Control(t)) /\ Control(t).undonext = LogEOF
BY StampFacts, CellFacts DEF BodyOK, Control, Body, LogTypes, Imaged

LEMMA BodyIsOK ==
  ASSUME TypeInv, LogInv, NEW t \in Changes, NEW r \in Rid \cup {NoRid},
         NEW o \in Cell, NEW n \in Cell,
         t \in {"delete", "update"} => o # Empty,
         t \in {"insert", "update"} => n # Empty
  PROVE  BodyOK(Body(t, r, o, n)) /\ Body(t, r, o, n).undonext = LogEOF
BY StampFacts DEF BodyOK, Body, LogTypes, Changes, Imaged

LEMMA InsertKeepsTypes ==
  ASSUME TypeInv, LogInv, ChainInv, NEW v \in Val, InsertRec(v)
  PROVE  TypeInv'
<1>1. /\ pc = "open" /\ stmt \in {"insert", "load"} /\ stmt' = stmt
      /\ UNCHANGED <<logDisk, relDisk, relDiskPages, relDiskFirst>>
      /\ UNCHANGED <<inTxn, currXID, auto, cur, undoXid, skipped, torn, fresh,
                     reused, leftover, era, crashes>>
  BY DEF InsertRec, diskVars, txnVars, history
<1>2. /\ v \in Cell /\ v # Empty /\ Empty \in Cell
      /\ NextLSN \in [pn : Int, off : Int] /\ era \in Nat
  BY CellFacts, StampFacts
<1>3. CASE InsertInNewPage(v)
  <2> DEFINE pg   == Stamp(InsertInto(BlankPage, 0, v))
             body == Body("insert", <<relPages, 0>>, Empty, v)
  <2>1. /\ relPages <= MaxPages /\ relPages' = relPages + 1 /\ pc' = pc
        /\ held' = held /\ held = 0
        /\ InsertLogRec(body)
        /\ rel' = [q \in DOMAIN rel \cup {relPages} |->
                     IF q = relPages THEN pg ELSE rel[q]]
        /\ relFirst' = FirstFreeAfterInsert(BlankPage, relPages)
    BY <1>1, <1>3 DEF InsertInNewPage, TypeInv, Scalars
  <2>2. relPages \in 1 .. MaxPages /\ MaxPages \in Nat /\ 0 \in Slots
    BY <2>1, LogAssumption, PageAssumption DEF TypeInv, Scalars, Slots
  <2>3. BodyOK(body) /\ body.undonext = LogEOF
    BY <1>2, <2>2, BodyIsOK DEF Changes, Rid
  <2>4. PageOK(pg)
    BY <1>2, <2>2, BlankOK, PageOKAfterInsert DEF Stamp, BlankPage
  <2>5. Scalars'
    BY <1>1, <2>1, <2>2
       DEF TypeInv, Scalars, FirstFreeAfterInsert, BlankPage, ListEnd
  <2> HIDE DEF pg, body
  <2>6. PagesOK'
    BY <1>1, <2>1, <2>2, <2>4 DEF TypeInv, PagesOK, PageOK
  <2> QED
    BY <1>1, <2>1, <2>3, <2>5, <2>6, LoggingStep DEF Undoing, Redoing
<1>4. CASE InsertInFreePage(v)
  <2> DEFINE s    == FindAvailableSlot(rel[relFirst])
             pg   == Stamp(InsertInto(rel[relFirst], s, v))
             body == Body("insert", <<relFirst, s>>, Empty, v)
  <2>1. /\ Readable(relFirst) /\ HasRoom(rel[relFirst])
        /\ InsertLogRec(body) /\ pc' = pc /\ relPages' = relPages
        /\ held' = held /\ held = 0
        /\ rel' = [rel EXCEPT ![relFirst] = pg]
        /\ relFirst' = FirstFreeAfterInsert(rel[relFirst], relFirst)
    BY <1>1, <1>4 DEF InsertInFreePage, TypeInv, Scalars
  <2>2. /\ relFirst \in DOMAIN rel /\ relFirst \in 1 .. MaxPages
        /\ PageOK(rel[relFirst])
    BY <2>1 DEF Readable, TypeInv, PagesOK
  <2>3. s \in Slots /\ rel[relFirst].rec[s] = Empty
    BY <2>1, FreeSlotFound
  <2> HIDE DEF s
  <2>4. BodyOK(body) /\ body.undonext = LogEOF
    BY <1>2, <2>2, <2>3, BodyIsOK DEF Changes, Rid
  <2>5. PageOK(pg)
    BY <1>2, <2>2, <2>3, PageOKAfterInsert DEF Stamp
  <2>6. relFirst' \in Int
    BY <2>1, <2>2 DEF PageOK, Page, FirstFreeAfterInsert
  <2>7. Scalars'
    BY <1>1, <2>1, <2>6 DEF TypeInv, Scalars
  <2> HIDE DEF pg, body
  <2>8. PagesOK'
    BY <1>1, <2>1, <2>2, <2>5 DEF TypeInv, PagesOK, PageOK
  <2> QED
    BY <1>1, <2>1, <2>4, <2>7, <2>8, LoggingStep DEF Undoing, Redoing
<1>5. CASE InsertInFullPage(v)
  <2> DEFINE body == Body("insert", NoRid, Empty, v)
  <2> DEFINE pg == CountInsert(rel[relFirst])
  <2>1. /\ InsertLogRec(body) /\ pc' = "wedged" /\ held' = relFirst
        /\ relPages' = relPages /\ relFirst \in DOMAIN rel
        /\ rel' = [rel EXCEPT ![relFirst] = pg]
        /\ relFirst' = FirstFreeAfterInsert(rel[relFirst], relFirst)
    BY <1>5 DEF InsertInFullPage, Readable
  <2>2. BodyOK(body) /\ body.undonext = LogEOF
    BY <1>2, BodyIsOK DEF Changes
  <2>3. /\ relFirst \in 1 .. MaxPages /\ MaxPages \in Nat /\ held = 0
        /\ rel[relFirst] \in Page
    BY <1>1, <2>1, LogAssumption DEF TypeInv, Scalars, PagesOK
  <2>4. pg \in Page /\ relFirst' \in Int
    <3> DEFINE N == rel[relFirst].num + 1
               M == IF rel[relFirst].num + 1 = RecordsPerPage
                      THEN PageFull ELSE rel[relFirst].next
    <3>1. N \in Int /\ M \in Int /\ relFirst' \in Int
      BY <2>1, <2>3 DEF FirstFreeAfterInsert, Page, PageFull
    <3>2. pg = [rel[relFirst] EXCEPT !.num = N, !.next = M]
      BY DEF CountInsert
    <3> HIDE DEF N, M
    <3> QED
      BY <2>3, <3>1, <3>2 DEF Page
  <2>5. Scalars'
    BY <1>1, <2>1, <2>3, <2>4 DEF TypeInv, Scalars
  <2> HIDE DEF body, pg
  <2>6. PagesOK'
    BY <1>1, <2>1, <2>3, <2>4 DEF TypeInv, PagesOK
  <2> QED
    BY <1>1, <2>1, <2>2, <2>5, <2>6, LoggingStep DEF Undoing, Redoing
<1>6. CASE InsertInLostPage
  <2>1. /\ pc' = "wedged"
        /\ UNCHANGED <<log, logPages, lastRec, curr, rel, relPages, relFirst, held>>
    BY <1>6 DEF InsertInLostPage, logVars, relVars
  <2>2. Scalars'
    BY <1>1, <2>1 DEF TypeInv, Scalars
  <2> QED
    BY <1>1, <2>1, <2>2, SteadyStep DEF Undoing, Redoing
<1> QED
  BY <1>3, <1>4, <1>5, <1>6 DEF InsertRec

LEMMA DeleteKeepsTypes ==
  ASSUME TypeInv, LogInv, NEW r \in Records, DeleteRec(r)
  PROVE  TypeInv'
<1> DEFINE p    == r[1]
           pg   == Stamp(DeleteFrom(rel[p], r[2], relFirst))
           body == Body("delete", r, Contents[r], Empty)
<1>1. /\ pc = "open" /\ pc' = pc /\ stmt' = stmt
      /\ InsertLogRec(body)
      /\ rel' = [rel EXCEPT ![p] = pg]
      /\ relFirst' = FirstFreeAfterDelete(rel[p], p, relFirst)
      /\ held = 0
      /\ UNCHANGED <<logDisk, relDisk, relDiskPages, relDiskFirst, relPages, held>>
      /\ UNCHANGED <<inTxn, currXID, auto, cur, undoXid, skipped, torn, fresh,
                     reused, leftover, era, crashes>>
  BY DEF DeleteRec, diskVars, txnVars, ctlVars, history, TypeInv, Scalars
<1>2. /\ r \in Rid /\ p \in DOMAIN rel /\ r[2] \in Slots
      /\ Contents[r] \in Cell /\ Contents[r] # Empty
      /\ Empty \in Cell
      /\ NextLSN \in [pn : Int, off : Int] /\ era \in Nat
  BY RecordPlace, CellFacts, StampFacts DEF TypeInv
<1>3. /\ p \in 1 .. MaxPages /\ PageOK(rel[p]) /\ relFirst \in Int
  BY <1>1, <1>2 DEF TypeInv, PagesOK, Scalars
<1>4. BodyOK(body) /\ body.undonext = LogEOF
  BY <1>2, BodyIsOK DEF Changes
<1>5. PageOK(pg)
  BY <1>2, <1>3, PageOKAfterDelete DEF Stamp
<1>6. relFirst' \in Int
  BY <1>1, <1>3 DEF FirstFreeAfterDelete
<1>7. Scalars'
  BY <1>1, <1>6 DEF TypeInv, Scalars
<1> HIDE DEF p, pg, body
<1>8. PagesOK'
  BY <1>1, <1>2, <1>3, <1>5 DEF TypeInv, PagesOK, PageOK
<1> QED
  BY <1>1, <1>4, <1>7, <1>8, LoggingStep DEF Undoing, Redoing

LEMMA UpdateKeepsTypes ==
  ASSUME TypeInv, LogInv, NEW r \in Records, NEW v \in Val, UpdateRec(r, v)
  PROVE  TypeInv'
<1> DEFINE p    == r[1]
           pg   == Stamp(PutAt(rel[p], r[2], v))
           body == Body("update", r, Contents[r], v)
<1>1. /\ pc = "open" /\ pc' = pc /\ stmt' = stmt
      /\ InsertLogRec(body)
      /\ rel' = [rel EXCEPT ![p] = pg]
      /\ UNCHANGED <<logDisk, relDisk, relDiskPages, relDiskFirst, relPages,
                     relFirst, held>>
      /\ held = 0
      /\ UNCHANGED <<inTxn, currXID, auto, cur, undoXid, skipped, torn, fresh,
                     reused, leftover, era, crashes>>
  BY DEF UpdateRec, diskVars, txnVars, ctlVars, history, TypeInv, Scalars
<1>2. /\ r \in Rid /\ p \in DOMAIN rel /\ r[2] \in Slots
      /\ Contents[r] \in Cell /\ Contents[r] # Empty
      /\ v \in Cell /\ v # Empty
      /\ NextLSN \in [pn : Int, off : Int] /\ era \in Nat
  BY RecordPlace, CellFacts, StampFacts DEF TypeInv
<1>3. p \in 1 .. MaxPages /\ PageOK(rel[p])
  BY <1>1, <1>2 DEF TypeInv, PagesOK
<1>4. BodyOK(body) /\ body.undonext = LogEOF
  BY <1>2, BodyIsOK DEF Changes
<1>5. PageOK(pg)
  BY <1>2, <1>3, PageOKAfterPut DEF Stamp
<1>6. Scalars'
  BY <1>1 DEF TypeInv, Scalars
<1> HIDE DEF p, pg, body
<1>7. PagesOK'
  BY <1>1, <1>2, <1>3, <1>5 DEF TypeInv, PagesOK, PageOK
<1> QED
  BY <1>1, <1>4, <1>6, <1>7, LoggingStep DEF Undoing, Redoing

(* COMMIT, ABORT and END records. *)
LEMMA ControlKeepsTypes ==
  ASSUME TypeInv, LogInv, CommitT \/ AbortT \/ UndoEndAbort
  PROVE  TypeInv'
<1>1. PICK t \in {"commit", "abort", "end"} : InsertLogRec(Control(t))
  BY DEF CommitT, AbortT, UndoEndAbort
<1>2. /\ UNCHANGED <<logDisk, relDisk, rel, held>> /\ pc # "wedged"
      /\ pc' \in {"committing", "aborting", "ending"}
  BY DEF CommitT, AbortT, UndoEndAbort, diskVars, relVars
<1>3. Scalars'
  BY DEF CommitT, AbortT, UndoEndAbort, diskVars, relVars, txnVars, history,
         TypeInv, Scalars
<1>4. PagesOK'
  BY <1>2 DEF TypeInv, PagesOK
<1> QED
  BY <1>1, <1>2, <1>3, <1>4, ControlOK, LoggingStep DEF Undoing, Redoing

-------------------------------------------------------------------------------
(* Rollback. *)

(* Undo is at a record of the log, or past the first of its trail. *)
LEMMA UndoAtRecord ==
  ASSUME TypeInv, pc = "undo", cur # LogEOF
  PROVE  cur \in DOMAIN log /\ RecordOK(cur, log[cur])
BY DEF TypeInv, UndoTrail, Undoing, Trail, LogOK

LEMMA UndoKeepsTypes ==
  ASSUME TypeInv, LogInv, ChainInv, UndoChange
  PROVE  TypeInv'
<1> DEFINE body == CLR(cur)
<1>1. /\ pc = "undo" /\ cur # LogEOF /\ log[cur].type \in Changes
      /\ InsertLogRec(body)
      /\ UNCHANGED <<logDisk, relDisk, relDiskPages, relDiskFirst>>
      /\ UNCHANGED <<inTxn, currXID, auto, stmt, undoXid, skipped, torn, fresh,
                     reused, leftover, era, crashes>>
  BY DEF UndoChange, UndoStops, diskVars, txnVars, history
<1>2. cur \in DOMAIN log /\ RecordOK(cur, log[cur])
  BY <1>1, UndoAtRecord
<1>3. /\ log[cur].rid \in Rid \cup {NoRid} /\ log[cur].old \in Cell
      /\ Empty \in Cell
      /\ log[cur].type \in {"delete", "update"} => log[cur].old # Empty
  BY <1>2, CellFacts DEF RecordOK, LogRec, Imaged
<1>4. log[cur].prev \in BackFrom(NextLSN)
  <2>1. Older(cur, NextLSN) /\ IsLSN(cur) /\ IsLSN(NextLSN)
    BY <1>2, NextIsNewest, PosFacts DEF LogInv, RecordOK
  <2>2. log[cur].prev \in BackFrom(cur)
    BY <1>2 DEF RecordOK
  <2> QED
    BY <2>1, <2>2, OlderTransitive, PosFacts DEF BackFrom
<1>5. BodyOK(body)
  BY <1>1, <1>3, <1>4, CellFacts DEF BodyOK, CLR, LogTypes, Changes, Imaged
<1>6. body.undonext = log[cur].prev
  BY DEF CLR
<1>7. /\ NextLSN \in [pn : Int, off : Int] /\ era \in Nat
  BY StampFacts
<1> HIDE DEF body
<1>8. CASE CanUndo(cur) /\ UndoPage(cur) /\ pc' = "closing" /\ cur' = log[cur].prev
  <2> DEFINE p   == log[cur].rid[1]
             s   == log[cur].rid[2]
             del == Stamp(DeleteFrom(rel[p], s, relFirst))
             put == Stamp(PutAt(rel[p], s, log[cur].old))
  <2>1. /\ log[cur].rid \in Rid /\ p \in DOMAIN rel /\ s \in Slots
        /\ p \in 1 .. MaxPages /\ PageOK(rel[p]) /\ relFirst \in Int
    BY <1>1, <1>3, <1>8, RecordPlace DEF CanUndo, TypeInv, PagesOK, Scalars
  <2>2. PageOK(del)
    BY <1>7, <2>1, PageOKAfterDelete DEF Stamp
  <2>3. log[cur].type # "insert" => PageOK(put)
    BY <1>1, <1>3, <1>7, <2>1, PageOKAfterPut DEF Stamp, Changes
  <2>4. /\ rel' = [rel EXCEPT ![p] = IF log[cur].type = "insert" THEN del ELSE put]
        /\ relFirst' \in {FirstFreeAfterDelete(rel[p], p, relFirst), relFirst}
        /\ relPages' = relPages /\ held' = held /\ held = 0
    BY <1>1, <1>8 DEF UndoPage, TypeInv, Scalars
  <2>5. relFirst' \in Int
    BY <2>1, <2>4 DEF FirstFreeAfterDelete
  <2>6. Scalars'
    BY <1>1, <1>8, <2>4, <2>5 DEF TypeInv, Scalars
  <2> HIDE DEF p, s, del, put
  <2>7. PagesOK'
    BY <1>1, <2>1, <2>2, <2>3, <2>4 DEF TypeInv, PagesOK, PageOK
  <2>8. Undoing /\ ~Redoing'
    BY <1>1, <1>8 DEF Undoing, Redoing, ChainInv, PhaseKnown
  <2> QED
    BY <1>1, <1>5, <1>6, <1>8, <2>6, <2>7, <2>8, LoggingStep
<1>9. CASE GiveUp /\ StampOnly(log[cur].rid[1]) /\ cur' = cur
  <2> DEFINE p  == log[cur].rid[1]
             pg == Stamp(rel[p])
  <2>1. pc' \in {"wedged", "failed"}
    BY <1>9 DEF GiveUp
  <2>2. /\ UNCHANGED <<relPages, relFirst, held>>
        /\ IF Readable(p) THEN rel' = [rel EXCEPT ![p] = pg] ELSE rel' = rel
    BY <1>9 DEF StampOnly
  <2>3. Readable(p) => /\ p \in DOMAIN rel /\ p # held /\ PageOK(rel[p])
    BY <1>1 DEF Readable, TypeInv, Scalars, PagesOK
  <2>4. Readable(p) => PageOK(pg)
    BY <1>7, <2>3, PageOKAfterStamp DEF Stamp
  <2>5. Scalars'
    BY <1>1, <1>9, <2>1, <2>2 DEF TypeInv, Scalars
  <2> HIDE DEF p, pg
  <2>6. PagesOK'
    BY <1>1, <2>2, <2>3, <2>4 DEF TypeInv, PagesOK, PageOK
  <2> QED
    BY <1>1, <1>5, <1>6, <2>1, <2>5, <2>6, LoggingStep DEF Undoing, Redoing
<1> QED
  BY <1>8, <1>9 DEF UndoChange

(* Undo on a record that is not to be undone. *)
LEMMA UndoMovesKeepTypes ==
  ASSUME TypeInv, LogInv, ChainInv,
         UndoSkip \/ AbortForced \/ UndoEndRecover
  PROVE  TypeInv'
<1>1. PICK S : Trail(S) /\ lastRec \in S \cup {LogEOF}
               /\ (Undoing => cur \in S \cup {LogEOF})
  BY DEF TypeInv, UndoTrail
<1>2. UNCHANGED <<logDisk, relDisk, log, logPages, curr, rel, held>>
  BY DEF UndoSkip, AbortForced, UndoEndRecover, diskVars, logVars, relVars
<1>3. Scalars'
  BY DEF UndoSkip, AbortForced, UndoEndRecover, diskVars, logVars, relVars, txnVars,
         history, TypeInv, Scalars
<1>4. lastRec' \in {lastRec, LogEOF}
  BY DEF UndoSkip, AbortForced, UndoEndRecover, logVars
<1>5. ~Redoing'
  BY DEF UndoSkip, AbortForced, UndoEndRecover, Redoing, ChainInv, PhaseKnown
<1>6. Undoing' => cur' \in S \cup {LogEOF}
  <2>1. CASE UndoSkip
    <3>1. pc = "undo" /\ cur # LogEOF /\ cur' \in {log[cur].prev, log[cur].undonext}
      BY <2>1 DEF UndoSkip, UndoStops
    <3> QED
      BY <1>1, <3>1 DEF Undoing, Trail
  <2>2. CASE AbortForced
    BY <1>1, <2>2 DEF AbortForced
  <2>3. CASE UndoEndRecover
    BY <2>3 DEF UndoEndRecover, Undoing
  <2> QED
    BY <2>1, <2>2, <2>3
<1>7. Trail(S)'
  BY <1>1, <1>2 DEF Trail, LogEOF, LSN
<1>8. UndoTrail'
  BY <1>1, <1>4, <1>6, <1>7 DEF UndoTrail, LogEOF, LSN
<1>9. LogOK' /\ PagesOK'
  BY <1>2 DEF TypeInv, LogOK, PagesOK
<1>10. CurrFilled'
  BY <1>2, <1>4 DEF TypeInv, CurrFilled, LogEOF, LSN
<1>11. RedoReached'
  BY <1>5 DEF RedoReached
<1> QED
  BY <1>3, <1>8, <1>9, <1>10, <1>11 DEF TypeInv

-------------------------------------------------------------------------------
(* Redo. *)

(* Redo has found every record up to the one it is at; what is behind it   *)
(* is the next one's position, and the records found refer to each other.  *)
LEMMA RedoneTrail ==
  ASSUME TypeInv, pc = "redo", cur \in DOMAIN log
  PROVE  /\ RecordOK(cur, log[cur])
         /\ lastRec = LogEOF
         /\ log[cur].next # LogEOF =>
              /\ log[cur].next \in Pos
              /\ \A l \in Pos : Older(l, log[cur].next) => l \in DOMAIN log
         /\ \E S : Trail(S) /\ cur \in S
<1>1. /\ lastRec = LogEOF /\ cur \in Pos
      /\ \A l \in Pos : Older(l, cur) => l \in DOMAIN log
      /\ RecordOK(cur, log[cur])
      /\ \A l \in DOMAIN log : RecordOK(l, log[l])
  BY DEF TypeInv, RedoReached, Redoing, LogOK
<1>2. ASSUME log[cur].next # LogEOF
      PROVE  /\ log[cur].next \in Pos
             /\ \A l \in Pos : Older(l, log[cur].next) => l \in DOMAIN log
  <2>1. log[cur].next = Successor(cur)
    BY <1>1, <1>2 DEF RecordOK
  <2>2. Successor(cur) \in Pos
    BY <1>1, LogAssumption DEF Successor, Pos, LSN
  <2>3. ASSUME NEW l \in Pos, Older(l, Successor(cur))
        PROVE  l = cur \/ Older(l, cur)
    <3>1. /\ l = LSN(l.pn, l.off) /\ cur = LSN(cur.pn, cur.off)
          /\ l.pn \in Nat /\ l.off \in 0 .. LogPageCap - 1
          /\ cur.pn \in Nat /\ cur.off \in 0 .. LogPageCap - 1
          /\ LogPageCap \in Nat
      BY <1>1, <2>3, PosFacts, LogAssumption DEF Pos
    <3>2. CASE cur.off + 1 < LogPageCap
      <4>1. l.pn < cur.pn \/ (l.pn = cur.pn /\ l.off < cur.off + 1)
        BY <2>3, <3>2 DEF Successor, Older, LSN
      <4>2. l.pn = cur.pn /\ l.off = cur.off => l = cur
        BY <3>1
      <4> QED
        BY <3>1, <4>1, <4>2 DEF Older
    <3>3. CASE cur.off = LogPageCap - 1
      <4>1. l.pn < cur.pn + 1
        BY <2>3, <3>1, <3>3 DEF Successor, Older, LSN
      <4>2. l.pn = cur.pn /\ l.off = cur.off => l = cur
        BY <3>1
      <4> QED
        BY <3>1, <3>3, <4>1, <4>2 DEF Older
    <3> QED
      BY <3>1, <3>2, <3>3
  <2> QED
    BY <1>1, <2>1, <2>2, <2>3
<1> DEFINE S == {l \in Pos : l = cur \/ Older(l, cur)}
<1>3. S \subseteq DOMAIN log
  BY <1>1
<1>4. ASSUME NEW l \in S
      PROVE  BackFrom(l) \subseteq S \cup {LogEOF}
  BY <1>1, OlderTransitive, PosFacts DEF BackFrom
<1>5. Trail(S)
  <2>1. ASSUME NEW l \in S
        PROVE  {log[l].prev, log[l].undonext} \subseteq S \cup {LogEOF}
    BY <1>1, <1>3, <1>4 DEF RecordOK
  <2> QED
    BY <1>3, <2>1 DEF Trail
<1>6. cur \in S
  BY <1>1
<1> QED
  BY <1>1, <1>2, <1>5, <1>6

(* Redo goes on to the next record, or to the rollback. *)
LEMMA AdvanceStep ==
  ASSUME TypeInv, pc = "redo", cur \in DOMAIN log, RedoAdvance,
         pc' \in {stmt', "closing"}, Scalars', PagesOK',
         UNCHANGED <<logDisk, log, logPages, lastRec, curr>>
  PROVE  TypeInv'
<1>1. /\ lastRec = LogEOF
      /\ log[cur].next # LogEOF =>
           /\ log[cur].next \in Pos
           /\ \A l \in Pos : Older(l, log[cur].next) => l \in DOMAIN log
      /\ \E S : Trail(S) /\ cur \in S
  BY RedoneTrail
<1>2. PICK S : Trail(S) /\ cur \in S
  BY <1>1
<1>3. Trail(S)'
  BY <1>2 DEF Trail, LogEOF, LSN
<1>4. LogOK'
  BY DEF TypeInv, LogOK
<1>5. CurrFilled'
  BY DEF TypeInv, CurrFilled, LogEOF, LSN
<1>6. CASE log[cur].next = LogEOF
  <2>1. stmt' = "undo" /\ cur' = cur
    BY <1>6 DEF RedoAdvance
  <2>2. UndoTrail'
    BY <1>1, <1>2, <1>3, <2>1 DEF UndoTrail, LogEOF, LSN
  <2>3. RedoReached'
    BY <2>1 DEF RedoReached, Redoing
  <2> QED
    BY <1>4, <1>5, <2>2, <2>3 DEF TypeInv
<1>7. CASE log[cur].next # LogEOF
  <2>1. stmt' = "redo" /\ cur' = log[cur].next
    BY <1>7 DEF RedoAdvance
  <2>2. ~Undoing'
    BY <2>1 DEF Undoing
  <2>3. UndoTrail'
    BY <1>1, <1>3, <2>2 DEF UndoTrail, LogEOF, LSN
  <2>4. RedoReached'
    BY <1>1, <1>7, <2>1 DEF RedoReached, LogEOF, LSN, Older, Pos
  <2> QED
    BY <1>4, <1>5, <2>3, <2>4 DEF TypeInv
<1> QED
  BY <1>6, <1>7

LEMMA RedoMovesKeepTypes ==
  ASSUME TypeInv, RedoControl \/ RedoPass
  PROVE  TypeInv'
<1>1. /\ pc = "redo" /\ cur \in DOMAIN log /\ RedoAdvance /\ pc' = stmt'
      /\ UNCHANGED <<logDisk, relDisk, log, logPages, lastRec, curr, rel, held>>
  BY DEF RedoControl, RedoPass, Redoable, diskVars, logVars, relVars
<1>2. RecordOK(cur, log[cur])
  BY <1>1 DEF TypeInv, LogOK
<1>3. undoXid' \in Nat /\ stmt' \in {"undo", "redo"}
  BY <1>1, <1>2 DEF RedoAdvance, RecordOK, LogRec, TypeInv, Scalars
<1>4. skipped' \subseteq Rid
  <2>1. CASE RedoControl
    BY <2>1 DEF RedoControl, history, TypeInv, Scalars
  <2>2. CASE RedoPass
    <3>1. Readable(log[cur].rid[1]) /\ skipped' \in {skipped, skipped \cup {log[cur].rid}}
      BY <2>2 DEF RedoPass, Redoable
    <3>2. log[cur].rid \in Rid
      BY <1>2, <3>1, RecordPlace DEF RecordOK, LogRec, TypeInv
    <3> QED
      BY <3>1, <3>2 DEF TypeInv, Scalars
  <2> QED
    BY <2>1, <2>2
<1>5. Scalars'
  BY <1>1, <1>3, <1>4
     DEF RedoControl, RedoPass, diskVars, relVars, txnVars, history, TypeInv,
         Scalars
<1>6. PagesOK'
  BY <1>1 DEF TypeInv, PagesOK
<1> QED
  BY <1>1, <1>5, <1>6, AdvanceStep

LEMMA RedoKeepsTypes ==
  ASSUME TypeInv, LogInv, RedoApply
  PROVE  TypeInv'
<1>1. /\ pc = "redo" /\ cur \in DOMAIN log
      /\ log[cur].type \in Changes \cup {"clr"} /\ Readable(log[cur].rid[1])
      /\ UNCHANGED <<logDisk, relDisk, log, logPages, lastRec, curr>> /\ held = 0
      /\ UNCHANGED <<relDiskPages, relDiskFirst, inTxn, currXID, auto, skipped,
                     torn, fresh, reused, leftover, era, crashes>>
  BY DEF RedoApply, Redoable, diskVars, logVars, txnVars, history, TypeInv, Scalars
<1>2. RecordOK(cur, log[cur])
  BY <1>1 DEF TypeInv, LogOK
<1>3. CASE RedoPage(cur) /\ RedoAdvance /\ pc' = "closing"
  <2> DEFINE p   == log[cur].rid[1]
             s   == log[cur].rid[2]
             pg  == rel'[p]
             del == [DeleteFrom(rel[p], s, relFirst) EXCEPT !.lsn = cur, !.era = era]
             put(c) == [PutAt(rel[p], s, c) EXCEPT !.lsn = cur, !.era = era]
  <2>1. /\ log[cur].rid \in Rid /\ p \in DOMAIN rel /\ s \in Slots
        /\ p \in 1 .. MaxPages /\ PageOK(rel[p]) /\ relFirst \in Int
        /\ cur \in [pn : Int, off : Int] /\ era \in Nat
        /\ log[cur].new \in Cell
    BY <1>1, <1>2, RecordPlace, PosFacts, StampFacts
       DEF RecordOK, LogRec, TypeInv, PagesOK, Scalars
  <2>2. PageOK(del)
    BY <2>1, PageOKAfterDelete
  <2>3. \A c \in Cell : c # Empty => PageOK(put(c))
    BY <2>1, PageOKAfterPut
  <2>4. PICK q : /\ rel' = [rel EXCEPT ![p] = q]
                 /\ \/ q = del
                    \/ q = put(log[cur].new) /\ log[cur].new # Empty
                    \/ q = put(Garbage)
    <3>1. CASE RedoKind(cur) = "delete"
      BY <1>3, <3>1 DEF RedoPage, RedoKind
    <3>2. CASE RedoKind(cur) = "insert"
      <4>1. log[cur].new # Empty
        BY <1>2, <3>2 DEF RedoKind, RecordOK, Imaged
      <4> QED
        BY <1>3, <3>2, <4>1 DEF RedoPage
    <3>3. CASE RedoKind(cur) \notin {"delete", "insert"} /\ log[cur].type = "update"
      <4>1. log[cur].new # Empty
        BY <1>2, <3>3 DEF RecordOK, Imaged
      <4> QED
        BY <1>3, <3>3, <4>1 DEF RedoPage
    <3>4. CASE RedoKind(cur) \notin {"delete", "insert"} /\ log[cur].type # "update"
      BY <1>3, <3>4 DEF RedoPage
    <3> QED
      BY <3>1, <3>2, <3>3, <3>4
  <2>5. PageOK(q)
    BY <2>1, <2>2, <2>3, <2>4, CellFacts
  <2>6. relFirst' \in Int /\ relPages' = relPages /\ held' = held
    BY <1>3, <2>1 DEF RedoPage, FirstFreeAfterDelete
  <2>7. undoXid' \in Nat /\ stmt' \in {"undo", "redo"}
    BY <1>2, <1>3 DEF RedoAdvance, RecordOK, LogRec, TypeInv, Scalars
  <2>8. Scalars'
    BY <1>1, <1>3, <2>6, <2>7 DEF TypeInv, Scalars
  <2> HIDE DEF p, s, pg, del, put
  <2>9. PagesOK'
    BY <1>1, <2>1, <2>4, <2>5 DEF TypeInv, PagesOK, PageOK
  <2> QED
    BY <1>1, <1>3, <2>8, <2>9, AdvanceStep
<1>4. CASE pc' = "failed" /\ UNCHANGED <<relVars, stmt, cur, undoXid>>
  <2>1. UNCHANGED <<rel, relPages, relFirst, held, stmt, cur, undoXid>>
    BY <1>4 DEF relVars
  <2>2. Scalars'
    BY <1>1, <1>4, <2>1 DEF TypeInv, Scalars
  <2> QED
    BY <1>1, <1>4, <2>1, <2>2, SteadyStep DEF Undoing, Redoing
<1> QED
  BY <1>3, <1>4 DEF RedoApply

-------------------------------------------------------------------------------
(* Writes, crashes and new logs. *)

LEMMA WriteKeepsTypes ==
  ASSUME TypeInv, Write
  PROVE  TypeInv'
<1>1. /\ UNCHANGED <<log, logPages, lastRec, curr, rel, relPages, relFirst, held, pc,
                     stmt, cur>>
      /\ UNCHANGED <<inTxn, currXID, auto, undoXid, skipped, torn, fresh, reused, leftover,
                     era, crashes>>
      /\ relDiskPages' \in {relDiskPages, relPages}
      /\ relDiskFirst' \in {relDiskFirst, relFirst}
  BY DEF Write, WriteLogHdr, WriteLogPage, WriteDataPage, WritePFHeader,
         WriteRMHeader, logVars, relVars, txnVars, ctlVars, history
<1>2. Scalars'
  BY <1>1 DEF TypeInv, Scalars
<1>3. \A l \in DOMAIN logDisk' : RecordOK(l, logDisk'[l])
  <2>1. CASE UNCHANGED logDisk
    BY <2>1 DEF TypeInv, LogOK
  <2>2. ASSUME NEW pn \in 0 .. logPages - 1, WriteLogPage(pn)
        PROVE  \A l \in DOMAIN logDisk' : RecordOK(l, logDisk'[l])
    BY <2>2 DEF WriteLogPage, OnPage, TypeInv, LogOK
  <2> QED
    BY <2>1, <2>2 DEF Write, WriteLogHdr, WriteDataPage, WritePFHeader,
                      WriteRMHeader
<1>4. \A p \in DOMAIN relDisk' : p \in 1 .. MaxPages /\ PageOK(relDisk'[p])
  <2>1. CASE UNCHANGED relDisk
    BY <2>1 DEF TypeInv, PagesOK
  <2>2. ASSUME NEW p \in 1 .. MaxPages, WriteDataPage(p)
        PROVE  \A q \in DOMAIN relDisk' : q \in 1 .. MaxPages /\ PageOK(relDisk'[q])
    BY <2>2 DEF WriteDataPage, TypeInv, PagesOK
  <2> QED
    BY <2>1, <2>2 DEF Write, WriteLogHdr, WriteLogPage, WritePFHeader,
                      WriteRMHeader
<1>5. LogOK' /\ PagesOK'
  BY <1>1, <1>3, <1>4 DEF TypeInv, LogOK, PagesOK
<1>6. CurrFilled'
  BY <1>1 DEF TypeInv, CurrFilled, LogEOF, LSN
<1>7. UndoTrail'
  <2>1. PICK S : Trail(S) /\ lastRec \in S \cup {LogEOF}
                 /\ (Undoing => cur \in S \cup {LogEOF})
    BY DEF TypeInv, UndoTrail
  <2>2. Trail(S)'
    BY <1>1, <2>1 DEF Trail, LogEOF, LSN
  <2>3. Undoing' = Undoing
    BY <1>1 DEF Undoing
  <2> QED
    BY <1>1, <2>1, <2>2, <2>3 DEF UndoTrail, LogEOF, LSN
<1>8. RedoReached'
  BY <1>1 DEF TypeInv, RedoReached, Redoing, LogEOF, LSN, Older, Pos
<1> QED
  BY <1>2, <1>5, <1>6, <1>7, <1>8 DEF TypeInv

(* Nothing is older than the first record, where recovery begins. *)
LEMMA CrashKeepsTypes ==
  ASSUME TypeInv, Crash
  PROVE  TypeInv'
<1>1. /\ rel' = [p \in {p \in DOMAIN relDisk : p < relDiskPages} |-> relDisk[p]]
      /\ log' = [l \in {l \in DOMAIN logDisk : l.pn < logDiskPages} |-> logDisk[l]]
      /\ lastRec' = LogEOF
      /\ pc' \in {"idle", "redo"} /\ stmt' \in {"none", "redo"}
      /\ pc' = "redo" => cur' = ZeroLSN
      /\ relPages' = relDiskPages /\ relFirst' = relDiskFirst /\ held' = 0
      /\ inTxn' = FALSE /\ auto' = FALSE /\ undoXid' = 0
      /\ currXID' \in StrayXids \cup {0}
      /\ crashes' = crashes + 1 /\ crashes < MaxCrashes
      /\ UNCHANGED <<logDisk, relDisk, relDiskPages, relDiskFirst, skipped, fresh,
                     reused, era>>
  BY DEF Crash, diskVars
<1>2. Scalars'
  <2>1. currXID' \in Nat
    BY <1>1, LogAssumption
  <2>4. crashes' \in 0 .. MaxCrashes
    BY <1>1, LogAssumption DEF TypeInv, Scalars
  <2>3. MaxPages \in Nat /\ 0 \in 0 .. MaxPages
    BY LogAssumption
  <2>2. torn' \in BOOLEAN /\ leftover' \in BOOLEAN
    BY DEF Crash, TypeInv, Scalars
  <2>5. stmt' \in Kinds \cup {"none", "undo", "redo"}
    BY <1>1
  <2> QED
    BY <1>1, <2>1, <2>2, <2>3, <2>4, <2>5 DEF TypeInv, Scalars
<1>3. LogOK' /\ PagesOK'
  BY <1>1 DEF TypeInv, LogOK, PagesOK, PageOK
<1>4. CurrFilled'
  BY <1>1 DEF CurrFilled, LogEOF, LSN
<1>5. UndoTrail'
  <2>1. Trail({})'
    BY DEF Trail
  <2>2. ~Undoing'
    BY <1>1 DEF Undoing
  <2> QED
    BY <1>1, <2>1, <2>2 DEF UndoTrail
<1>6. RedoReached'
  <2>1. Redoing' => cur' = ZeroLSN
    BY <1>1 DEF Redoing
  <2>2. \A l \in Pos : ~Older(l, ZeroLSN)
    BY LogAssumption DEF Pos, Older, ZeroLSN, LSN
  <2> QED
    BY <1>1, <2>1, <2>2, PosFacts DEF RedoReached, LogEOF, LSN, ZeroLSN
<1> QED
  BY <1>2, <1>3, <1>4, <1>5, <1>6 DEF TypeInv

LEMMA NewLogKeepsTypes ==
  ASSUME TypeInv, pc = "idle", NewLog
  PROVE  TypeInv'
<1>1. /\ log' = EmptyLog /\ logDisk' = EmptyLog
      /\ lastRec' = LogEOF /\ pc' = "idle" /\ stmt' = stmt /\ undoXid' = undoXid
      /\ inTxn' = FALSE /\ currXID' = 0 /\ auto' = FALSE
      /\ skipped' = {} /\ fresh' = TRUE
      /\ era < MaxEras /\ era' = era + 1
      /\ UNCHANGED <<relDisk, relDiskPages, relDiskFirst, rel, relPages, relFirst,
                     held, reused, crashes>>
      /\ torn' = FALSE
  BY DEF NewLog, relVars, ctlVars
<1>2. Scalars'
  <2>1. era' \in 1 .. MaxEras
    BY <1>1, LogAssumption DEF TypeInv, Scalars
  <2>2. leftover' \in BOOLEAN
    BY DEF NewLog
  <2> QED
    BY <1>1, <2>1, <2>2 DEF TypeInv, Scalars
<1>3. LogOK' /\ PagesOK'
  BY <1>1 DEF TypeInv, LogOK, PagesOK, EmptyLog
<1>4. CurrFilled'
  BY <1>1 DEF CurrFilled, LogEOF, LSN
<1>5. UndoTrail'
  <2>1. Trail({})'
    BY DEF Trail
  <2>2. ~Undoing'
    BY <1>1 DEF Undoing
  <2> QED
    BY <1>1, <2>1, <2>2 DEF UndoTrail
<1>6. RedoReached'
  BY <1>1 DEF RedoReached, Redoing
<1> QED
  BY <1>2, <1>3, <1>4, <1>5, <1>6 DEF TypeInv

(* Calls that only change where the process is. *)
LEMMA ControlFlowKeepsTypes ==
  ASSUME TypeInv, ChainInv,
         \/ BeginT \/ (\E k \in Kinds : StartStatement(k)) \/ CloseFile
         \/ CheckpointBreaks
         \/ CloseDone \/ CommitDone \/ EndDone \/ RedoUnreadable
  PROVE  TypeInv'
<1>1. UNCHANGED <<logDisk, relDisk, log, logPages, lastRec, curr, rel, held, cur>>
  BY DEF BeginT, StartStatement, CloseFile, CheckpointBreaks, CloseDone,
         CommitDone, EndDone, RedoUnreadable, diskVars, logVars, relVars, ctlVars
<1>2. CASE BeginT \/ \E k \in Kinds : StartStatement(k)
  <2>1. /\ pc = "idle" /\ pc' \in {"idle", "open"} /\ stmt' \in Kinds \cup {stmt}
        /\ inTxn' \in BOOLEAN /\ auto' \in BOOLEAN
        /\ currXID' \in {currXID, currXID + 1}
        /\ fresh' \in BOOLEAN /\ reused' \in BOOLEAN
        /\ skipped' \in {skipped, {}}
        /\ UNCHANGED <<relPages, relFirst, held, relDiskPages, relDiskFirst, undoXid,
                       torn, leftover, era, crashes>>
    <3>1. CASE BeginT
      BY <3>1 DEF BeginT, BeginXact, diskVars, relVars, ctlVars
    <3>2. ASSUME NEW k \in Kinds, StartStatement(k)
          PROVE  /\ pc = "idle" /\ pc' = "open" /\ stmt' = k
                 /\ inTxn' \in BOOLEAN /\ auto' \in BOOLEAN
                 /\ currXID' \in {currXID, currXID + 1}
                 /\ fresh' \in BOOLEAN /\ reused' \in BOOLEAN
                 /\ skipped' \in {skipped, {}}
                 /\ UNCHANGED <<relPages, relFirst, held, relDiskPages, relDiskFirst,
                                undoXid, torn, leftover, era, crashes>>
      <4>1. CASE inTxn
        BY <3>2, <4>1 DEF StartStatement, diskVars, relVars, history, TypeInv, Scalars
      <4>2. CASE ~inTxn
        BY <3>2, <4>2 DEF StartStatement, BeginXact, diskVars, relVars
      <4> QED
        BY <4>1, <4>2
    <3> QED
      BY <1>2, <3>1, <3>2
  <2>2. Scalars'
    BY <2>1 DEF TypeInv, Scalars
  <2> QED
    BY <1>1, <2>1, <2>2, SteadyStep DEF Undoing, Redoing
<1>3. CASE CloseFile \/ CheckpointBreaks \/ RedoUnreadable
  <2>1. Scalars'
    BY <1>3 DEF CloseFile, CheckpointBreaks, RedoUnreadable, diskVars, relVars,
                txnVars, history, TypeInv, Scalars
  <2>2. ~Undoing' /\ ~Redoing'
    BY <1>3 DEF CloseFile, CheckpointBreaks, RedoUnreadable, Undoing, Redoing,
                ChainInv, PhaseKnown
  <2> QED
    BY <1>1, <2>1, <2>2, SteadyStep
<1>4. CASE CloseDone
  <2>1. Scalars'
    BY <1>4 DEF CloseDone, diskVars, relVars, txnVars, history, TypeInv, Scalars
  <2>2. (Undoing' => Undoing) /\ (Redoing' => Redoing)
    BY <1>4 DEF CloseDone, Undoing, Redoing
  <2> QED
    BY <1>1, <2>1, <2>2, SteadyStep
<1>5. CASE CommitDone \/ EndDone
  <2>1. Scalars'
    BY <1>5 DEF CommitDone, EndDone, diskVars, relVars, history, TypeInv, Scalars
  <2>2. ~Undoing' /\ ~Redoing'
    BY <1>5 DEF CommitDone, EndDone, Undoing, Redoing
  <2> QED
    BY <1>1, <2>1, <2>2, SteadyStep
<1> QED
  BY <1>2, <1>3, <1>4, <1>5

LEMMA InitTypeInv == Init => TypeInv
<1> SUFFICES ASSUME Init PROVE TypeInv
  OBVIOUS
<1>1. Scalars
  <2>1. /\ 1 \in 1 .. MaxPages + 1 /\ 1 \in 1 .. MaxEras /\ 0 \in 0 .. MaxCrashes
        /\ -1 \in Int /\ 0 \in 0 .. MaxPages
    BY LogAssumption
  <2> QED
    BY <2>1 DEF Init, Scalars, ListEnd
<1>2. LogOK /\ PagesOK
  BY DEF Init, EmptyLog, LogOK, PagesOK
<1>3. Trail({}) /\ lastRec = LogEOF /\ ~Undoing /\ ~Redoing
  BY DEF Init, Trail, Undoing, Redoing
<1> QED
  BY <1>1, <1>2, <1>3 DEF TypeInv, CurrFilled, UndoTrail, RedoReached

LEMMA NextKeepsTypes ==
  ASSUME TypeInv, LogInv, ChainInv, [Next]_vars
  PROVE  TypeInv'
<1>1. CASE Continue
  BY <1>1, ControlFlowKeepsTypes, ControlKeepsTypes, UndoKeepsTypes,
     UndoMovesKeepTypes, RedoMovesKeepTypes, RedoKeepsTypes DEF Continue
<1>2. CASE Request
  <2>1. CASE Checkpoint \/ CloseDb
    BY <2>1, ControlFlowKeepsTypes, NewLogKeepsTypes
       DEF Checkpoint, CheckpointResets, CloseDb
  <2> QED
    BY <1>2, <2>1, ControlFlowKeepsTypes, ControlKeepsTypes, InsertKeepsTypes,
       DeleteKeepsTypes, UpdateKeepsTypes DEF Request
<1>3. CASE UNCHANGED vars
  <2>1. Scalars'
    BY <1>3 DEF vars, TypeInv, Scalars
  <2> QED
    BY <1>3, <2>1, SteadyStep DEF vars, Undoing, Redoing
<1> QED
  BY <1>1, <1>2, <1>3, WriteKeepsTypes, CrashKeepsTypes DEF Next

(* TypeInv is an invariant: what Undo and Redo follow stays in the log,    *)
(* and what they write back is a record.                                   *)
THEOREM TypeInvHolds == Spec => []TypeInv
<1>1. LogInv /\ ChainInv /\ TypeInv /\ [Next]_vars => TypeInv'
  BY NextKeepsTypes
<1> QED
  BY InitTypeInv, <1>1, LogInvHolds, ChainInvHolds, PTL DEF Spec

(* What recovery may bring back are contents of the relation. *)
GoalsOK == goals \subseteq [Rid -> Cell]

LEMMA ContentsTyped == ASSUME PagesOK PROVE Contents \in [Rid -> Cell]
<1>1. ASSUME NEW r \in Rid
      PROVE  (IF r[1] \in DOMAIN rel /\ r[1] < relPages
                THEN rel[r[1]].rec[r[2]] ELSE Empty) \in Cell
  <2>1. r[2] \in Slots
    BY DEF Rid
  <2>2. ASSUME r[1] \in DOMAIN rel PROVE rel[r[1]].rec[r[2]] \in Cell
    BY <2>1, <2>2 DEF PagesOK, Page
  <2> QED
    BY <2>2, CellFacts
<1> QED
  BY <1>1 DEF Contents, ContentsOf

LEMMA GoalsKept ==
  ASSUME TypeInv, GoalsOK, [Next]_vars
  PROVE  GoalsOK'
<1>1. Contents \in [Rid -> Cell]
  BY ContentsTyped DEF TypeInv
<1> SUFFICES goals' \subseteq goals \cup {Contents}
  BY <1>1 DEF GoalsOK
<1>2. CASE Request
  BY <1>2 DEF Request, BeginT, StartStatement, BeginXact, InsertRec, DeleteRec, UpdateRec,
              CloseFile, CommitT, AbortT, Checkpoint, CheckpointResets, CheckpointBreaks,
              CloseDb, NewLog, history
<1>3. CASE Continue
  BY <1>3 DEF Continue, CloseDone, CommitT, CommitDone, AbortForced, EndDone, UndoChange,
              UndoSkip, UndoEndAbort, UndoEndRecover, RedoUnreadable, RedoControl, RedoPass,
              RedoApply, history
<1>4. CASE Write
  BY <1>4 DEF Write, WriteLogHdr, WriteLogPage, WriteDataPage, WritePFHeader, WriteRMHeader,
              history
<1>5. CASE Crash
  BY <1>5 DEF Crash
<1>6. CASE UNCHANGED vars
  BY <1>6 DEF vars
<1> QED
  BY <1>2, <1>3, <1>4, <1>5, <1>6 DEF Next

(* Where the process is in the log. *)
PlacesOK == curr \in Int /\ pins \subseteq Nat /\ cur \in Lsn

LEMMA PlacesKept ==
  ASSUME TypeInv, LogInv, ChainInv, PlacesOK, [Next]_vars
  PROVE  PlacesOK'
<1>1. /\ logPages \in Nat /\ NextLSN.pn \in Int /\ NextLSN \in Lsn
      /\ LogEOF \in Lsn /\ ZeroLSN \in Lsn
  BY StampFacts DEF LogInv, LogPlaced, Lsn, LogEOF, ZeroLSN, LSN
<1>2. lastRec \in Lsn
  BY <1>1 DEF TypeInv, UndoTrail, Trail, LogOK, RecordOK, Pos, Lsn
<1>3. \A l \in DOMAIN log : {log[l].prev, log[l].next, log[l].undonext} \subseteq Lsn
  BY DEF TypeInv, LogOK, RecordOK, LogRec, Lsn
<1>4. ASSUME NEW b, InsertLogRec(b) PROVE curr' \in Int /\ pins' \subseteq Nat
  BY <1>1, <1>4 DEF InsertLogRec, PlacesOK
<1>5. CASE Request
  <2>1. CASE \E v \in Val : InsertRec(v)
    <3>1. PICK v \in Val : InsertRec(v)
      BY <2>1
    <3>2. cur' = cur
      BY <3>1 DEF InsertRec
    <3>3. curr' \in Int /\ pins' \subseteq Nat
      BY <1>4, <3>1 DEF InsertRec, InsertInNewPage, InsertInFreePage, InsertInFullPage,
                        InsertInLostPage, logVars, PlacesOK
    <3> QED
      BY <3>2, <3>3 DEF PlacesOK
  <2>2. CASE \/ \E r \in Records : DeleteRec(r)
             \/ \E r \in Records, v \in Val : UpdateRec(r, v)
             \/ CommitT \/ AbortT
    <3>1. cur' = cur
      BY <2>2 DEF DeleteRec, UpdateRec, CommitT, AbortT, ctlVars
    <3>2. curr' \in Int /\ pins' \subseteq Nat
      BY <1>4, <2>2 DEF DeleteRec, UpdateRec, CommitT, AbortT
    <3> QED
      BY <3>1, <3>2 DEF PlacesOK
  <2>3. CASE Checkpoint \/ CloseDb
    <3>1. cur' = cur
      BY <2>3 DEF Checkpoint, CheckpointResets, CheckpointBreaks, CloseDb, NewLog, ctlVars
    <3>2. curr' \in {curr, -1} /\ pins' \in {pins, {}}
      BY <2>3 DEF Checkpoint, CheckpointResets, CheckpointBreaks, CloseDb, NewLog, logVars
    <3> QED
      BY <3>1, <3>2 DEF PlacesOK
  <2>4. CASE BeginT \/ (\E k \in Kinds : StartStatement(k)) \/ CloseFile
    BY <2>4 DEF BeginT, StartStatement, CloseFile, logVars, ctlVars, PlacesOK
  <2> QED
    BY <1>5, <2>1, <2>2, <2>3, <2>4 DEF Request
<1>6. CASE Continue
  <2>1. CASE CommitT
    BY <1>4, <2>1 DEF CommitT, PlacesOK
  <2>2. CASE UndoEndAbort
    BY <1>1, <1>4, <2>2 DEF UndoEndAbort, PlacesOK
  <2>3. CASE UndoChange
    <3>1. cur \in DOMAIN log
      BY <2>3, UndoAtRecord DEF UndoChange, UndoStops
    <3>2. cur' \in Lsn
      BY <1>3, <2>3, <3>1 DEF UndoChange, PlacesOK
    <3>3. curr' \in Int /\ pins' \subseteq Nat
      BY <1>4, <2>3 DEF UndoChange
    <3> QED
      BY <3>2, <3>3 DEF PlacesOK
  <2>4. CASE UndoSkip
    <3>1. cur \in DOMAIN log
      BY <2>4, UndoAtRecord DEF UndoSkip, UndoStops
    <3> QED
      BY <1>3, <2>4, <3>1 DEF UndoSkip, logVars, PlacesOK
  <2>5. CASE RedoControl \/ RedoPass \/ RedoApply
    <3>1. cur \in DOMAIN log
      BY <2>5 DEF RedoControl, RedoPass, RedoApply, Redoable
    <3> QED
      BY <1>3, <2>5, <3>1 DEF RedoControl, RedoPass, RedoApply, RedoAdvance, logVars, PlacesOK
  <2>6. CASE CloseDone \/ CommitDone \/ AbortForced \/ EndDone \/ UndoEndRecover \/ RedoUnreadable
    BY <1>1, <1>2, <2>6 DEF CloseDone, CommitDone, AbortForced, EndDone, UndoEndRecover,
                            RedoUnreadable, logVars, PlacesOK
  <2> QED
    BY <1>6, <2>1, <2>2, <2>3, <2>4, <2>5, <2>6 DEF Continue
<1>7. CASE Write
  BY <1>7 DEF Write, WriteLogHdr, WriteLogPage, WriteDataPage, WritePFHeader, WriteRMHeader,
              logVars, ctlVars, PlacesOK
<1>8. CASE Crash
  BY <1>1, <1>8 DEF Crash, PlacesOK
<1>9. CASE UNCHANGED vars
  BY <1>9 DEF vars, PlacesOK
<1> QED
  BY <1>5, <1>6, <1>7, <1>8, <1>9 DEF Next

LEMMA InitPlaces == Init => GoalsOK /\ PlacesOK
<1> SUFFICES ASSUME Init PROVE GoalsOK /\ PlacesOK
  OBVIOUS
<1>1. Contents \in [Rid -> Cell]
  BY InitTypeInv, ContentsTyped DEF TypeInv
<1> QED
  BY <1>1 DEF Init, GoalsOK, PlacesOK, Lsn, LogEOF, LSN

(* Every variable has its type: in particular every record that rollback   *)
(* or redo comes to is one of the log, whatever pages of the log a crash   *)
(* took, so that no edit is made from an LSN that leads nowhere.           *)
THEOREM TypeCorrect == Spec => []TypeOK
<1>1. TypeInv /\ LogInv /\ ChainInv /\ (GoalsOK /\ PlacesOK) /\ [Next]_vars
        => (GoalsOK /\ PlacesOK)'
  BY GoalsKept, PlacesKept
<1>2. LogInv /\ TypeInv /\ GoalsOK /\ PlacesOK => TypeOK
  <2> SUFFICES ASSUME LogInv, TypeInv, GoalsOK, PlacesOK PROVE TypeOK
    OBVIOUS
  <2>1. /\ \A l \in DOMAIN log : l \in Lsn /\ log[l] \in LogRec
        /\ \A l \in DOMAIN logDisk : l \in Lsn /\ logDisk[l] \in LogRec
    BY DEF TypeInv, LogOK, RecordOK, Pos, Lsn
  <2>2. lastRec \in Lsn
    BY <2>1 DEF TypeInv, UndoTrail, Trail, Lsn, LogEOF, LSN
  <2>3. /\ \A p \in DOMAIN rel : p \in 1 .. MaxPages /\ rel[p] \in PageType
        /\ \A p \in DOMAIN relDisk : p \in 1 .. MaxPages /\ relDisk[p] \in PageType
    BY DEF TypeInv, PagesOK, PageOK, Page, PageType, Lsn
  <2> QED
    BY <2>1, <2>2, <2>3
       DEF LogInv, LogPlaced, TypeInv, Scalars, GoalsOK, PlacesOK, TypeOK
<1> QED
  BY InitPlaces, <1>1, <1>2, LogInvHolds, ChainInvHolds, TypeInvHolds, PTL DEF Spec

(* The number of records a page's header counts never passes the number    *)
(* there are, through rollbacks, redo and crashes: InsertRec does not take *)
(* a page with room off the free list.  Only the page an InsertRec without *)
(* a slot has counted up, and left pinned, is excepted.                    *)
THEOREM CountNeverOver == Spec => []NumRecordsNeverOver
<1>1. TypeInv => NumRecordsNeverOver
  BY DEF TypeInv, PagesOK, PageOK, UsedSlots, NumRecordsNeverOver
<1> QED
  BY <1>1, TypeInvHolds, PTL
===============================================================================
