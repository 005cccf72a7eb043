--------------------------- MODULE LogRecoveryProofs ---------------------------
(***************************************************************************)
(* Proofs about LogRecovery, for any number of pages, slots, values, log   *)
(* records, transactions, crashes and logs.                                *)
(*                                                                         *)
(* The write-ahead rule speaks of what is on disk only.  It is inductive   *)
(* together with                                                           *)
(*   Stamps       pages carry LSNs, and of no log yet to come,             *)
(*   LogPlaced    the log's records have LSNs on its pages,                *)
(*   LastNewest   lastRec is the newest record of the log,                 *)
(*   StampLogged  a page stamped under this log names one of its records:  *)
(* a data page is written when the whole log is on disk, so the record it  *)
(* names and those before it are; later records are newer than lastRec and *)
(* so than it; and the records a crash takes are not on disk.              *)
(* The chain of the log's records follows from LogInv and ChainInv, below. *)
(***************************************************************************)
EXTENDS LogRecovery, TLAPS

IsLSN(l) == l \in [pn : Nat, off : Nat]

(* A page that can carry an LSN, of a log there has been. *)
Stamped(pg) == {"lsn", "era"} \subseteq DOMAIN pg /\ pg.era \in 0 .. era

Stamps == /\ era \in Nat \ {0}
          /\ \A p \in DOMAIN rel : Stamped(rel[p])
          /\ \A p \in DOMAIN relDisk : Stamped(relDisk[p])

LogPlaced == /\ logPages \in Nat
             /\ \A l \in DOMAIN log : IsLSN(l) /\ l.pn < logPages
             /\ \A l \in DOMAIN logDisk : IsLSN(l)
             /\ logDiskPages \in Nat

LastNewest ==
  lastRec # LogEOF => /\ lastRec \in DOMAIN log
                      /\ curr = lastRec.pn
                      /\ \A l \in DOMAIN log : ~Older(lastRec, l)

StampLogged ==
  /\ \A p \in DOMAIN rel : rel[p].era = era => rel[p].lsn \in DOMAIN log
  /\ \A p \in DOMAIN relDisk :
       relDisk[p].era = era => relDisk[p].lsn \in DOMAIN log

LogInv == /\ Stamps
          /\ LogPlaced
          /\ LastNewest
          /\ StampLogged
          /\ WALRule

-------------------------------------------------------------------------------
(* What LogInv is about. *)
invVars == <<logDisk, logDiskPages, relDisk, log, logPages, rel, lastRec, curr,
             era>>

LEMMA InvUnchanged == ASSUME LogInv, UNCHANGED invVars PROVE LogInv'
BY DEF LogInv, Stamps, Stamped, LogPlaced, IsLSN, LastNewest, Older, LogEOF, LSN,
       StampLogged, WALRule, LogOnDisk, invVars

(* The record a call logs is placed behind all others. *)
LEMMA NextIsNewest ==
  ASSUME LogPlaced, LastNewest
  PROVE  /\ IsLSN(NextLSN)
         /\ \A l \in DOMAIN log : Older(l, NextLSN)
         /\ NextLSN.pn = IF NeedsNewPage THEN logPages ELSE curr
         /\ ~NeedsNewPage => NextLSN.pn < logPages
<1>1. CASE NeedsNewPage
  BY <1>1 DEF LogPlaced, NextLSN, LSN, IsLSN, Older
<1>2. CASE ~NeedsNewPage
  <2>1. /\ lastRec \in DOMAIN log /\ curr = lastRec.pn
        /\ \A l \in DOMAIN log : ~Older(lastRec, l)
    BY <1>2 DEF NeedsNewPage, LastNewest
  <2>2. NextLSN = [pn |-> lastRec.pn, off |-> lastRec.off + 1]
    BY <1>2, <2>1 DEF NextLSN, LSN
  <2> QED
    BY <1>2, <2>1, <2>2 DEF LogPlaced, IsLSN, Older
<1> QED
  BY <1>1, <1>2

LEMMA Logged ==
  ASSUME LogPlaced, LastNewest, NEW body, InsertLogRec(body),
         UNCHANGED <<logDisk, logDiskPages>>
  PROVE  /\ LogPlaced' /\ LastNewest'
         /\ DOMAIN log' = DOMAIN log \cup {NextLSN}
<1>1. /\ IsLSN(NextLSN)
      /\ \A l \in DOMAIN log : Older(l, NextLSN)
      /\ NextLSN.pn = IF NeedsNewPage THEN logPages ELSE curr
      /\ ~NeedsNewPage => NextLSN.pn < logPages
  BY NextIsNewest
<1>2. /\ DOMAIN log' = DOMAIN log \cup {NextLSN}
      /\ lastRec' = NextLSN /\ curr' = NextLSN.pn
      /\ logPages' = IF NeedsNewPage THEN logPages + 1 ELSE logPages
  BY DEF InsertLogRec
<1>3. LogPlaced'
  <2>1. logPages' \in Nat
    BY <1>2 DEF LogPlaced
  <2>2. ASSUME NEW l \in DOMAIN log'
        PROVE  IsLSN(l) /\ l.pn < logPages'
    BY <1>1, <1>2 DEF LogPlaced, IsLSN
  <2> QED
    BY <2>1, <2>2 DEF LogPlaced, IsLSN
<1>4. LastNewest'
  <2>1. ASSUME NEW l \in DOMAIN log'
        PROVE  ~Older(NextLSN, l)
    BY <1>1, <1>2 DEF LogPlaced, IsLSN, Older
  <2> QED
    BY <1>2, <2>1 DEF LastNewest, Older
<1> QED
  BY <1>2, <1>3, <1>4

(* A call that logs a record and edits at most pages it stamps with it, or *)
(* leaves the stamp of.                                                    *)
LEMMA LoggedInv ==
  ASSUME LogInv, NEW body, InsertLogRec(body),
         UNCHANGED <<logDisk, logDiskPages, relDisk, era>>,
         \A p \in DOMAIN rel' :
           \/ p \in DOMAIN rel /\ rel'[p] = rel[p]
           \/ /\ p \in DOMAIN rel
              /\ {"lsn", "era"} \subseteq DOMAIN rel'[p]
              /\ rel'[p].lsn = rel[p].lsn /\ rel'[p].era = rel[p].era
           \/ /\ {"lsn", "era"} \subseteq DOMAIN rel'[p]
              /\ rel'[p].lsn = NextLSN /\ rel'[p].era = era
  PROVE  LogInv'
<1>1. /\ LogPlaced' /\ LastNewest'
      /\ DOMAIN log' = DOMAIN log \cup {NextLSN}
  BY Logged DEF LogInv
<1>2. \A l \in DOMAIN log : Older(l, NextLSN)
  BY NextIsNewest DEF LogInv
<1>3. Stamps'
  BY DEF LogInv, Stamps, Stamped
<1>4. StampLogged'
  BY <1>1 DEF LogInv, StampLogged
<1>5. WALRule'
  <2> SUFFICES ASSUME NEW p \in DOMAIN relDisk, relDisk[p].era = era
               PROVE  {l \in DOMAIN log' : ~Older(relDisk[p].lsn, l)}
                        \cup {relDisk[p].lsn} \subseteq LogOnDisk
    BY DEF WALRule, LogOnDisk, Older
  <2>1. {l \in DOMAIN log : ~Older(relDisk[p].lsn, l)} \cup {relDisk[p].lsn}
          \subseteq LogOnDisk
    BY DEF LogInv, WALRule
  <2>2. relDisk[p].lsn \in DOMAIN log
    BY DEF LogInv, StampLogged
  <2>3. ~(~Older(relDisk[p].lsn, NextLSN))
    BY <1>2, <2>2
  <2> QED
    BY <1>1, <2>1, <2>3
<1> QED
  BY <1>1, <1>3, <1>4, <1>5 DEF LogInv

-------------------------------------------------------------------------------
(* The edits of a page leave its fields in place and Stamp sets two.       *)
LEMMA StampSets ==
  ASSUME NEW pg, Stamped(pg), NEW s, NEW v, NEW ff
  PROVE  \A q \in {InsertInto(pg, s, v), DeleteFrom(pg, s, ff), PutAt(pg, s, v)} :
           /\ {"lsn", "era"} \subseteq DOMAIN q
           /\ {"lsn", "era"} \subseteq DOMAIN Stamp(q)
           /\ Stamp(q).lsn = NextLSN /\ Stamp(q).era = era
BY DEF Stamped, Stamp, InsertInto, DeleteFrom, PutAt

LEMMA BlankStamped == LogInv => Stamped(BlankPage)
BY DEF LogInv, Stamps, Stamped, BlankPage

LEMMA InsertKeeps ==
  ASSUME LogInv, NEW v \in Val, InsertRec(v)
  PROVE  LogInv'
<1>1. UNCHANGED <<logDisk, logDiskPages, relDisk, era>>
  BY DEF InsertRec, diskVars, history
<1>2. CASE InsertInNewPage(v)
  <2> DEFINE pg == Stamp(InsertInto(BlankPage, 0, v))
  <2>1. /\ {"lsn", "era"} \subseteq DOMAIN pg
        /\ pg.lsn = NextLSN /\ pg.era = era
    BY StampSets, BlankStamped
  <2>2. rel' = [q \in DOMAIN rel \cup {relPages} |->
                  IF q = relPages THEN pg ELSE rel[q]]
    BY <1>2 DEF InsertInNewPage
  <2>3. PICK body : InsertLogRec(body)
    BY <1>2 DEF InsertInNewPage
  <2> HIDE DEF pg
  <2> QED
    BY <1>1, <2>1, <2>2, <2>3, LoggedInv
<1>3. CASE InsertInFreePage(v)
  <2> DEFINE s  == FindAvailableSlot(rel[relFirst])
             pg == Stamp(InsertInto(rel[relFirst], s, v))
  <2>1. ASSUME relFirst \in DOMAIN rel
        PROVE  /\ {"lsn", "era"} \subseteq DOMAIN pg
               /\ pg.lsn = NextLSN /\ pg.era = era
    <3>1. Stamped(rel[relFirst])
      BY <2>1 DEF LogInv, Stamps
    <3> QED
      BY <3>1, StampSets
  <2>2. rel' = [rel EXCEPT ![relFirst] = pg]
    BY <1>3 DEF InsertInFreePage
  <2>3. PICK body : InsertLogRec(body)
    BY <1>3 DEF InsertInFreePage
  <2> HIDE DEF pg
  <2> QED
    BY <1>1, <2>1, <2>2, <2>3, LoggedInv
<1>4. CASE InsertInFullPage(v)
  <2> DEFINE pg == CountInsert(rel[relFirst])
  <2>1. /\ relFirst \in DOMAIN rel /\ rel' = [rel EXCEPT ![relFirst] = pg]
        /\ InsertLogRec(Body("insert", NoRid, Empty, v))
    BY <1>4 DEF InsertInFullPage, Readable
  <2>2. Stamped(rel[relFirst])
    BY <2>1 DEF LogInv, Stamps
  <2>3. /\ {"lsn", "era"} \subseteq DOMAIN pg
        /\ pg.lsn = rel[relFirst].lsn /\ pg.era = rel[relFirst].era
    BY <2>2 DEF Stamped, CountInsert
  <2> HIDE DEF pg
  <2> QED
    BY <1>1, <2>1, <2>3, LoggedInv
<1>5. CASE InsertInLostPage
  BY <1>1, <1>5, InvUnchanged DEF InsertInLostPage, invVars, logVars, relVars
<1> QED
  BY <1>2, <1>3, <1>4, <1>5 DEF InsertRec

(* A record that is there lies on a page that is. *)
LEMMA RecordsOnPages == \A r \in Records : r[1] \in DOMAIN rel
BY DEF Records, Contents, ContentsOf

LEMMA DeleteKeeps ==
  ASSUME LogInv, NEW r \in Records, DeleteRec(r)
  PROVE  LogInv'
<1> DEFINE pg == Stamp(DeleteFrom(rel[r[1]], r[2], relFirst))
<1>1. Stamped(rel[r[1]])
  BY RecordsOnPages DEF LogInv, Stamps
<1>2. /\ {"lsn", "era"} \subseteq DOMAIN pg
      /\ pg.lsn = NextLSN /\ pg.era = era
  BY <1>1, StampSets
<1>3. /\ rel' = [rel EXCEPT ![r[1]] = pg]
      /\ UNCHANGED <<logDisk, logDiskPages, relDisk, era>>
  BY DEF DeleteRec, diskVars, history
<1>4. PICK body : InsertLogRec(body)
  BY DEF DeleteRec
<1> HIDE DEF pg
<1> QED
  BY <1>2, <1>3, <1>4, LoggedInv

LEMMA UpdateKeeps ==
  ASSUME LogInv, NEW r \in Records, NEW v \in Val, UpdateRec(r, v)
  PROVE  LogInv'
<1> DEFINE pg == Stamp(PutAt(rel[r[1]], r[2], v))
<1>1. Stamped(rel[r[1]])
  BY RecordsOnPages DEF LogInv, Stamps
<1>2. /\ {"lsn", "era"} \subseteq DOMAIN pg
      /\ pg.lsn = NextLSN /\ pg.era = era
  BY <1>1, StampSets
<1>3. /\ rel' = [rel EXCEPT ![r[1]] = pg]
      /\ UNCHANGED <<logDisk, logDiskPages, relDisk, era>>
  BY DEF UpdateRec, diskVars, history
<1>4. PICK body : InsertLogRec(body)
  BY DEF UpdateRec
<1> HIDE DEF pg
<1> QED
  BY <1>2, <1>3, <1>4, LoggedInv

LEMMA UndoKeeps == ASSUME LogInv, UndoChange PROVE LogInv'
<1>1. /\ InsertLogRec(CLR(cur))
      /\ UNCHANGED <<logDisk, logDiskPages, relDisk, era>>
  BY DEF UndoChange, diskVars, history
<1>2. CASE CanUndo(cur) /\ UndoPage(cur)
  <2> DEFINE p   == log[cur].rid[1]
             s   == log[cur].rid[2]
             del == DeleteFrom(rel[p], s, relFirst)
             put == PutAt(rel[p], s, log[cur].old)
             pg  == IF log[cur].type = "insert" THEN Stamp(del) ELSE Stamp(put)
  <2>1. Stamped(rel[p])
    BY <1>2 DEF CanUndo, Readable, LogInv, Stamps
  <2>2. /\ {"lsn", "era"} \subseteq DOMAIN pg
        /\ pg.lsn = NextLSN /\ pg.era = era
    BY <2>1, StampSets
  <2>3. rel' = [rel EXCEPT ![p] = pg]
    BY <1>2 DEF UndoPage
  <2> HIDE DEF p, pg
  <2> QED
    BY <1>1, <2>2, <2>3, LoggedInv
<1>3. CASE StampOnly(log[cur].rid[1])
  <2> DEFINE p == log[cur].rid[1]
             pg == Stamp(rel[p])
  <2>1. CASE ~Readable(p)
    BY <1>1, <1>3, <2>1, LoggedInv DEF StampOnly
  <2>2. CASE Readable(p)
    <3>1. p \in DOMAIN rel /\ rel' = [rel EXCEPT ![p] = pg]
      BY <1>3, <2>2 DEF StampOnly, Readable
    <3>2. Stamped(rel[p])
      BY <3>1 DEF LogInv, Stamps
    <3>3. /\ {"lsn", "era"} \subseteq DOMAIN pg
          /\ pg.lsn = NextLSN /\ pg.era = era
      BY <3>2 DEF Stamped, Stamp
    <3> HIDE DEF p, pg
    <3> QED
      BY <1>1, <3>1, <3>3, LoggedInv
  <2> QED
    BY <2>1, <2>2
<1> QED
  BY <1>2, <1>3 DEF UndoChange

(* COMMIT, ABORT and END records. *)
LEMMA ControlKeeps ==
  ASSUME LogInv, CommitT \/ AbortT \/ UndoEndAbort
  PROVE  LogInv'
<1>1. UNCHANGED <<logDisk, logDiskPages, relDisk, era, rel>>
  BY DEF CommitT, AbortT, UndoEndAbort, diskVars, relVars, history
<1>2. \E body : InsertLogRec(body)
  BY DEF CommitT, AbortT, UndoEndAbort
<1> QED
  BY <1>1, <1>2, LoggedInv

-------------------------------------------------------------------------------
LEMMA RedoKeeps == ASSUME LogInv, RedoApply PROVE LogInv'
<1>1. /\ UNCHANGED <<logDisk, logDiskPages, log, logPages, lastRec, curr>>
      /\ UNCHANGED <<relDisk, era>>
      /\ cur \in DOMAIN log
  BY DEF RedoApply, Redoable, diskVars, logVars, history
<1>2. CASE RedoPage(cur)
  <2> DEFINE p  == log[cur].rid[1]
             pg == rel'[p]
  <2>1. p \in DOMAIN rel /\ Stamped(rel[p])
    BY DEF RedoApply, Redoable, Readable, LogInv, Stamps
  <2>2. PICK q :
          /\ \/ q = DeleteFrom(rel[p], log[cur].rid[2], relFirst)
             \/ \E v : q = PutAt(rel[p], log[cur].rid[2], v)
          /\ rel' = [rel EXCEPT ![p] = [q EXCEPT !.lsn = cur, !.era = era]]
    <3>1. CASE RedoKind(cur) = "delete"
      BY <1>2, <3>1 DEF RedoPage, RedoKind
    <3>2. CASE RedoKind(cur) = "insert"
      BY <1>2, <3>2 DEF RedoPage
    <3>3. CASE RedoKind(cur) \notin {"delete", "insert"} /\ log[cur].type = "update"
      BY <1>2, <3>3 DEF RedoPage
    <3>4. CASE RedoKind(cur) \notin {"delete", "insert"} /\ log[cur].type # "update"
      BY <1>2, <3>4 DEF RedoPage
    <3> QED
      BY <3>1, <3>2, <3>3, <3>4
  <2>3. {"lsn", "era"} \subseteq DOMAIN q
    BY <2>1, <2>2, StampSets
  <2>4. /\ DOMAIN rel' = DOMAIN rel
        /\ \A x \in DOMAIN rel : x # p => rel'[x] = rel[x]
        /\ {"lsn", "era"} \subseteq DOMAIN pg
        /\ pg.lsn = cur /\ pg.era = era
    BY <2>1, <2>2, <2>3
  <2> HIDE DEF p
  <2>5. Stamps'
    BY <1>1, <2>4 DEF LogInv, Stamps, Stamped
  <2>6. StampLogged'
    BY <1>1, <2>4 DEF LogInv, StampLogged
  <2>7. LogPlaced' /\ LastNewest' /\ WALRule'
    BY <1>1 DEF LogInv, LogPlaced, IsLSN, LastNewest, LogEOF, LSN, Older, WALRule,
                LogOnDisk
  <2> QED
    BY <2>5, <2>6, <2>7 DEF LogInv
<1>3. CASE UNCHANGED rel
  BY <1>1, <1>3, InvUnchanged DEF invVars
<1> QED
  BY <1>2, <1>3 DEF RedoApply, relVars

-------------------------------------------------------------------------------
(* Writes. *)

LEMMA WriteLogHdrKeeps == ASSUME LogInv, WriteLogHdr PROVE LogInv'
<1>1. /\ logDiskPages' = logPages
      /\ UNCHANGED <<logDisk, relDisk, log, logPages, rel, lastRec, curr, era>>
  BY DEF WriteLogHdr, logVars, relVars, history
<1>2. WALRule'
  <2> SUFFICES ASSUME NEW p \in DOMAIN relDisk, relDisk[p].era = era
               PROVE  {l \in DOMAIN log : ~Older(relDisk[p].lsn, l)}
                        \cup {relDisk[p].lsn}
                        \subseteq {l \in DOMAIN logDisk : l.pn < logPages}
    BY <1>1 DEF WALRule, LogOnDisk, Older
  <2>1. {l \in DOMAIN log : ~Older(relDisk[p].lsn, l)} \cup {relDisk[p].lsn}
          \subseteq LogOnDisk \cap DOMAIN log
    BY DEF LogInv, WALRule, StampLogged
  <2> QED
    BY <2>1 DEF LogInv, LogPlaced, LogOnDisk
<1> QED
  BY <1>1, <1>2 DEF LogInv, Stamps, Stamped, LogPlaced, IsLSN, LastNewest, LogEOF,
                    LSN, Older, StampLogged

LEMMA WriteLogPageKeeps ==
  ASSUME LogInv, NEW pn \in 0 .. logPages - 1, WriteLogPage(pn)
  PROVE  LogInv'
<1>1. /\ DOMAIN logDisk' = {k \in DOMAIN logDisk : k.pn # pn} \cup OnPage(pn)
      /\ UNCHANGED <<logDiskPages, relDisk, log, logPages, rel, lastRec, curr,
                     era>>
  BY DEF WriteLogPage, logVars, relVars, history
<1>2. WALRule'
  <2> SUFFICES ASSUME NEW p \in DOMAIN relDisk, relDisk[p].era = era
               PROVE  {l \in DOMAIN log : ~Older(relDisk[p].lsn, l)}
                        \cup {relDisk[p].lsn}
                        \subseteq {l \in DOMAIN logDisk' : l.pn < logDiskPages}
    BY <1>1 DEF WALRule, LogOnDisk, Older
  <2>1. {l \in DOMAIN log : ~Older(relDisk[p].lsn, l)} \cup {relDisk[p].lsn}
          \subseteq LogOnDisk \cap DOMAIN log
    BY DEF LogInv, WALRule, StampLogged
  <2> QED
    BY <1>1, <2>1 DEF LogOnDisk, OnPage
<1>3. \A l \in DOMAIN logDisk' : IsLSN(l)
  BY <1>1 DEF LogInv, LogPlaced, OnPage
<1> QED
  BY <1>1, <1>2, <1>3
     DEF LogInv, Stamps, Stamped, LogPlaced, IsLSN, LastNewest, LogEOF, LSN,
         Older, StampLogged

(* The whole log is on disk when a data page is written. *)
LEMMA WriteDataPageKeeps ==
  ASSUME LogInv, NEW p \in 1 .. MaxPages, WriteDataPage(p)
  PROVE  LogInv'
<1>1. /\ p \in DOMAIN rel
      /\ relDisk' = [q \in DOMAIN relDisk \cup {p} |->
                        IF q = p THEN rel[p] ELSE relDisk[q]]
      /\ UNCHANGED <<logDisk, logDiskPages, log, logPages, rel, lastRec, curr,
                     era>>
  BY DEF WriteDataPage, logVars, relVars, history
<1>2. DOMAIN log \subseteq LogOnDisk
  BY DEF WriteDataPage, LogFirst, LogForced, LogClean, LogInv, LogPlaced, LogOnDisk
<1>3. StampLogged'
  BY <1>1 DEF LogInv, StampLogged
<1>4. WALRule'
  <2> SUFFICES ASSUME NEW q \in DOMAIN relDisk', relDisk'[q].era = era
               PROVE  {l \in DOMAIN log : ~Older(relDisk'[q].lsn, l)}
                        \cup {relDisk'[q].lsn} \subseteq LogOnDisk
    BY <1>1 DEF WALRule, LogOnDisk, Older
  <2> QED
    BY <1>1, <1>2, <1>3 DEF StampLogged
<1>5. Stamps'
  BY <1>1 DEF LogInv, Stamps, Stamped
<1> QED
  BY <1>1, <1>3, <1>4, <1>5
     DEF LogInv, LogPlaced, IsLSN, LastNewest, LogEOF, LSN, Older

-------------------------------------------------------------------------------
(* What survives a crash is the log on disk, which has the records the     *)
(* pages on disk name.                                                     *)
LEMMA CrashKeeps == ASSUME LogInv, Crash PROVE LogInv'
<1>1. /\ rel' = [p \in {p \in DOMAIN relDisk : p < relDiskPages} |-> relDisk[p]]
      /\ log' = [l \in {l \in DOMAIN logDisk : l.pn < logDiskPages} |-> logDisk[l]]
      /\ logPages' = logDiskPages
      /\ lastRec' = LogEOF
      /\ UNCHANGED <<logDisk, logDiskPages, relDisk, era>>
  BY DEF Crash, diskVars
<1>2. DOMAIN log' = LogOnDisk
  BY <1>1 DEF LogOnDisk
<1>3. ASSUME NEW p \in DOMAIN relDisk
      PROVE  /\ Stamped(relDisk[p])
             /\ relDisk[p].era = era => relDisk[p].lsn \in LogOnDisk
  BY DEF LogInv, Stamps, WALRule
<1>4. Stamps'
  BY <1>1, <1>3 DEF LogInv, Stamps, Stamped
<1>5. LogPlaced'
  BY <1>1 DEF LogInv, LogPlaced, IsLSN
<1>6. LastNewest'
  BY <1>1 DEF LastNewest, LogEOF, LSN
<1>7. StampLogged'
  BY <1>1, <1>2, <1>3 DEF StampLogged
<1>8. WALRule'
  <2>1. LogOnDisk' = LogOnDisk
    BY <1>1 DEF LogOnDisk
  <2> QED
    BY <1>1, <1>2, <1>3, <2>1 DEF WALRule
<1> QED
  BY <1>4, <1>5, <1>6, <1>7, <1>8 DEF LogInv

(* A new log has no records, and no page carries an LSN of it. *)
LEMMA NewLogKeeps == ASSUME LogInv, NewLog PROVE LogInv'
<1>1. /\ era' = era + 1
      /\ log' = EmptyLog /\ logDisk' = EmptyLog
      /\ logPages' = 0 /\ logDiskPages' = 0
      /\ lastRec' = LogEOF
      /\ UNCHANGED <<relDisk, rel>>
  BY DEF NewLog, relVars
<1>2. /\ \A p \in DOMAIN rel : rel[p].era # era'
      /\ \A p \in DOMAIN relDisk : relDisk[p].era # era'
  BY <1>1 DEF LogInv, Stamps, Stamped
<1>3. Stamps'
  BY <1>1 DEF LogInv, Stamps, Stamped
<1> QED
  BY <1>1, <1>2, <1>3
     DEF LogInv, LogPlaced, EmptyLog, LastNewest, LogEOF, LSN, StampLogged, WALRule

-------------------------------------------------------------------------------
LEMMA InitInv == Init => LogInv
BY DEF Init, EmptyLog, LogInv, Stamps, LogPlaced, LastNewest, LogEOF, LSN,
       StampLogged, WALRule

LEMMA NextKeeps == ASSUME LogInv, [Next]_vars PROVE LogInv'
<1>1. CASE Write
  <2>1. CASE WritePFHeader \/ WriteRMHeader
    BY <2>1, InvUnchanged
       DEF WritePFHeader, WriteRMHeader, invVars, logVars, relVars, history
  <2> QED
    BY <1>1, <2>1, WriteLogHdrKeeps, WriteLogPageKeeps, WriteDataPageKeeps
       DEF Write
<1>2. CASE Continue
  <2>1. CASE CloseDone \/ CommitDone \/ AbortForced \/ EndDone \/ UndoSkip
    BY <2>1, InvUnchanged
       DEF CloseDone, CommitDone, AbortForced, EndDone, UndoSkip, invVars,
           diskVars, logVars, relVars, history
  <2>2. CASE RedoUnreadable \/ RedoControl \/ RedoPass
    BY <2>2, InvUnchanged
       DEF RedoUnreadable, RedoControl, RedoPass, invVars, diskVars, logVars,
           relVars, history
  <2>3. CASE UndoEndRecover
    BY <2>3
       DEF UndoEndRecover, diskVars, relVars, history, LogInv, Stamps, Stamped,
           LogPlaced, IsLSN, LastNewest, LogEOF, LSN, Older, StampLogged, WALRule,
           LogOnDisk
  <2> QED
    BY <1>2, <2>1, <2>2, <2>3, ControlKeeps, UndoKeeps, RedoKeeps DEF Continue
<1>3. CASE Request
  <2>1. CASE BeginT \/ (\E k \in Kinds : StartStatement(k)) \/ CloseFile
    BY <2>1, InvUnchanged
       DEF BeginT, BeginXact, StartStatement, CloseFile, invVars, diskVars,
           logVars, relVars, history
  <2>2. CASE Checkpoint
    BY <2>2, NewLogKeeps, InvUnchanged
       DEF Checkpoint, CheckpointResets, CheckpointBreaks, invVars, diskVars,
           logVars, relVars, history
  <2>3. CASE CloseDb
    BY <2>3, NewLogKeeps DEF CloseDb
  <2> QED
    BY <1>3, <2>1, <2>2, <2>3, InsertKeeps, DeleteKeeps, UpdateKeeps,
       ControlKeeps DEF Request
<1>4. CASE UNCHANGED vars
  BY <1>4, InvUnchanged DEF vars, invVars
<1> QED
  BY <1>1, <1>2, <1>3, <1>4, CrashKeeps DEF Next

(* LogInv is an invariant: pages never carry an LSN that this log has not, *)
(* and lastRec is the newest record, whatever crashes and log resets come. *)
THEOREM LogInvHolds == Spec => []LogInv
<1>1. LogInv /\ [Next]_vars => LogInv'
  BY NextKeeps
<1> QED
  BY InitInv, <1>1, PTL DEF Spec

(* Write-ahead logging: whenever the process dies, each data page on disk  *)
(* is described by the log on disk, up to the record the page names, after *)
(* any number of rollbacks, recoveries, crashes in them, and new logs.     *)
THEOREM WriteAhead == Spec => []WALRule
<1>1. LogInv => WALRule
  BY DEF LogInv
<1> QED
  BY LogInvHolds, <1>1, PTL

-------------------------------------------------------------------------------
(* The chain.  It is inductive together with what the control state says   *)
(* of the transaction: recovery logs compensation records with no record   *)
(* to link them to, but a log that was recovered from is not fresh when    *)
(* the next transaction begins on it.                                      *)

(* Records have links. *)
HasLinks == /\ \A l \in DOMAIN log : {"next", "prev"} \subseteq DOMAIN log[l]
            /\ \A l \in DOMAIN logDisk : {"next", "prev"} \subseteq DOMAIN logDisk[l]

(* A rollback inside a transaction has inTxn set; recovery has not. *)
InRecovery == ~inTxn /\ stmt \in {"undo", "redo"}

PhaseKnown ==
  /\ pc \in {"idle", "open", "tocommit", "committing", "aborting", "ending"}
       => stmt \notin {"undo", "redo"}
  /\ pc \in {"undo", "redo"} => stmt = pc
  /\ pc = "open" => inTxn

LinkedUnlessRecovering == fresh /\ lastRec # LogEOF /\ ~InRecovery => Linked

(* The first record of a transaction on a fresh log, if no record was      *)
(* logged before, is the first of the log.                                 *)
StartsEmpty == fresh /\ inTxn /\ lastRec = LogEOF => DOMAIN log = {}

ChainInv == HasLinks /\ PhaseKnown /\ LinkedUnlessRecovering /\ StartsEmpty

LEMMA ChainUnchanged ==
  ASSUME ChainInv, HasLinks', UNCHANGED <<log, lastRec, fresh, inTxn>>, PhaseKnown',
         InRecovery => InRecovery'
  PROVE  ChainInv'
BY DEF ChainInv, LinkedUnlessRecovering, StartsEmpty, Linked, Older, LogEOF, LSN

(* A record logged by a transaction extends the chain. *)
LEMMA ChainExtended ==
  ASSUME LogPlaced, LastNewest, HasLinks, Linked, lastRec # LogEOF,
         NEW body, InsertLogRec(body)
  PROVE  Linked'
<1>1. /\ \A l \in DOMAIN log : Older(l, NextLSN)
      /\ IsLSN(NextLSN)
  BY NextIsNewest
<1>2. \A l \in DOMAIN log : ~Older(NextLSN, l) /\ l # NextLSN
  BY <1>1 DEF LogPlaced, IsLSN, Older
<1>3. /\ lastRec \in DOMAIN log
      /\ \A l \in DOMAIN log : ~Older(lastRec, l)
  BY DEF LastNewest
<1>4. /\ DOMAIN log' = DOMAIN log \cup {NextLSN}
      /\ lastRec' = NextLSN
      /\ log'[NextLSN].next = LogEOF /\ log'[NextLSN].prev = lastRec
      /\ \A l \in DOMAIN log :
           log'[l] = IF l = lastRec THEN [log[l] EXCEPT !.next = NextLSN]
                                    ELSE log[l]
  BY <1>2 DEF InsertLogRec, LinkLast
<1>5. /\ log'[lastRec].next = NextLSN
      /\ \A l \in DOMAIN log : log'[l].prev = log[l].prev
      /\ \A l \in DOMAIN log : l # lastRec => log'[l].next = log[l].next
  BY <1>3, <1>4 DEF HasLinks
<1> DEFINE later(l)  == {k \in DOMAIN log : Older(l, k)}
           laterP(l) == {k \in DOMAIN log' : Older(l, k)}
<1>6. SUFFICES ASSUME NEW l \in DOMAIN log'
               PROVE  IF laterP(l) = {}
                        THEN l = lastRec' /\ log'[l].next = LogEOF
                        ELSE /\ log'[l].next \in laterP(l)
                             /\ \A k \in laterP(l) : ~Older(k, log'[l].next)
                             /\ log'[log'[l].next].prev = l
  BY DEF Linked, Older, LogEOF, LSN
<1>7. ~Older(NextLSN, NextLSN)
  BY <1>1 DEF IsLSN, Older
<1>8. CASE l = NextLSN
  <2>1. laterP(l) = {}
    BY <1>2, <1>4, <1>7, <1>8
  <2> QED
    BY <1>4, <1>8, <2>1
<1>9. CASE l = lastRec
  <2>1. laterP(l) = {NextLSN}
    BY <1>1, <1>3, <1>4, <1>9
  <2> QED
    BY <1>3, <1>4, <1>5, <1>7, <1>9, <2>1
<1>10. CASE l # lastRec /\ l # NextLSN
  <2>1. l \in DOMAIN log
    BY <1>4, <1>10
  <2>2. /\ log[l].next \in later(l)
        /\ \A k \in later(l) : ~Older(k, log[l].next)
        /\ log[log[l].next].prev = l
    BY <1>10, <2>1 DEF Linked
  <2>3. laterP(l) = later(l) \cup {NextLSN}
    BY <1>1, <1>4, <2>1
  <2>4. ~Older(NextLSN, log[l].next)
    BY <1>2, <2>2
  <2> QED
    BY <1>5, <1>10, <2>1, <2>2, <2>3, <2>4
<1> QED
  BY <1>8, <1>9, <1>10

(* A call that logs a record, in a transaction or in recovery. *)
LEMMA ChainLogged ==
  ASSUME LogInv, ChainInv, NEW body, InsertLogRec(body),
         inTxn \/ InRecovery, InRecovery => InRecovery', PhaseKnown',
         UNCHANGED <<logDisk, fresh, inTxn>>
  PROVE  ChainInv'
<1>1. LogPlaced /\ LastNewest /\ HasLinks
  BY DEF LogInv, ChainInv
<1>2. /\ IsLSN(NextLSN)
      /\ \A l \in DOMAIN log : Older(l, NextLSN)
  BY <1>1, NextIsNewest
<1>3. NextLSN \notin DOMAIN log /\ NextLSN # LogEOF
  BY <1>2 DEF IsLSN, Older, LogEOF, LSN
<1>4. /\ DOMAIN log' = DOMAIN log \cup {NextLSN}
      /\ lastRec' = NextLSN
      /\ {"next", "prev"} \subseteq DOMAIN log'[NextLSN]
      /\ log'[NextLSN].next = LogEOF
      /\ \A l \in DOMAIN log :
           log'[l] = IF l = lastRec /\ lastRec # LogEOF
                       THEN [log[l] EXCEPT !.next = NextLSN] ELSE log[l]
  BY <1>3 DEF InsertLogRec, LinkLast
<1>5. HasLinks'
  BY <1>1, <1>4 DEF HasLinks
<1>6. StartsEmpty'
  BY <1>3, <1>4 DEF StartsEmpty, LogEOF, LSN
<1>7. LinkedUnlessRecovering'
  <2> SUFFICES ASSUME fresh, ~InRecovery
               PROVE  Linked'
    BY DEF LinkedUnlessRecovering
  <2>1. CASE lastRec # LogEOF
    BY <1>1, <2>1, ChainExtended DEF ChainInv, LinkedUnlessRecovering
  <2>2. CASE lastRec = LogEOF
    <3>1. DOMAIN log = {}
      BY <2>2 DEF ChainInv, StartsEmpty
    <3>2. ~Older(NextLSN, NextLSN)
      BY <1>2 DEF IsLSN, Older
    <3> QED
      BY <1>4, <3>1, <3>2 DEF Linked, Older, LogEOF, LSN
  <2> QED
    BY <2>1, <2>2
<1> QED
  BY <1>5, <1>6, <1>7 DEF ChainInv

LEMMA NoPagesNoRecords == LogPlaced /\ logPages = 0 => DOMAIN log = {}
<1> SUFFICES ASSUME LogPlaced, logPages = 0, NEW l \in DOMAIN log
             PROVE  FALSE
  OBVIOUS
<1> QED
  BY DEF LogPlaced, IsLSN

LEMMA CommitOrAbortKeepsChain ==
  ASSUME LogInv, ChainInv, CommitT \/ AbortT
  PROVE  ChainInv'
<1>1. /\ \E body : InsertLogRec(body)
      /\ inTxn /\ stmt' = stmt /\ PhaseKnown'
      /\ UNCHANGED <<logDisk, fresh, inTxn>>
  BY DEF CommitT, AbortT, diskVars, txnVars, history, ChainInv, PhaseKnown
<1> QED
  BY <1>1, ChainLogged DEF InRecovery

LEMMA RequestKeepsChain ==
  ASSUME LogInv, ChainInv, Request
  PROVE  ChainInv'
<1>1. CASE BeginT \/ \E k \in Kinds : StartStatement(k)
  <2>1. /\ pc = "idle" /\ ~InRecovery
        /\ UNCHANGED <<log, logDisk, lastRec>>
        /\ \/ UNCHANGED <<inTxn, fresh>>
           \/ fresh' => fresh /\ (lastRec # LogEOF \/ logPages = 0)
        /\ PhaseKnown'
    BY <1>1, LogAssumption
       DEF BeginT, StartStatement, BeginXact, OnRecoveredLog, diskVars, logVars,
           ctlVars, history, ChainInv, PhaseKnown, InRecovery
  <2>2. logPages = 0 => DOMAIN log = {}
    BY NoPagesNoRecords DEF LogInv
  <2>3. HasLinks' /\ Linked' = Linked
    BY <2>1 DEF ChainInv, HasLinks, Linked, Older, LogEOF, LSN
  <2>4. LinkedUnlessRecovering'
    BY <2>1, <2>3 DEF ChainInv, LinkedUnlessRecovering
  <2>5. StartsEmpty'
    BY <2>1, <2>2 DEF ChainInv, StartsEmpty, LogEOF, LSN
  <2> QED
    BY <2>1, <2>3, <2>4, <2>5 DEF ChainInv
<1>2. ASSUME \/ \E v \in Val : InsertRec(v) /\ ~InsertInLostPage
             \/ \E r \in Records : DeleteRec(r)
             \/ \E r \in Records, v \in Val : UpdateRec(r, v)
      PROVE  ChainInv'
  <2>1. /\ \E body : InsertLogRec(body)
        /\ pc = "open" /\ pc' \in {"open", "wedged"}
        /\ UNCHANGED <<logDisk, fresh, inTxn, stmt>>
    BY <1>2
       DEF InsertRec, InsertInNewPage, InsertInFreePage, InsertInFullPage,
           DeleteRec, UpdateRec, diskVars, txnVars, ctlVars, history
  <2> QED
    BY <2>1, ChainLogged DEF ChainInv, PhaseKnown, InRecovery
<1>3. CASE CommitT \/ AbortT
  BY <1>3, CommitOrAbortKeepsChain
<1>4. CASE CloseFile \/ CheckpointBreaks
  <2>1. /\ UNCHANGED <<log, logDisk, lastRec, fresh, inTxn, stmt>>
        /\ PhaseKnown'
    BY <1>4 DEF CloseFile, CheckpointBreaks, diskVars, logVars, txnVars, history,
                PhaseKnown
  <2> QED
    BY <2>1, ChainUnchanged DEF ChainInv, HasLinks, InRecovery
<1>5. CASE pc = "idle" /\ NewLog
  BY <1>5 DEF NewLog, EmptyLog, ctlVars, ChainInv, HasLinks, PhaseKnown,
              LinkedUnlessRecovering, StartsEmpty
<1>6. ASSUME NEW v \in Val, InsertRec(v), InsertInLostPage
      PROVE  ChainInv'
  <2>1. /\ UNCHANGED <<log, logDisk, lastRec, fresh, inTxn, stmt>>
        /\ PhaseKnown'
    BY <1>6 DEF InsertRec, InsertInLostPage, diskVars, logVars, txnVars, history,
                ChainInv, PhaseKnown
  <2> QED
    BY <2>1, ChainUnchanged DEF ChainInv, HasLinks, InRecovery
<1> QED
  BY <1>1, <1>2, <1>3, <1>4, <1>5, <1>6
     DEF Request, Checkpoint, CheckpointResets, CloseDb

LEMMA ContinueKeepsChain ==
  ASSUME LogInv, ChainInv, Continue
  PROVE  ChainInv'
<1>1. CASE CloseDone \/ CommitDone \/ AbortForced \/ EndDone
  <2>1. /\ UNCHANGED <<log, logDisk, lastRec, fresh>>
        /\ inTxn' => inTxn
        /\ PhaseKnown' /\ (InRecovery => InRecovery')
    <3>1. CASE CloseDone
      BY <3>1, LogAssumption
         DEF CloseDone, diskVars, logVars, txnVars, history, ChainInv, PhaseKnown,
             InRecovery
    <3>2. CASE CommitDone
      BY <3>2 DEF CommitDone, diskVars, logVars, history, ChainInv, PhaseKnown,
                  InRecovery
    <3>3. CASE AbortForced \/ EndDone
      BY <3>3 DEF AbortForced, EndDone, diskVars, logVars, txnVars, history,
                  ChainInv, PhaseKnown, InRecovery
    <3> QED
      BY <1>1, <3>1, <3>2, <3>3
  <2>2. HasLinks' /\ Linked' = Linked
    BY <2>1 DEF ChainInv, HasLinks, Linked, Older, LogEOF, LSN
  <2>3. LinkedUnlessRecovering'
    BY <2>1, <2>2 DEF ChainInv, LinkedUnlessRecovering
  <2>4. StartsEmpty'
    BY <2>1 DEF ChainInv, StartsEmpty, LogEOF, LSN
  <2> QED
    BY <2>1, <2>2, <2>3, <2>4 DEF ChainInv
<1>2. CASE pc = "tocommit" /\ CommitT
  BY <1>2, CommitOrAbortKeepsChain
<1>3. CASE UndoChange
  <2>1. /\ InsertLogRec(CLR(cur))
        /\ pc = "undo" /\ pc' \in {"closing", "wedged", "failed"}
        /\ UNCHANGED <<logDisk, fresh, inTxn, stmt>>
    BY <1>3 DEF UndoChange, GiveUp, diskVars, txnVars, history
  <2> QED
    BY <2>1, ChainLogged DEF ChainInv, PhaseKnown, InRecovery
<1>4. CASE UndoEndAbort
  <2>1. /\ InsertLogRec(Control("end"))
        /\ inTxn /\ PhaseKnown'
        /\ UNCHANGED <<logDisk, fresh, inTxn>>
    BY <1>4 DEF UndoEndAbort, diskVars, txnVars, history, PhaseKnown
  <2> QED
    BY <2>1, ChainLogged DEF InRecovery
<1>5. CASE UndoEndRecover
  BY <1>5 DEF UndoEndRecover, diskVars, history, ChainInv, HasLinks, PhaseKnown,
              LinkedUnlessRecovering, StartsEmpty, LogEOF, LSN
<1>6. CASE UndoSkip \/ RedoUnreadable \/ RedoControl \/ RedoPass \/ RedoApply
  <2>1. /\ UNCHANGED <<log, logDisk, lastRec, fresh, inTxn>>
        /\ PhaseKnown' /\ (InRecovery => InRecovery')
    BY <1>6
       DEF UndoSkip, RedoUnreadable, RedoControl, RedoPass, RedoApply,
           RedoAdvance, diskVars, logVars, txnVars, history, ChainInv,
           PhaseKnown, InRecovery
  <2> QED
    BY <2>1, ChainUnchanged DEF ChainInv, HasLinks
<1> QED
  BY <1>1, <1>2, <1>3, <1>4, <1>5, <1>6 DEF Continue

LEMMA WriteKeepsChain ==
  ASSUME ChainInv, Write \/ UNCHANGED vars
  PROVE  ChainInv'
<1>1. /\ UNCHANGED <<log, lastRec, fresh, inTxn, stmt, pc>>
  BY DEF Write, WriteLogHdr, WriteLogPage, WriteDataPage, WritePFHeader,
         WriteRMHeader, logVars, txnVars, ctlVars, history, vars
<1>2. ASSUME NEW l \in DOMAIN logDisk'
      PROVE  {"next", "prev"} \subseteq DOMAIN logDisk'[l]
  <2>1. CASE UNCHANGED logDisk
    BY <2>1 DEF ChainInv, HasLinks
  <2>2. ASSUME NEW pn \in 0 .. logPages - 1, WriteLogPage(pn)
        PROVE  {"next", "prev"} \subseteq DOMAIN logDisk'[l]
    BY <2>2 DEF WriteLogPage, OnPage, ChainInv, HasLinks
  <2> QED
    BY <2>1, <2>2 DEF Write, WriteLogHdr, WriteDataPage, WritePFHeader,
                      WriteRMHeader, vars
<1> QED
  BY <1>1, <1>2, ChainUnchanged DEF ChainInv, HasLinks, PhaseKnown, InRecovery

LEMMA CrashKeepsChain == ASSUME ChainInv, Crash PROVE ChainInv'
<1>1. /\ log' = [l \in {l \in DOMAIN logDisk : l.pn < logDiskPages} |-> logDisk[l]]
      /\ lastRec' = LogEOF /\ ~inTxn'
      /\ UNCHANGED <<logDisk, fresh>>
      /\ PhaseKnown'
  BY DEF Crash, diskVars, PhaseKnown
<1> QED
  BY <1>1 DEF ChainInv, HasLinks, LinkedUnlessRecovering, StartsEmpty, LogEOF, LSN

(* ChainInv is an invariant: only recovery, and what follows it on the     *)
(* same log, logs a record that InsertLogRec does not link.                *)
THEOREM ChainInvHolds == Spec => []ChainInv
<1>1. Init => ChainInv
  BY DEF Init, EmptyLog, ChainInv, HasLinks, PhaseKnown, LinkedUnlessRecovering,
         StartsEmpty
<1>2. LogInv /\ ChainInv /\ [Next]_vars => ChainInv'
  BY WriteKeepsChain, ContinueKeepsChain, RequestKeepsChain, CrashKeepsChain
     DEF Next
<1> QED
  BY <1>1, <1>2, LogInvHolds, PTL DEF Spec

(* The records of a transaction, and of those before it, form the one      *)
(* chain that Redo and Undo walk: each links to the one logged next,       *)
(* across log pages and the rollbacks of earlier transactions.             *)
THEOREM ChainHolds == Spec => []LogChain
<1>1. ChainInv => LogChain
  BY DEF ChainInv, LinkedUnlessRecovering, InRecovery, LogChain
<1> QED
  BY ChainInvHolds, <1>1, PTL
===============================================================================
