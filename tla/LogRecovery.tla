------------------------------ MODULE LogRecovery ------------------------------
(***************************************************************************)
(* Logging, rollback and restart recovery of one relation: LG_Manager      *)
(* (lg_manager.cc) with the logged paths of RM_FileHandle                  *)
(* (rm_filehandle.cc) and of the operators of ql_node.cc, ql_manager.cc    *)
(* and sm_manager.cc that drive it, over a disk on which pages arrive one  *)
(* at a time, and a process that may die between any two writes.           *)
(*                                                                         *)
(* What is abstracted:                                                     *)
(*  - a log record occupies one of LogPageCap positions of a log page      *)
(*    (the code counts bytes); an LSN is the page and the position, and    *)
(*    the order of CompareLSN is kept;                                     *)
(*  - the log is a function from the LSNs in use to records, so a log page *)
(*    is the part of it with that page number;                             *)
(*  - a buffered page is dirty when it differs from the page on disk; any  *)
(*    dirty page may be written at any time (the 40-frame pool is shared   *)
(*    with catalogs, indexes and scans, so a frame may be stolen at any    *)
(*    call), under the rule WritePage imposes;                             *)
(*  - a statement deletes or updates any existing records: which ones its  *)
(*    condition selects does not matter here;                              *)
(*  - one relation, so the file name in a record is left out; catalogs and *)
(*    indexes are not logged and not modelled here.                        *)
(***************************************************************************)
EXTENDS RecordPage, FiniteSets

CONSTANTS
  Garbage,      (* bytes of a slot overwritten from outside a log record   *)
  Kinds,        (* the statements issued, of "insert","load","delete",     *)
                (* "update"                                                *)
  StrayXids,    (* values the uninitialised currXID may hold at recovery   *)
  LogPageCap,   (* log records per log page                                *)
  MaxPages,     (* bound: data pages of the relation                       *)
  MaxLog,       (* bound: log records after which no operation starts      *)
  MaxXid,       (* bound: transactions begun on one log                    *)
  MaxCrashes,   (* bound: crashes                                          *)
  MaxEras       (* bound: logs created                                     *)

ASSUME LogAssumption ==
  /\ Garbage \notin Val /\ Garbage # Empty
  /\ Kinds \subseteq {"insert", "load", "delete", "update"}
  /\ StrayXids \subseteq Nat /\ StrayXids # {}
  /\ LogPageCap \in Nat \ {0}
  /\ {MaxPages, MaxLog, MaxXid, MaxCrashes} \subseteq Nat
  /\ MaxEras \in Nat \ {0}

VARIABLES
  (* On disk. *)
  logDisk,        (* records of the log pages written so far              *)
  logDiskPages,   (* numPages in the log file's PF header                 *)
  relDisk,        (* data pages of the relation written so far            *)
  relDiskPages,   (* numPages in the relation's PF header                 *)
  relDiskFirst,   (* firstFree in the relation's RM header page           *)
  (* In the process. *)
  log,            (* the log as the buffer pool shows it                  *)
  logPages,       (* numPages of logFile_                                 *)
  rel,            (* the relation's pages as the buffer pool shows them   *)
  relPages,       (* numPages of the relation's file handle, page 0       *)
                  (* being the RM header                                  *)
  relFirst,       (* hdr_.firstFree of the relation's file handle         *)
  held,           (* data page that an error of InsertRec left pinned,    *)
                  (* 0 when there is none                                 *)
  lastRec,        (* lastRec                                              *)
  curr,           (* page number in currLogPage_, -1 when never set       *)
  pins,           (* log pages left pinned between calls                  *)
  inTxn,          (* bInTransaction                                       *)
  currXID,        (* currXID                                              *)
  auto,           (* singleStatementXact of the running statement         *)
  stmt,           (* what the relation is open for                        *)
  pc,             (* where the process is                                 *)
  cur,            (* the LSN Redo or Undo is at                           *)
  undoXid,        (* the XID Undo was called with                         *)
  (* History. *)
  goals,          (* contents any of which recovery may bring back        *)
  skipped,        (* records Redo passed over for another log's pageLSN   *)
  torn,           (* a crash came while a page was being added to a file  *)
  fresh,          (* the log was created empty and not yet recovered from *)
  reused,         (* transactions have run on a log recovered from        *)
  leftover,       (* a file has pages its header does not count, and the   *)
                  (* process that wrote them is gone                       *)
  era,            (* number of the log in use                             *)
  crashes

diskVars == <<logDisk, logDiskPages, relDisk, relDiskPages, relDiskFirst>>
logVars  == <<log, logPages, lastRec, curr, pins>>
relVars  == <<rel, relPages, relFirst, held>>
txnVars  == <<inTxn, currXID, auto>>
ctlVars  == <<stmt, pc, cur, undoXid>>
history  == <<goals, skipped, torn, fresh, reused, leftover, era, crashes>>
vars == <<logDisk, logDiskPages, relDisk, relDiskPages, relDiskFirst,
          log, logPages, lastRec, curr, pins, rel, relPages, relFirst,
          held, inTxn, currXID, auto, stmt, pc, cur, undoXid,
          goals, skipped, torn, fresh, reused, leftover, era, crashes>>

-------------------------------------------------------------------------------
(* Log sequence numbers. *)
LSN(pn, off) == [pn |-> pn, off |-> off]
LogEOF  == LSN(-1, -1)
ZeroLSN == LSN(0, 0)      (* also what a zeroed page header reads as *)

(* CompareLSN. *)
Older(a, b) == a.pn < b.pn \/ (a.pn = b.pn /\ a.off < b.off)

Rid   == (1 .. MaxPages) \X Slots
NoRid == <<0, 0>>         (* an RID whose valid_ is 0 *)

BlankPage == [num |-> 0, next |-> ListEnd, lsn |-> ZeroLSN, era |-> 0,
              rec |-> [s \in Slots |-> Empty]]

(* GetThisPage succeeds on a page below numPages that was ever written; one*)
(* that was not is past the end of the file, or reads as zeros, which are  *)
(* not PF_PAGE_USED.                                                       *)
Readable(p) == p \in DOMAIN rel /\ p < relPages

ContentsOf(pages, np) ==
  [r \in Rid |-> IF r[1] \in DOMAIN pages /\ r[1] < np
                   THEN pages[r[1]].rec[r[2]] ELSE Empty]
Contents == ContentsOf(rel, relPages)
Records  == {r \in Rid : Contents[r] # Empty}

(* The disk holds what the buffer pool does. *)
LogClean(l) == l \in DOMAIN logDisk /\ logDisk[l] = log[l]
RelClean(p) == p \in DOMAIN relDisk /\ relDisk[p] = rel[p]

(* Everything in the log is on disk, header included. *)
LogForced == logDiskPages = logPages /\ \A l \in DOMAIN log : LogClean(l)

(* Everything in the relation is on disk, headers included. *)
RelForced ==
  /\ relDiskPages = relPages
  /\ relDiskFirst = relFirst
  /\ \A p \in DOMAIN rel : RelClean(p)

EmptyLog == [l \in {} |-> ZeroLSN]

Init ==
  /\ logDisk = EmptyLog /\ logDiskPages = 0
  /\ relDisk = [p \in {} |-> BlankPage]
  /\ relDiskPages = 1 /\ relDiskFirst = ListEnd
  /\ log = EmptyLog /\ logPages = 0
  /\ rel = relDisk /\ relPages = 1 /\ relFirst = ListEnd /\ held = 0
  /\ lastRec = LogEOF /\ curr = -1 /\ pins = {}
  /\ inTxn = FALSE /\ currXID = 0 /\ auto = FALSE
  /\ stmt = "none" /\ pc = "idle" /\ cur = LogEOF /\ undoXid = 0
  /\ goals = {Contents}
  /\ skipped = {} /\ torn = FALSE /\ fresh = TRUE /\ reused = FALSE
  /\ leftover = FALSE /\ era = 1 /\ crashes = 0

-------------------------------------------------------------------------------
(* InsertLogRec *)

OnPage(pn) == {l \in DOMAIN log : l.pn = pn}

(* The first record of a run of the process and a record that does not fit *)
(* start a new page.                                                       *)
NeedsNewPage == lastRec = LogEOF \/ Cardinality(OnPage(curr)) >= LogPageCap

NextLSN == IF NeedsNewPage THEN LSN(logPages, 0)
                           ELSE LSN(curr, lastRec.off + 1)

(* Mutant: UpdateLastRecNextLSN is not called. *)
LinkNothing(l) == log

(* Mutant: the link is set after the offset has moved past the new record. *)
LinkPastLast(l) ==
  IF lastRec = LogEOF THEN log
                      ELSE [log EXCEPT ![lastRec].next = LSN(l.pn, l.off + 1)]

(* UpdateLastRecNextLSN *)
LinkLast(l) == IF lastRec = LogEOF THEN log
                                   ELSE [log EXCEPT ![lastRec].next = l]

(* A full page is unpinned before the new one is allocated; after recovery *)
(* lastRec is unset and the page recovery wrote to stays pinned.           *)
InsertLogRec(body) ==
  LET l     == NextLSN
      recd  == [type |-> body.type, rid |-> body.rid, old |-> body.old,
                new |-> body.new, undo |-> body.undo,
                undonext |-> body.undonext,
                xid |-> currXID, prev |-> lastRec, next |-> LogEOF]
  IN /\ log' = [k \in DOMAIN log \cup {l} |->
                  IF k = l THEN recd ELSE LinkLast(l)[k]]
     /\ lastRec' = l
     /\ curr' = l.pn
     /\ IF NeedsNewPage
          THEN /\ logPages' = logPages + 1
               /\ pins' = (IF lastRec = LogEOF THEN pins ELSE pins \ {curr})
                            \cup {logPages}
          ELSE UNCHANGED <<logPages, pins>>

Body(type, rid, old, new) ==
  [type |-> type, rid |-> rid, old |-> old, new |-> new,
   undo |-> "none", undonext |-> LogEOF]

Control(type) == Body(type, NoRid, Empty, Empty)

(* Operations start only while the log is below its bound. *)
LogBound == Cardinality(DOMAIN log) < MaxLog

-------------------------------------------------------------------------------
(* Transactions and statements *)

(* The log has been recovered from, and not recreated, when it has pages   *)
(* and lastRec is unset.                                                   *)
OnRecoveredLog == lastRec = LogEOF /\ logPages # 0

(* Mutant: transaction numbers run downwards. *)
BeginXactDown ==
  /\ currXID < MaxXid
  /\ inTxn' = TRUE
  /\ currXID' = currXID - 1
  /\ fresh' = (fresh /\ ~OnRecoveredLog)
  /\ reused' = (reused \/ OnRecoveredLog)
  /\ goals' = {Contents}
  /\ skipped' = {}
  /\ UNCHANGED <<torn, leftover, era, crashes>>

(* BeginT, for a user's BEGIN or for a statement outside a transaction. *)
BeginXact ==
  /\ currXID < MaxXid
  /\ inTxn' = TRUE
  /\ currXID' = currXID + 1
  /\ fresh' = (fresh /\ ~OnRecoveredLog)
  /\ reused' = (reused \/ OnRecoveredLog)
  /\ goals' = {Contents}
  /\ skipped' = {}
  /\ UNCHANGED <<torn, leftover, era, crashes>>

BeginT ==
  /\ pc = "idle" /\ ~inTxn
  /\ BeginXact
  /\ auto' = FALSE
  /\ UNCHANGED <<diskVars, logVars, relVars, ctlVars>>

(* A statement opens the relation (its header is read again) and begins a  *)
(* transaction of its own unless one is running.                           *)
StartStatement(k) ==
  /\ pc = "idle"
  /\ LogBound
  /\ pc' = "open"
  /\ stmt' = k
  /\ auto' = ~inTxn
  /\ IF inTxn THEN UNCHANGED <<inTxn, currXID, history>> ELSE BeginXact
  /\ UNCHANGED <<diskVars, logVars, relVars, cur, undoXid>>

(* The page an operation touched carries the LSN just logged. *)
Stamp(pg) == [pg EXCEPT !.lsn = NextLSN, !.era = era]

(* Mutant: the free list is given the page after the new one. *)
InsertInNewPageOffByOne(v) ==
  LET pg == Stamp(InsertInto(BlankPage, 0, v))
  IN /\ relFirst = ListEnd
     /\ relPages <= MaxPages
     /\ InsertLogRec(Body("insert", <<relPages, 0>>, Empty, v))
     /\ rel' = [q \in DOMAIN rel \cup {relPages} |->
                  IF q = relPages THEN pg ELSE rel[q]]
     /\ relPages' = relPages + 1
     /\ relFirst' = FirstFreeAfterInsert(BlankPage, relPages + 1)
     /\ UNCHANGED <<held, pc>>

(* InsertRec into a new page, which the file handle and not yet the header *)
(* on disk knows of.                                                       *)
InsertInNewPage(v) ==
  LET pg == Stamp(InsertInto(BlankPage, 0, v))
  IN /\ relFirst = ListEnd
     /\ relPages <= MaxPages
     /\ InsertLogRec(Body("insert", <<relPages, 0>>, Empty, v))
     /\ rel' = [q \in DOMAIN rel \cup {relPages} |->
                  IF q = relPages THEN pg ELSE rel[q]]
     /\ relPages' = relPages + 1
     /\ relFirst' = FirstFreeAfterInsert(BlankPage, relPages)
     /\ UNCHANGED <<held, pc>>

InsertInFreePage(v) ==
  LET pg == rel[relFirst]
      s  == FindAvailableSlot(pg)
  IN /\ Readable(relFirst)
     /\ HasRoom(pg)
     /\ InsertLogRec(Body("insert", <<relFirst, s>>, Empty, v))
     /\ rel' = [rel EXCEPT ![relFirst] = Stamp(InsertInto(pg, s, v))]
     /\ relFirst' = FirstFreeAfterInsert(pg, relFirst)
     /\ UNCHANGED <<relPages, held, pc>>

(* The page the free list offers is full: FindAvailableSlot returns -1, the*)
(* page is counted as if it had taken the record, a record with an invalid *)
(* RID is logged, and UpdatePageLSN's error leaves the statement with the  *)
(* page pinned, the file open and the transaction running.                 *)
InsertInFullPage(v) ==
  LET pg == rel[relFirst]
  IN /\ Readable(relFirst)
     /\ ~HasRoom(pg)
     /\ InsertLogRec(Body("insert", NoRid, Empty, v))
     /\ rel' = [rel EXCEPT ![relFirst] = CountInsert(pg)]
     /\ relFirst' = FirstFreeAfterInsert(pg, relFirst)
     /\ held' = relFirst
     /\ pc' = "wedged"
     /\ UNCHANGED relPages

(* The page the free list offers was never written: GetThisPage refuses it *)
(* and the statement returns with the file open and the transaction        *)
(* running, before anything is logged.                                     *)
InsertInLostPage ==
  /\ relFirst # ListEnd /\ ~Readable(relFirst)
  /\ pc' = "wedged"
  /\ UNCHANGED <<logVars, relVars>>

InsertRec(v) ==
  /\ pc = "open" /\ stmt \in {"insert", "load"}
  /\ LogBound
  /\ \/ InsertInNewPage(v)
     \/ InsertInFreePage(v)
     \/ InsertInFullPage(v)
     \/ InsertInLostPage
  /\ UNCHANGED <<diskVars, txnVars, stmt, cur, undoXid, history>>

(* qDelete::GetNext: the record is logged, then deleted. *)
DeleteRec(r) ==
  LET p == r[1]
  IN /\ pc = "open" /\ stmt = "delete"
     /\ LogBound
     /\ r \in Records
     /\ InsertLogRec(Body("delete", r, Contents[r], Empty))
     /\ rel' = [rel EXCEPT ![p] = Stamp(DeleteFrom(@, r[2], relFirst))]
     /\ relFirst' = FirstFreeAfterDelete(rel[p], p, relFirst)
     /\ UNCHANGED <<diskVars, relPages, held, txnVars, ctlVars, history>>

(* qUpdate::GetNext. *)
UpdateRec(r, v) ==
  /\ pc = "open" /\ stmt = "update"
  /\ LogBound
  /\ r \in Records
  /\ InsertLogRec(Body("update", r, Contents[r], v))
  /\ rel' = [rel EXCEPT ![r[1]] = Stamp(PutAt(@, r[2], v))]
  /\ UNCHANGED <<diskVars, relPages, relFirst, held, txnVars, ctlVars, history>>

-------------------------------------------------------------------------------
(* Writes: PF_BufferMgr::WritePage and the PF headers *)

(* The log's PF header, the first thing a force of the log writes. *)
WriteLogHdr ==
  /\ logDiskPages # logPages
  /\ logDiskPages' = logPages
  /\ UNCHANGED <<logDisk, relDisk, relDiskPages, relDiskFirst>>
  /\ UNCHANGED <<logVars, relVars, txnVars, ctlVars, history>>

(* A log page: evicted when no one pins it, or forced, after the header.   *)
WriteLogPage(pn) ==
  /\ \E l \in OnPage(pn) : ~LogClean(l)
  /\ pn \notin pins \/ logDiskPages = logPages
  /\ logDisk' = [l \in {k \in DOMAIN logDisk : k.pn # pn} \cup OnPage(pn) |->
                   IF l.pn = pn THEN log[l] ELSE logDisk[l]]
  /\ UNCHANGED <<logDiskPages, relDisk, relDiskPages, relDiskFirst>>
  /\ UNCHANGED <<logVars, relVars, txnVars, ctlVars, history>>

(* Mutant: pages are written without forcing the log. *)
LogAfter == TRUE

(* WritePage forces the log before it writes any other file's page. *)
LogFirst == LogForced

(* A data page, stolen from the pool at any call while no one pins it, or  *)
(* flushed by CloseFile, which has then written the PF header.             *)
WriteDataPage(p) ==
  /\ p \in DOMAIN rel
  /\ p # held
  /\ ~RelClean(p)
  /\ pc = "closing" => relDiskPages = relPages
  /\ LogFirst
  /\ relDisk' = [q \in DOMAIN relDisk \cup {p} |->
                   IF q = p THEN rel[p] ELSE relDisk[q]]
  /\ UNCHANGED <<logDisk, logDiskPages, relDiskPages, relDiskFirst>>
  /\ UNCHANGED <<logVars, relVars, txnVars, ctlVars, history>>

(* PF_FileHandle::FlushPages writes its header without going through the   *)
(* pool, hence without forcing the log.                                    *)
WritePFHeader ==
  /\ pc = "closing"
  /\ relDiskPages # relPages
  /\ relDiskPages' = relPages
  /\ UNCHANGED <<logDisk, logDiskPages, relDisk, relDiskFirst>>
  /\ UNCHANGED <<logVars, relVars, txnVars, ctlVars, history>>

(* RM_Manager::CloseFile copies its header into page 0, flushed with the   *)
(* data pages.                                                             *)
WriteRMHeader ==
  /\ pc = "closing"
  /\ relDiskFirst # relFirst
  /\ relDiskPages = relPages
  /\ LogFirst
  /\ relDiskFirst' = relFirst
  /\ UNCHANGED <<logDisk, logDiskPages, relDisk, relDiskPages>>
  /\ UNCHANGED <<logVars, relVars, txnVars, ctlVars, history>>

-------------------------------------------------------------------------------
(* The end of a statement and of a transaction *)

CloseFile ==
  /\ pc = "open" /\ ~(stmt = "load" /\ auto)
  /\ pc' = "closing"
  /\ UNCHANGED <<diskVars, logVars, relVars, txnVars, stmt, cur, undoXid,
                 history>>

(* The pages are out: Insert, Delete and Update now commit the transaction *)
(* they began, the steps of recovery and rollback go on.                   *)
CloseDone ==
  /\ pc = "closing" /\ RelForced
  /\ \/ stmt \in {"undo", "redo"} /\ pc' = stmt /\ UNCHANGED stmt
     \/ stmt \in Kinds /\ auto /\ pc' = "tocommit" /\ UNCHANGED stmt
     \/ stmt \in Kinds /\ ~auto /\ pc' = "idle" /\ stmt' = "none"
  /\ UNCHANGED <<diskVars, logVars, relVars, txnVars, cur, undoXid, history>>

(* CommitT is called on the user's COMMIT, after an Insert, Delete or      *)
(* Update of its own, and by Load before it closes the relation.           *)
CommitT ==
  /\ inTxn
  /\ \/ pc = "idle"
     \/ pc = "tocommit"
     \/ pc = "open" /\ stmt = "load" /\ auto
  /\ InsertLogRec(Control("commit"))
  /\ pc' = "committing"
  /\ goals' = goals \cup {Contents}
  /\ UNCHANGED <<diskVars, relVars, txnVars, stmt, cur, undoXid>>
  /\ UNCHANGED <<skipped, torn, fresh, reused, leftover, era, crashes>>

(* Mutant: the commit returns before the log is forced. *)
CommitDoneUnforced ==
  /\ pc = "committing"
  /\ inTxn' = FALSE /\ auto' = FALSE
  /\ IF stmt = "load" THEN pc' = "closing" /\ UNCHANGED stmt
                      ELSE pc' = "idle" /\ stmt' = "none"
  /\ goals' = {Contents}
  /\ UNCHANGED <<diskVars, logVars, relVars, currXID, cur, undoXid>>
  /\ UNCHANGED <<skipped, torn, fresh, reused, leftover, era, crashes>>

(* Mutant: Load does not close the relation. *)
CommitDoneNoClose ==
  /\ pc = "committing" /\ LogForced
  /\ inTxn' = FALSE /\ auto' = FALSE
  /\ pc' = "idle" /\ stmt' = "none"
  /\ goals' = {Contents}
  /\ UNCHANGED <<diskVars, logVars, relVars, currXID, cur, undoXid>>
  /\ UNCHANGED <<skipped, torn, fresh, reused, leftover, era, crashes>>

(* CommitT returns when its force is done. *)
CommitDone ==
  /\ pc = "committing" /\ LogForced
  /\ inTxn' = FALSE /\ auto' = FALSE
  /\ IF stmt = "load" THEN pc' = "closing" /\ UNCHANGED stmt
                      ELSE pc' = "idle" /\ stmt' = "none"
  /\ goals' = {Contents}
  /\ UNCHANGED <<diskVars, logVars, relVars, currXID, cur, undoXid>>
  /\ UNCHANGED <<skipped, torn, fresh, reused, leftover, era, crashes>>

(* AbortT: the ABORT record is forced, the transaction undone, and the END *)
(* record forced.                                                          *)
AbortT ==
  /\ pc = "idle" /\ inTxn
  /\ InsertLogRec(Control("abort"))
  /\ pc' = "aborting"
  /\ UNCHANGED <<diskVars, relVars, txnVars, stmt, cur, undoXid, history>>

AbortForced ==
  /\ pc = "aborting" /\ LogForced
  /\ pc' = "undo" /\ stmt' = "undo"
  /\ cur' = lastRec /\ undoXid' = currXID
  /\ UNCHANGED <<diskVars, logVars, relVars, txnVars, history>>

EndDone ==
  /\ pc = "ending" /\ LogForced
  /\ inTxn' = FALSE
  /\ pc' = "idle"
  /\ UNCHANGED <<diskVars, logVars, relVars, currXID, auto, stmt, cur, undoXid,
                 history>>

-------------------------------------------------------------------------------
(* Undo *)

Changes == {"insert", "delete", "update"}

(* Where Undo stops: the end of the log, a record of another transaction   *)
(* or one after which nothing is to be undone.                             *)
UndoStops(l) ==
  l # LogEOF => \/ log[l].xid # undoXid
                \/ log[l].type \in {"commit", "end"}

(* The compensation record for the record at l.  An undone update's image  *)
(* is passed to InsertLogRec but its size leaves no room for it.           *)
CLR(l) ==
  [type |-> "clr", rid |-> log[l].rid, old |-> Empty,
   new |-> IF log[l].type = "delete" THEN log[l].old ELSE Empty,
   undo |-> CASE log[l].type = "insert" -> "delete"
              [] log[l].type = "delete" -> "insert"
              [] log[l].type = "update" -> "update",
   undonext |-> log[l].prev]

(* The page edit that takes back the record at l. *)
UndoPage(l) ==
  LET p == log[l].rid[1]
      s == log[l].rid[2]
      edited == IF log[l].type = "insert" THEN DeleteFrom(rel[p], s, relFirst)
                                          ELSE PutAt(rel[p], s, log[l].old)
  IN /\ rel' = [rel EXCEPT ![p] = Stamp(edited)]
     /\ relFirst' = IF log[l].type = "insert"
                       THEN FirstFreeAfterDelete(rel[p], p, relFirst)
                       ELSE relFirst
     /\ UNCHANGED <<relPages, held>>

(* UpdatePageLSN finds the page; for an update GetRec finds the record. *)
CanUndo(l) ==
  /\ Readable(log[l].rid[1])
  /\ log[l].type = "update" => Contents[log[l].rid] # Empty

(* UpdatePageLSN has stamped the page before GetRec refuses the record.    *)
StampOnly(p) ==
  /\ rel' = IF Readable(p) THEN [rel EXCEPT ![p] = Stamp(@)] ELSE rel
  /\ UNCHANGED <<relPages, relFirst, held>>

(* An error of Undo: AbortT returns it with the transaction still open,    *)
(* CreateLog returns it and the database does not open.                    *)
GiveUp == pc' = IF inTxn THEN "wedged" ELSE "failed"

UndoChange ==
  /\ pc = "undo" /\ ~UndoStops(cur)
  /\ log[cur].type \in Changes
  /\ InsertLogRec(CLR(cur))
  /\ \/ /\ CanUndo(cur)
        /\ UndoPage(cur)
        /\ pc' = "closing"
        /\ cur' = log[cur].prev
     \/ /\ ~CanUndo(cur)
        /\ GiveUp
        /\ StampOnly(log[cur].rid[1])
        /\ UNCHANGED cur
  /\ UNCHANGED <<diskVars, txnVars, stmt, undoXid, history>>

(* Mutant: the LSN to go on from is not read from the record. *)
UndoSkipStuck ==
  /\ pc = "undo" /\ ~UndoStops(cur)
  /\ log[cur].type \in {"abort", "clr"}
  /\ UNCHANGED vars

(* ABORT and CLR records only move the cursor. *)
UndoSkip ==
  /\ pc = "undo" /\ ~UndoStops(cur)
  /\ log[cur].type \in {"abort", "clr"}
  /\ cur' = IF log[cur].type = "clr" THEN log[cur].undonext ELSE log[cur].prev
  /\ UNCHANGED <<diskVars, logVars, relVars, txnVars, stmt, pc, undoXid,
                 history>>

(* AbortT goes on to log END. *)
UndoEndAbort ==
  /\ pc = "undo" /\ UndoStops(cur) /\ inTxn
  /\ InsertLogRec(Control("end"))
  /\ pc' = "ending" /\ stmt' = "none"
  /\ cur' = LogEOF /\ undoXid' = 0
  /\ UNCHANGED <<diskVars, relVars, txnVars, history>>

(* CreateLog, after Recover: the log is neither truncated nor is its end   *)
(* remembered.                                                             *)
UndoEndRecover ==
  /\ pc = "undo" /\ UndoStops(cur) /\ ~inTxn
  /\ pc' = "idle" /\ stmt' = "none"
  /\ cur' = LogEOF /\ undoXid' = 0
  /\ lastRec' = LogEOF /\ currXID' = 0
  /\ UNCHANGED <<diskVars, relVars, log, logPages, curr, pins, inTxn, auto,
                 history>>

-------------------------------------------------------------------------------
(* Redo *)

(* The record at cur is done with: the next one, or Undo of the last one's *)
(* transaction.                                                            *)
RedoAdvance ==
  IF log[cur].next = LogEOF
    THEN stmt' = "undo" /\ cur' = cur /\ undoXid' = log[cur].xid
    ELSE stmt' = "redo" /\ cur' = log[cur].next /\ UNCHANGED undoXid

(* The edit of a page that repeats a record, and whether UpdateRec's GetRec*)
(* finds the record.  The bytes after a compensation record for an update  *)
(* are not an image.                                                       *)
RedoKind(l) == IF log[l].type = "clr" THEN log[l].undo ELSE log[l].type

CanRedo(l) == RedoKind(l) = "update" => Contents[log[l].rid] # Empty

RedoPage(l) ==
  LET p  == log[l].rid[1]
      s  == log[l].rid[2]
      edited ==
        CASE RedoKind(l) = "delete" -> DeleteFrom(rel[p], s, relFirst)
          [] RedoKind(l) = "insert" -> PutAt(rel[p], s, log[l].new)
          [] log[l].type = "update" -> PutAt(rel[p], s, log[l].new)
          [] OTHER                  -> PutAt(rel[p], s, Garbage)
  IN /\ rel' = [rel EXCEPT ![p] = [edited EXCEPT !.lsn = l, !.era = era]]
     /\ relFirst' = IF RedoKind(l) = "delete"
                       THEN FirstFreeAfterDelete(rel[p], p, relFirst)
                       ELSE relFirst
     /\ UNCHANGED <<relPages, held>>

(* A log page that never reached the disk, or one of the data page. *)
RedoUnreadable ==
  /\ pc = "redo"
  /\ IF cur \in DOMAIN log
       THEN /\ log[cur].type \in Changes \cup {"clr"}
            /\ ~Readable(log[cur].rid[1])
       ELSE TRUE
  /\ pc' = "failed"
  /\ UNCHANGED <<diskVars, logVars, relVars, txnVars, stmt, cur, undoXid,
                 history>>

RedoControl ==
  /\ pc = "redo" /\ cur \in DOMAIN log
  /\ log[cur].type \in {"commit", "abort", "end"}
  /\ RedoAdvance
  /\ pc' = stmt'
  /\ UNCHANGED <<diskVars, logVars, relVars, txnVars, history>>

(* The LSN of the page is older than the record's. *)
NeedsRedo(l) == Older(rel[log[l].rid[1]].lsn, l)

Redoable(l) ==
  /\ l \in DOMAIN log
  /\ log[l].type \in Changes \cup {"clr"}
  /\ Readable(log[l].rid[1])

(* A page whose LSN is not older than the record has it already, or so the *)
(* LSN says: one left by an earlier log, or by no log, says nothing.       *)
RedoPass ==
  /\ pc = "redo" /\ Redoable(cur)
  /\ ~NeedsRedo(cur)
  /\ skipped' = IF rel[log[cur].rid[1]].era = era
                  THEN skipped ELSE skipped \cup {log[cur].rid}
  /\ RedoAdvance
  /\ pc' = stmt'
  /\ UNCHANGED <<diskVars, logVars, relVars, txnVars>>
  /\ UNCHANGED <<goals, torn, fresh, reused, leftover, era, crashes>>

RedoApply ==
  /\ pc = "redo" /\ Redoable(cur)
  /\ NeedsRedo(cur)
  /\ \/ /\ CanRedo(cur)
        /\ RedoPage(cur)
        /\ RedoAdvance
        /\ pc' = "closing"
     \/ /\ ~CanRedo(cur)
        /\ pc' = "failed"
        /\ UNCHANGED <<relVars, stmt, cur, undoXid>>
  /\ UNCHANGED <<diskVars, logVars, txnVars, history>>

-------------------------------------------------------------------------------
(* Crashes, checkpoints and the end of a session *)

(* A page was being added to a file: its header does not count the page    *)
(* yet, or the page itself was never written.                              *)
Growing ==
  \/ logDiskPages # logPages
  \/ \E pn \in 0 .. logPages - 1 : \A l \in DOMAIN logDisk : l.pn # pn
  \/ relDiskPages # relPages
  \/ \E p \in DOMAIN rel : p \notin DOMAIN relDisk

(* The process dies and is started again: OpenDb finds the log file and    *)
(* begins recovery, unless the log's header counts no page.  The pin that  *)
(* Recover's GetFirstPage takes is never released.                         *)
Crash ==
  /\ crashes < MaxCrashes
  /\ crashes' = crashes + 1
  /\ rel' = [p \in {p \in DOMAIN relDisk : p < relDiskPages} |-> relDisk[p]]
  /\ relPages' = relDiskPages
  /\ relFirst' = relDiskFirst
  /\ held' = 0
  /\ log' = [l \in {l \in DOMAIN logDisk : l.pn < logDiskPages} |-> logDisk[l]]
  /\ logPages' = logDiskPages
  /\ lastRec' = LogEOF /\ curr' = -1
  /\ pins' = IF ZeroLSN \in DOMAIN log' THEN {0} ELSE {}
  /\ inTxn' = FALSE /\ auto' = FALSE
  /\ IF logDiskPages = 0
       THEN pc' = "idle" /\ stmt' = "none" /\ cur' = LogEOF /\ currXID' = 0
       ELSE /\ pc' = "redo" /\ stmt' = "redo" /\ cur' = ZeroLSN
            /\ currXID' \in StrayXids
  /\ undoXid' = 0
  /\ torn' = (torn \/ Growing)
  /\ leftover' = (leftover \/ (logDiskPages = 0 /\ DOMAIN logDisk # {}))
  /\ UNCHANGED <<diskVars, goals, skipped, fresh, reused, era>>

(* The log file destroyed and created. *)
NewLog ==
  /\ era < MaxEras
  /\ era' = era + 1
  /\ log' = EmptyLog /\ logDisk' = EmptyLog
  /\ logPages' = 0 /\ logDiskPages' = 0
  /\ lastRec' = LogEOF /\ pins' = {}
  /\ inTxn' = FALSE /\ currXID' = 0 /\ auto' = FALSE
  /\ goals' = {Contents} /\ skipped' = {}
  /\ fresh' = TRUE /\ torn' = FALSE
  /\ leftover' = (\E p \in DOMAIN relDisk : p \notin DOMAIN rel)
  /\ UNCHANGED <<relDisk, relDiskPages, relDiskFirst, relVars, ctlVars>>
  /\ UNCHANGED <<reused, crashes>>

(* Checkpoint unpins the page it believes is the only pinned one, closes   *)
(* the log, opens and forces the files in dirtyFiles, whose pages are all  *)
(* on disk, and starts a new log.  When currLogPage_ was never set the     *)
(* page it unpins is whatever its variable holds.                          *)
CheckpointResets ==
  /\ \/ curr # -1 /\ pins = {curr}
     \/ curr = -1 /\ pins = {0}
  /\ NewLog
  /\ UNCHANGED curr

(* Another page is pinned: the log cannot be closed and its current page   *)
(* is no longer pinned, so nothing can be logged in it safely any more.    *)
CheckpointBreaks ==
  /\ curr \in pins /\ pins # {curr}
  /\ pc' = "wedged"
  /\ UNCHANGED <<diskVars, logVars, relVars, txnVars, stmt, cur, undoXid,
                 history>>

(* In the remaining cases, no page or another one pinned, it only returns  *)
(* an error.                                                               *)
Checkpoint ==
  /\ pc = "idle" /\ ~inTxn
  /\ CheckpointResets \/ CheckpointBreaks

(* CloseDb destroys the log, an open transaction's records with it, and    *)
(* the next OpenDb creates one.                                            *)
CloseDb ==
  /\ pc = "idle"
  /\ NewLog
  /\ curr' = -1

-------------------------------------------------------------------------------
(* What the running call does by itself, without a new request. *)
Write ==
  \/ WriteLogHdr
  \/ \E pn \in 0 .. logPages - 1 : WriteLogPage(pn)
  \/ \E p \in 1 .. MaxPages : WriteDataPage(p)
  \/ WritePFHeader
  \/ WriteRMHeader

Continue ==
  \/ CloseDone
  \/ pc = "tocommit" /\ CommitT
  \/ CommitDone
  \/ AbortForced
  \/ EndDone
  \/ UndoChange \/ UndoSkip \/ UndoEndAbort \/ UndoEndRecover
  \/ RedoUnreadable \/ RedoControl \/ RedoPass \/ RedoApply

(* What the user, or the running statement, asks for. *)
Request ==
  \/ BeginT
  \/ \E k \in Kinds : StartStatement(k)
  \/ \E v \in Val : InsertRec(v)
  \/ \E r \in Records : DeleteRec(r)
  \/ \E r \in Records, v \in Val : UpdateRec(r, v)
  \/ CloseFile
  \/ pc # "tocommit" /\ CommitT
  \/ AbortT
  \/ Checkpoint
  \/ CloseDb

Next == Write \/ Continue \/ Request \/ Crash

Spec == Init /\ [][Next]_vars

(* A call that has started runs to its end: the process is one thread that *)
(* waits for nothing but the disk.                                         *)
FairSpec == Spec /\ WF_vars(Write \/ Continue)

-------------------------------------------------------------------------------
LogTypes == Changes \cup {"clr", "commit", "abort", "end"}
Cell == Val \cup {Empty, Garbage}
LogRec == [type : LogTypes, rid : Rid \cup {NoRid}, old : Cell, new : Cell,
           undo : Changes \cup {"none"}, undonext : [pn : Int, off : Int],
           xid : Nat, prev : [pn : Int, off : Int],
           next : [pn : Int, off : Int]]

Lsn == [pn : Int, off : Int]

PageType == [num : Int, next : Int, lsn : Lsn, era : Nat, rec : [Slots -> Cell]]

(* Every variable has its type. *)
TypeOK ==
  /\ logPages \in Nat /\ logDiskPages \in Nat
  /\ \A l \in DOMAIN log : l \in Lsn /\ log[l] \in LogRec
  /\ \A l \in DOMAIN logDisk : l \in Lsn /\ logDisk[l] \in LogRec
  /\ \A p \in DOMAIN rel : p \in 1 .. MaxPages /\ rel[p] \in PageType
  /\ \A p \in DOMAIN relDisk : p \in 1 .. MaxPages /\ relDisk[p] \in PageType
  /\ relPages \in 1 .. MaxPages + 1 /\ relDiskPages \in 1 .. MaxPages + 1
  /\ relFirst \in Int /\ relDiskFirst \in Int
  /\ held \in 0 .. MaxPages
  /\ lastRec \in Lsn /\ curr \in Int /\ pins \subseteq Nat
  /\ inTxn \in BOOLEAN /\ auto \in BOOLEAN
  /\ currXID \in Nat /\ undoXid \in Nat
  /\ stmt \in Kinds \cup {"none", "undo", "redo"}
  /\ pc \in {"idle", "open", "closing", "tocommit", "committing", "aborting",
             "undo", "ending", "redo", "failed", "wedged"}
  /\ cur \in Lsn
  /\ \A g \in goals : g \in [Rid -> Cell]
  /\ skipped \subseteq Rid
  /\ {torn, fresh, reused, leftover} \subseteq BOOLEAN
  /\ era \in 1 .. MaxEras /\ crashes \in 0 .. MaxCrashes

(* The log as recovery would find it. *)
LogOnDisk == {l \in DOMAIN logDisk : l.pn < logDiskPages}

(* Write-ahead: a data page on disk that carries an LSN of this log has    *)
(* its record in the log on disk, and every record before it, whatever was *)
(* stolen, flushed or being forced when.  The records appended before a    *)
(* record are those with older LSNs.                                       *)
WALRule ==
  \A p \in DOMAIN relDisk :
    relDisk[p].era = era
      => {l \in DOMAIN log : ~Older(relDisk[p].lsn, l)} \cup {relDisk[p].lsn}
           \subseteq LogOnDisk

(* Each record links to the one logged next, which links back, and only    *)
(* lastRec to none.                                                        *)
Linked ==
  \A l \in DOMAIN log :
    LET later == {k \in DOMAIN log : Older(l, k)}
    IN IF later = {}
         THEN l = lastRec /\ log[l].next = LogEOF
         ELSE /\ log[l].next \in later
              /\ \A k \in later : ~Older(k, log[l].next)
              /\ log[log[l].next].prev = l

(* During a transaction on a log not recovered from, the records form one  *)
(* chain from 0.0 to lastRec in the order of their LSNs, the one Redo and  *)
(* Undo walk.                                                              *)
LogChain == fresh /\ inTxn /\ lastRec # LogEOF => Linked

(* Between transactions the relation holds the contents at the last commit *)
(* (or that of the commit a crash interrupted): a rolled back transaction  *)
(* and one that a crash cut short leave nothing behind, and a committed    *)
(* one loses nothing.  The only exceptions: a record Redo passed over on   *)
(* the word of an LSN that the page has from an earlier log, and the bytes *)
(* redo takes for the image of an undone update.  The log is one that has  *)
(* been recovered from at most once since it was created, and no page that *)
(* a dead process left beyond the end of a file can come back with it.     *)
AtomicAndDurable ==
  fresh /\ ~leftover /\ pc = "idle" /\ ~inTxn
    => \E g \in goals : \A r \in Rid \ skipped : Contents[r] \in {g[r], Garbage}

(* An update of a record that its own transaction inserted: when recovery  *)
(* is interrupted after it has undone both, it undoes the update again     *)
(* and finds no record.                                                    *)
UpdateOfOwnInsert ==
  \E k, l \in DOMAIN log :
    /\ log[k].type = "insert" /\ log[l].type = "update"
    /\ log[k].rid = log[l].rid /\ log[k].xid = log[l].xid

InvalidRidLogged ==
  \E l \in DOMAIN log : log[l].type = "insert" /\ log[l].rid = NoRid

(* Recovery on a log not recovered from before fails only when, since the  *)
(* log was created, a crash has come while a page was being added to a     *)
(* file, or in the cases of the two definitions above; of logs that        *)
(* continue in files with pages left beyond their end it says nothing.     *)
RecoverySucceeds ==
  pc = "failed" /\ fresh /\ ~leftover => torn \/ InvalidRidLogged \/ UpdateOfOwnInsert

(* numRecords drifts, when it drifts, downwards only, whatever rollback and*)
(* recovery made of the page: a page that has room is never taken off the  *)
(* free list for being full.  The page an InsertRec without a slot has     *)
(* counted up is past that; it stays pinned, so no one reads it again.     *)
NumRecordsNeverOver ==
  LET NotOver(pg) == pg.num <= Cardinality({s \in Slots : pg.rec[s] # Empty})
  IN /\ \A p \in DOMAIN rel \ {held} : NotOver(rel[p])
     /\ \A p \in DOMAIN relDisk : NotOver(relDisk[p])

(* The free list never leads InsertRec to a page that GetThisPage refuses, *)
(* whatever of the header and the pages a crash let through, unless a log  *)
(* that was recovered from has been written to again: its new records have *)
(* no link from the old ones, so a second recovery does not reach the      *)
(* record of a page whose loss makes the first one fail.                   *)
FreePageExists ==
  pc = "open" /\ relFirst # ListEnd /\ ~reused => Readable(relFirst)

(* The records that the open transaction, if there is one, has logged a    *)
(* change of.                                                              *)
TouchedByOpen ==
  {r \in Rid : inTxn /\ \E l \in DOMAIN log : log[l].rid = r /\ log[l].xid = currXID}

(* A log is discarded, by Checkpoint or by CloseDb, only when the disk     *)
(* alone holds the relation: what committed, and nothing else.  Only       *)
(* CloseDb may come with a transaction open; what that has changed so far  *)
(* is then on disk too and stays, and everything else is what committed.   *)
(* The exceptions are those of AtomicAndDurable.                           *)
CheckpointSafe ==
  [][era' # era =>
       /\ RelForced
       /\ fresh /\ ~leftover =>
            \E g \in goals : \A r \in Rid \ (skipped \cup TouchedByOpen) :
              ContentsOf(relDisk, relDiskPages)[r] \in {g[r], Garbage}]_vars

(* Once begun, a commit, a rollback, a restart and a flush end: the chain  *)
(* Undo and Redo follow never turns back on itself, even when a crash      *)
(* makes recovery start over.                                              *)
CallsReturn ==
  pc \in {"closing", "tocommit", "committing", "aborting", "undo", "ending",
          "redo"}
    ~> pc \in {"idle", "failed", "wedged"}

-------------------------------------------------------------------------------
(* The proposal: Recover returns the database to a consistent state after  *)
(* crash, also on a log that was recovered from before.  The code does not *)
(* keep it.                                                                *)
RecoveryConsistent ==
  pc = "idle" /\ ~inTxn
    => \E g \in goals : \A r \in Rid \ skipped : Contents[r] \in {g[r], Garbage}
===============================================================================
