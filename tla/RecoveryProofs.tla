---------------------------- MODULE RecoveryProofs ----------------------------
EXTENDS LogTypeProofs

(***************************************************************************)
(* Proofs that recovery and rollback bring back what was committed, and    *)
(* only that (AtomicAndDurable), and that the log is given up only when    *)
(* the disk holds it (CheckpointSafe).                                     *)
(*                                                                         *)
(* The argument is about the history H of the log: for each record, what   *)
(* the relation held once it was applied, which records of the relation    *)
(* its transaction had then changed, and what the transaction would be     *)
(* rolled back to. H is not a variable. It exists: the invariant says that *)
(* some H fits the log, and each step is shown to leave one that does.     *)
(*                                                                         *)
(* Between restarts (Normal), H fits the log in the buffer pool, the last  *)
(* record's contents are the relation's, every data page holds the         *)
(* contents after the record that stamped it, and no page is on disk       *)
(* before its record. After a crash (Recovery), the log on disk ends at    *)
(* one record z. Redo has brought each page up to the record it is at, so  *)
(* at z the pages hold what H says of z, but for what compensation records *)
(* of later runs of recovery have put back already; Undo then walks back   *)
(* to the contents before the transaction cut short. The rollback of       *)
(* AbortT is Undo in a Normal state.                                       *)
(*                                                                         *)
(* Then: the free list of the relation never leads InsertRec to a page     *)
(* that does not exist (FreePageExists). A crash may leave on disk a list  *)
(* that leads to a page which is not there, but only when the log on disk  *)
(* has a change of that page, at which Redo fails every time.              *)
(*                                                                         *)
(* Last, Redo and Undo do not fail on a log not recovered from before      *)
(* (RecoverySucceeds), but in the cases the property names. A log page is  *)
(* written in full, so the log a crash leaves is a chain up to the first   *)
(* record that is missing or was written before its link, and pages of the *)
(* relation are on disk only up to there. A record of the relation that    *)
(* this log updates and neither inserts nor deletes is there all the time, *)
(* on disk too; any other one is on a page that carries an LSN of this     *)
(* log, so Redo finds on it what H says. A page recovery itself has        *)
(* stamped lacks none of the records Undo still looks for.                 *)
(***************************************************************************)

(* The last record was logged by an earlier run of the process, or none    *)
(* will be until recovery is over.                                         *)
Recovering == \/ ~inTxn /\ stmt \in {"undo", "redo"}
              \/ lastRec = LogEOF /\ logPages # 0

(* The relation is on disk whenever it is closed. *)
ForcedWhenClosed ==
  (\/ pc \in {"idle", "tocommit", "aborting", "undo", "ending", "redo"}
   \/ pc = "committing" /\ stmt # "load") => RelForced

(* No page lies beyond the count of pages in the file handle; a statement, *)
(* a commit and a rollback run in a transaction and recovery does not.     *)
ClosedInv ==
  /\ ForcedWhenClosed
  /\ \A p \in DOMAIN rel : p < relPages
  /\ pc \in {"open", "committing", "aborting", "ending"} => inTxn
  /\ stmt = "redo" => ~inTxn

(* Of a history H: what the relation held after the record at l, the       *)
(* records changed since the last commit or end before it and not put      *)
(* back, and what it held then.  H[LogEOF] is for the start of the log.    *)
After(H, l) == H[l].contents
Open(H, l)  == H[l].open
Base(H, l)  == H[l].base

Lsns == Pos \cup {LogEOF}

(* The record at q of the log L is of transaction x or ends another. *)
Follows(L, q, x) == q = LogEOF \/ L[q].type \in {"commit", "end"} \/ L[q].xid = x

(* A record of an edit, in the log L: it changes its own slot only, from   *)
(* its image before to its image after.                                    *)
ChangeMeans(L, H, l) ==
  L[l].type \in Changes =>
    /\ \A x \in Rid : After(H, l)[x] = IF x = L[l].rid THEN L[l].new
                                                      ELSE After(H, L[l].prev)[x]
    /\ L[l].rid \in Rid => L[l].old = After(H, L[l].prev)[L[l].rid]
    /\ L[l].type = "insert" => L[l].old = Empty
    /\ L[l].type = "delete" => L[l].new = Empty
    /\ Open(H, l) = Open(H, L[l].prev) \cup {L[l].rid}
    /\ Base(H, l) = Base(H, L[l].prev)
    /\ Follows(L, L[l].prev, L[l].xid)

(* A compensation record takes the relation back to where Undo goes on;    *)
(* that for an update finds the record there.                              *)
ClrMeans(L, H, l) ==
  L[l].type = "clr" =>
    /\ \A x \in Rid : /\ After(H, l)[x] = After(H, L[l].undonext)[x]
                      /\ x # L[l].rid => After(H, l)[x] = After(H, L[l].prev)[x]
    /\ L[l].rid \in Rid => /\ L[l].undo = "insert" => After(H, l)[L[l].rid] = L[l].new
                           /\ L[l].undo = "delete" => After(H, l)[L[l].rid] = Empty
                           /\ L[l].undo = "update" => After(H, L[l].prev)[L[l].rid] # Empty
    /\ Open(H, l) = Open(H, L[l].undonext)
    /\ Base(H, l) = Base(H, L[l].undonext)
    /\ Follows(L, L[l].undonext, L[l].xid)

(* An ABORT record changes nothing.                                        *)
AbortMeans(L, H, l) ==
  L[l].type = "abort" =>
    /\ \A x \in Rid : After(H, l)[x] = After(H, L[l].prev)[x]
    /\ Open(H, l) = Open(H, L[l].prev)
    /\ Base(H, l) = Base(H, L[l].prev)
    /\ Follows(L, L[l].prev, L[l].xid)

(* After COMMIT and END there is nothing to roll back.                     *)
EndMeans(L, H, l) ==
  L[l].type \in {"commit", "end"} =>
    /\ \A x \in Rid : After(H, l)[x] = After(H, L[l].prev)[x]
    /\ Open(H, l) = {}
    /\ Base(H, l) = After(H, l)

(* Records not changed since then are as they were. *)
Settled(H, l) == \A x \in Rid : x \notin Open(H, l) => After(H, l)[x] = Base(H, l)[x]

Means(L, H, l) ==
  /\ ChangeMeans(L, H, l) /\ ClrMeans(L, H, l) /\ AbortMeans(L, H, l) /\ EndMeans(L, H, l)
  /\ Settled(H, l)

StartMeans(H) == Open(H, LogEOF) = {} /\ Settled(H, LogEOF)

(* The record at l links to the one logged before it, and to the next one  *)
(* if there is one.                                                        *)
LinksBack(L, l) == \/ L[l].prev = LogEOF /\ l = ZeroLSN
                   \/ L[l].prev \in Pos /\ l = Successor(L[l].prev)

LinksOn(L, last, l) == \/ l = last /\ L[l].next = LogEOF
                       \/ l # last /\ L[l].next = Successor(l)

UpTo(l) == {k \in Pos : ~Older(l, k)}

(* Records that differ at most in the link to the next, which InsertLogRec *)
(* sets later, perhaps after the page was written.                         *)
SameRecord(r, s) ==
  /\ r.type = s.type /\ r.rid = s.rid /\ r.old = s.old /\ r.new = s.new
  /\ r.undo = s.undo /\ r.undonext = s.undonext /\ r.xid = s.xid /\ r.prev = s.prev

(* The record at L and those before it are on disk, in a chain. *)
Durable(L) ==
  L # LogEOF => \A l \in UpTo(L) : /\ l \in LogOnDisk
                                   /\ Older(l, L) => logDisk[l].next = Successor(l)

(* A page holds what the relation held after the record at l. *)
Was(H, l, pg, p) == \A s \in Slots : pg.rec[s] = After(H, l)[<<p, s>>]

(* The record a page is up to: none of this log when another log stamped   *)
(* it.                                                                     *)
StampOf(pg) == IF pg.era = era THEN pg.lsn ELSE LogEOF

(* The log is one chain from 0.0 to lastRec; what is on disk is part of    *)
(* it, links that were set too late missing.                               *)
NormalChain ==
  /\ IF lastRec = LogEOF THEN DOMAIN log = {}
                         ELSE lastRec \in Pos /\ DOMAIN log = UpTo(lastRec)
  /\ \A l \in DOMAIN log : LinksBack(log, l) /\ LinksOn(log, lastRec, l)
  /\ \A l \in DOMAIN logDisk : /\ l \in DOMAIN log
                               /\ SameRecord(logDisk[l], log[l])
                               /\ logDisk[l].next \in {LogEOF, log[l].next}

(* H fits the log, and what the relation holds now is what it held after   *)
(* the last record.                                                        *)
NormalHistory(H) ==
  /\ \A l \in DOMAIN log : Means(log, H, l)
  /\ StartMeans(H)
  /\ After(H, lastRec) = Contents

Ended == lastRec = LogEOF \/ log[lastRec].type \in {"commit", "end"}

(* A commit or end at b is on disk, and rolling back any later record      *)
(* gives contents that recovery may bring back.                            *)
NormalGoals(H, b) ==
  /\ b \in DOMAIN log \cup {LogEOF}
  /\ Durable(b)
  /\ \A l \in DOMAIN log \cup {LogEOF} : ~Older(l, b) => Base(H, l) \in goals
  /\ ~inTxn => b = lastRec
  /\ ~inTxn \/ pc \in {"committing", "ending"} => Ended
  /\ inTxn => Follows(log, lastRec, currXID)

(* Each page holds what the relation held after the record that stamped    *)
(* it, in memory and on disk, and on disk only with its record; what no    *)
(* page holds was never there. Pages of earlier logs are counted in the    *)
(* file.                                                                   *)
NormalPages(H) ==
  /\ \A p \in DOMAIN rel : /\ Was(H, StampOf(rel[p]), rel[p], p)
                           /\ rel[p].era # era => p < relDiskPages
  /\ \A p \in DOMAIN relDisk : /\ Was(H, StampOf(relDisk[p]), relDisk[p], p)
                               /\ Durable(StampOf(relDisk[p]))
                               /\ relDisk[p].era # era => p < relDiskPages
  /\ DOMAIN relDisk \subseteq DOMAIN rel
  /\ \A x \in Rid : x[1] \notin DOMAIN relDisk \/ x[1] >= relDiskPages
                      => After(H, LogEOF)[x] = Empty
  /\ \A l \in DOMAIN log : log[l].type \in Changes \cup {"clr"} =>
        (log[l].rid \in Rid /\ log[l].rid[1] \in DOMAIN rel) \/ pc = "wedged"

(* A rollback has put back all that was logged after cur.                  *)
NormalUndo(H) ==
  Undoing => /\ cur \in DOMAIN log \cup {LogEOF}
             /\ \A x \in Rid : After(H, cur)[x] = Contents[x]
             /\ Base(H, cur) = Base(H, lastRec)
             /\ Follows(log, cur, undoXid)
             /\ undoXid = currXID

Normal(H, b) == /\ NormalChain /\ NormalHistory(H) /\ NormalGoals(H, b)
                /\ NormalPages(H) /\ NormalUndo(H)

(* In what recovery finds of the log. *)
Before(x) == \A l \in Pos : Older(l, x) => l \in DOMAIN log /\ log[l].next = Successor(l)
Ends(z)   == z \in Pos \cap DOMAIN log /\ Before(z) /\ log[z].next = LogEOF

Like(c, d) == c \in {d, Garbage}

(* Redo changes no log page.                                               *)
Frozen == /\ logPages = logDiskPages
          /\ LogOnDisk \subseteq DOMAIN log
          /\ \A l \in DOMAIN log : LogClean(l)

(* What recovery may find on a page: what the relation held after the      *)
(* record that stamped it, or, when recovery itself logged that record,    *)
(* what is put back already or still open. Records Redo passed over are    *)
(* not considered.                                                         *)
AtRest(H, z, pg, p) ==
  \A s \in Slots : <<p, s>> \notin skipped =>
    /\ pg.era # era => pg.rec[s] = After(H, LogEOF)[<<p, s>>]
    /\ pg.era = era /\ ~Older(z, pg.lsn) => Like(pg.rec[s], After(H, pg.lsn)[<<p, s>>])
    /\ pg.era = era /\ Older(z, pg.lsn)
         => <<p, s>> \in Open(H, z) \/ Like(pg.rec[s], Base(H, z)[<<p, s>>])

(* What does not depend on H.                                              *)
RecoveryState ==
  /\ ~inTxn /\ logDiskPages # 0 /\ logPages # 0
  /\ relPages = relDiskPages
  /\ DOMAIN rel = {p \in DOMAIN relDisk : p < relDiskPages}
  /\ Redoing => Before(cur)
  /\ stmt = "redo" => Frozen
  /\ stmt # "redo" => \E z \in Pos : Ends(z)

(* H fits the log up to its end z, which is on disk as it is in memory;    *)
(* what the transaction at z would be rolled back to is a goal.            *)
RecoveryChain(H, z) ==
  /\ \A l \in UpTo(z) : /\ Means(log, H, l) /\ LinksBack(log, l)
                        /\ l \in LogOnDisk /\ logDisk[l] = log[l]
  /\ StartMeans(H)
  /\ Base(H, z) \in goals
  /\ lastRec = LogEOF \/ Older(z, lastRec)

(* Each page is as recovery may find it.                                   *)
RecoveryPages(H, z) ==
  /\ \A p \in DOMAIN rel : AtRest(H, z, rel[p], p) /\ AtRest(H, z, relDisk[p], p)
  /\ \A x \in Rid : x[1] \notin DOMAIN rel => After(H, LogEOF)[x] = Empty

(* Redo has repeated every record before cur: a page that is still older   *)
(* than cur was not changed in between.                                    *)
RecoveryRedo(H, z) ==
  Redoing =>
    \A x \in Rid \ skipped :
      /\ x[1] \notin DOMAIN rel => After(H, log[cur].prev)[x] = Empty
      /\ x[1] \in DOMAIN rel /\ rel[x[1]].era # era
           => After(H, log[cur].prev)[x] = After(H, LogEOF)[x]
      /\ x[1] \in DOMAIN rel /\ rel[x[1]].era = era /\ Older(rel[x[1]].lsn, cur)
           => After(H, log[cur].prev)[x] = After(H, rel[x[1]].lsn)[x]

(* Undo has put back what was logged between cur and z, and what is not    *)
(* open at cur is as it was before the transaction.                        *)
RecoveryUndo(H, z) ==
  Undoing =>
    /\ cur \in UpTo(z) \cup {LogEOF}
    /\ Open(H, cur) \subseteq Open(H, z) /\ Base(H, cur) = Base(H, z)
    /\ Follows(log, cur, undoXid)
    /\ \A x \in Rid \ skipped : x \in Open(H, cur) \/ Like(Contents[x], Base(H, z)[x])

(* Recovery is over: the relation is as it was before the transaction.     *)
RecoveryDone(H, z) ==
  stmt \notin {"undo", "redo"} => \A x \in Rid \ skipped : Like(Contents[x], Base(H, z)[x])

Recovery(H, z) == /\ RecoveryChain(H, z) /\ RecoveryPages(H, z) /\ RecoveryRedo(H, z)
                  /\ RecoveryUndo(H, z) /\ RecoveryDone(H, z)

(* The invariant.                                                          *)
AtomicInv ==
  fresh /\ ~leftover =>
    IF Recovering THEN /\ RecoveryState
                       /\ \E H : \A z \in Pos : Ends(z) => Recovery(H, z)
                  ELSE \E H, b : Normal(H, b)

-------------------------------------------------------------------------------
(* Only a wedged statement holds a page whose count is too high. *)
LEMMA NoneHeld ==
  ASSUME TypeInv, pc # "wedged"
  PROVE  \A p \in DOMAIN rel : PageOK(rel[p])
BY DEF TypeInv, PagesOK, Scalars

LEMMA KindsKnown == \A k \in Kinds : k \notin {"undo", "redo", "none"}
BY LogAssumption

LEMMA ClosedUnchanged ==
  ASSUME ClosedInv, UNCHANGED <<rel, relDisk, relPages, relDiskPages, relFirst, relDiskFirst>>,
         ForcedWhenClosed',
         pc' \in {"open", "committing", "aborting", "ending"} => inTxn',
         stmt' = "redo" => ~inTxn'
  PROVE  ClosedInv'
BY DEF ClosedInv

LEMMA ClosedRequest ==
  ASSUME TypeInv, LogInv, ChainInv, ClosedInv, Request
  PROVE  ClosedInv'
<1>1. CASE BeginT \/ \E k \in Kinds : StartStatement(k)
  <2>1. /\ UNCHANGED <<rel, relDisk, relPages, relDiskPages, relFirst, relDiskFirst>>
        /\ pc = "idle"
        /\ \/ pc' = "open" /\ inTxn' /\ stmt' \in Kinds
           \/ pc' = "idle" /\ inTxn' /\ stmt' = stmt
    BY <1>1 DEF BeginT, StartStatement, BeginXact, diskVars, relVars, ctlVars, history
  <2>2. ForcedWhenClosed'
    BY <2>1 DEF ClosedInv, ForcedWhenClosed, RelForced, RelClean
  <2> QED
    BY <2>1, <2>2, ClosedUnchanged, KindsKnown DEF ChainInv, PhaseKnown
<1>2. ASSUME NEW v \in Val, InsertRec(v)
      PROVE  ClosedInv'
  <2>1. /\ pc = "open" /\ pc' \in {"open", "wedged"} /\ UNCHANGED <<stmt, inTxn>>
    BY <1>2 DEF InsertRec, InsertInNewPage, InsertInFreePage, InsertInFullPage,
                InsertInLostPage, txnVars
  <2>2. relPages \in Int
    BY DEF TypeInv, Scalars
  <2>3. \A p \in DOMAIN rel' : p < relPages'
    <3>1. CASE InsertInNewPage(v)
      <4>1. DOMAIN rel' = DOMAIN rel \cup {relPages} /\ relPages' = relPages + 1
        BY <3>1 DEF InsertInNewPage
      <4>2. \A p \in DOMAIN rel : p \in Int
        BY DEF TypeInv, PagesOK
      <4> QED
        BY <2>2, <4>1, <4>2 DEF ClosedInv
    <3>2. CASE InsertInFreePage(v)
      BY <3>2 DEF InsertInFreePage, ClosedInv
    <3>3. CASE InsertInFullPage(v) \/ InsertInLostPage
      BY <3>3 DEF InsertInFullPage, InsertInLostPage, relVars, ClosedInv
    <3> QED
      BY <1>2, <3>1, <3>2, <3>3 DEF InsertRec
  <2> QED
    BY <2>1, <2>3 DEF ClosedInv, ForcedWhenClosed
<1>3. ASSUME NEW r \in Records, DeleteRec(r) \/ \E v \in Val : UpdateRec(r, v)
      PROVE  ClosedInv'
  <2>1. /\ pc = "open" /\ UNCHANGED <<pc, stmt, inTxn, relPages>>
        /\ DOMAIN rel' = DOMAIN rel
    BY <1>3 DEF DeleteRec, UpdateRec, txnVars, ctlVars
  <2> QED
    BY <2>1 DEF ClosedInv, ForcedWhenClosed
<1>4. CASE CloseFile
  <2>1. /\ pc' = "closing"
        /\ UNCHANGED <<rel, relDisk, relPages, relDiskPages, relFirst, relDiskFirst, stmt, inTxn>>
    BY <1>4 DEF CloseFile, diskVars, relVars, txnVars
  <2> QED
    BY <2>1, ClosedUnchanged DEF ClosedInv, ForcedWhenClosed
<1>5. CASE CommitT \/ AbortT
  <2>1. /\ inTxn /\ inTxn' /\ stmt' = stmt
        /\ UNCHANGED <<rel, relDisk, relPages, relDiskPages, relFirst, relDiskFirst>>
        /\ \/ pc' = "committing" /\ (pc \in {"idle", "tocommit"} \/ stmt = "load")
           \/ pc' = "aborting" /\ pc = "idle"
    BY <1>5 DEF CommitT, AbortT, diskVars, relVars, txnVars, history
  <2>2. ForcedWhenClosed'
    BY <2>1 DEF ClosedInv, ForcedWhenClosed, RelForced, RelClean
  <2> QED
    BY <2>1, <2>2, ClosedUnchanged DEF ClosedInv
<1>6. CASE Checkpoint \/ CloseDb
  <2>1. /\ pc = "idle" /\ pc' \in {"idle", "wedged"} /\ stmt' = stmt
        /\ UNCHANGED <<rel, relDisk, relPages, relDiskPages, relFirst, relDiskFirst>>
    BY <1>6 DEF Checkpoint, CheckpointResets, CheckpointBreaks, CloseDb, NewLog, diskVars,
                relVars, ctlVars
  <2>2. ForcedWhenClosed'
    BY <2>1 DEF ClosedInv, ForcedWhenClosed, RelForced, RelClean
  <2>3. stmt # "redo"
    BY <2>1 DEF ChainInv, PhaseKnown
  <2> QED
    BY <2>1, <2>2, <2>3, ClosedUnchanged DEF ClosedInv
<1> QED
  BY <1>1, <1>2, <1>3, <1>4, <1>5, <1>6 DEF Request

LEMMA ClosedContinue ==
  ASSUME TypeInv, LogInv, ChainInv, ClosedInv, Continue
  PROVE  ClosedInv'
<1>1. CASE CloseDone \/ CommitDone \/ AbortForced \/ EndDone \/ RedoUnreadable
             \/ UndoEndAbort \/ UndoEndRecover \/ UndoSkip
  <2>1. UNCHANGED <<rel, relDisk, relPages, relDiskPages, relFirst, relDiskFirst>>
    BY <1>1 DEF CloseDone, CommitDone, AbortForced, EndDone, RedoUnreadable, UndoEndAbort,
                UndoEndRecover, UndoSkip, diskVars, relVars
  <2>2. RelForced' <=> RelForced
    BY <2>1 DEF RelForced, RelClean
  <2>3. \/ pc' \in {"undo", "redo"} /\ RelForced /\ stmt' = stmt /\ inTxn' = inTxn
        \/ pc' \in {"tocommit", "idle"} /\ RelForced /\ stmt' # "redo"
        \/ pc' = "closing" /\ stmt' = "load"
        \/ pc' = "undo" /\ RelForced /\ stmt' = "undo"
        \/ pc' = "failed" /\ stmt' = stmt /\ inTxn' = inTxn
        \/ pc' = "ending" /\ RelForced /\ stmt' = "none" /\ inTxn'
    <3>1. CASE CloseDone
      BY <3>1, KindsKnown DEF CloseDone, txnVars
    <3>2. CASE CommitDone
      BY <3>2 DEF CommitDone, ClosedInv, ForcedWhenClosed
    <3>3. CASE AbortForced
      BY <3>3 DEF AbortForced, txnVars, ClosedInv, ForcedWhenClosed
    <3>4. CASE EndDone
      BY <3>4 DEF EndDone, ClosedInv, ForcedWhenClosed, ChainInv, PhaseKnown
    <3>5. CASE RedoUnreadable
      BY <3>5 DEF RedoUnreadable, txnVars
    <3>6. CASE UndoEndAbort
      BY <3>6 DEF UndoEndAbort, txnVars, ClosedInv, ForcedWhenClosed
    <3>7. CASE UndoEndRecover
      BY <3>7 DEF UndoEndRecover, ClosedInv, ForcedWhenClosed
    <3>8. CASE UndoSkip
      BY <3>8 DEF UndoSkip, txnVars, ClosedInv, ForcedWhenClosed
    <3> QED
      BY <1>1, <3>1, <3>2, <3>3, <3>4, <3>5, <3>6, <3>7, <3>8
  <2>4. ForcedWhenClosed'
    BY <2>2, <2>3 DEF ForcedWhenClosed
  <2>5. stmt' = "redo" => ~inTxn'
    BY <2>3 DEF ClosedInv
  <2>6. pc' \in {"open", "committing", "aborting", "ending"} => inTxn'
    BY <2>3
  <2> QED
    BY <2>1, <2>4, <2>5, <2>6, ClosedUnchanged
<1>2. CASE pc = "tocommit" /\ CommitT
  <2>1. /\ inTxn' /\ stmt' = stmt /\ stmt # "redo" /\ pc' = "committing" /\ pc = "tocommit"
        /\ UNCHANGED <<rel, relDisk, relPages, relDiskPages, relFirst, relDiskFirst>>
    BY <1>2 DEF CommitT, diskVars, relVars, txnVars, ChainInv, PhaseKnown
  <2>2. ForcedWhenClosed'
    BY <2>1 DEF ClosedInv, ForcedWhenClosed, RelForced, RelClean
  <2> QED
    BY <2>1, <2>2, ClosedUnchanged DEF ClosedInv
<1>3. CASE UndoChange
  <2>1. /\ pc' \in {"closing", "wedged", "failed"} /\ UNCHANGED <<stmt, inTxn, relPages>>
        /\ DOMAIN rel' = DOMAIN rel
    BY <1>3 DEF UndoChange, UndoPage, StampOnly, GiveUp, relVars, txnVars
  <2> QED
    BY <2>1 DEF ClosedInv, ForcedWhenClosed
<1>4. CASE RedoControl \/ RedoPass \/ RedoApply
  <2>1. /\ pc = "redo" /\ pc' \in {stmt', "closing", "failed"} /\ stmt' \in {"undo", "redo"}
        /\ UNCHANGED <<inTxn, relPages>>
        /\ DOMAIN rel' = DOMAIN rel
        /\ pc' = stmt' =>
             UNCHANGED <<rel, relDisk, relDiskPages, relFirst, relDiskFirst>>
    BY <1>4 DEF RedoControl, RedoPass, RedoApply, RedoAdvance, RedoPage, relVars, txnVars,
                diskVars, ChainInv, PhaseKnown
  <2>2. ~inTxn
    BY <2>1 DEF ClosedInv, ChainInv, PhaseKnown
  <2>3. ForcedWhenClosed'
    BY <2>1 DEF ClosedInv, ForcedWhenClosed, RelForced, RelClean
  <2> QED
    BY <2>1, <2>2, <2>3 DEF ClosedInv
<1> QED
  BY <1>1, <1>2, <1>3, <1>4 DEF Continue

LEMMA ClosedWrite ==
  ASSUME TypeInv, LogInv, ChainInv, ClosedInv, Write
  PROVE  ClosedInv'
<1>1. UNCHANGED <<rel, relPages, relFirst, pc, stmt, inTxn>>
  BY DEF Write, WriteLogHdr, WriteLogPage, WriteDataPage, WritePFHeader, WriteRMHeader,
         relVars, ctlVars, txnVars
<1>2. RelForced => RelForced'
  <2> SUFFICES ASSUME RelForced
               PROVE  UNCHANGED <<relDisk, relDiskPages, relDiskFirst>>
    BY <1>1 DEF RelForced, RelClean
  <2> QED
    BY DEF Write, WriteLogHdr, WriteLogPage, WriteDataPage, WritePFHeader, WriteRMHeader,
           RelForced
<1> QED
  BY <1>1, <1>2 DEF ClosedInv, ForcedWhenClosed

LEMMA ClosedCrash == ASSUME TypeInv, ClosedInv, Crash PROVE ClosedInv'
<1>1. /\ rel' = [p \in {p \in DOMAIN relDisk : p < relDiskPages} |-> relDisk[p]]
      /\ relPages' = relDiskPages /\ relFirst' = relDiskFirst
      /\ UNCHANGED <<relDisk, relDiskPages, relDiskFirst>>
      /\ pc' \in {"idle", "redo"} /\ ~inTxn'
  BY DEF Crash, diskVars
<1>2. RelForced'
  BY <1>1 DEF RelForced, RelClean
<1> QED
  BY <1>1, <1>2 DEF ClosedInv, ForcedWhenClosed

LEMMA ClosedKept ==
  ASSUME TypeInv, LogInv, ChainInv, ClosedInv, [Next]_vars
  PROVE  ClosedInv'
<1>1. CASE UNCHANGED vars
  BY <1>1 DEF vars, ClosedInv, ForcedWhenClosed, RelForced, RelClean
<1> QED
  BY <1>1, ClosedRequest, ClosedContinue, ClosedWrite, ClosedCrash DEF Next

LEMMA ClosedInit == Init => ClosedInv
BY KindsKnown DEF Init, ClosedInv, ForcedWhenClosed, RelForced, RelClean

-------------------------------------------------------------------------------
(* Positions. *)
LEMMA PosOrder ==
  /\ \A k, l \in Pos : Older(k, l) \/ Older(l, k) \/ k = l
  /\ \A k, l \in Pos : ~(Older(k, l) /\ Older(l, k))
  /\ \A k \in Pos : ~Older(k, k) /\ k # LogEOF
  /\ \A j, k, l \in Pos : Older(j, k) /\ Older(k, l) => Older(j, l)
  /\ \A k \in Pos : Older(LogEOF, k) /\ ~Older(k, LogEOF) /\ ~Older(k, ZeroLSN)
  /\ ~Older(LogEOF, LogEOF) /\ ZeroLSN \in Pos
<1>1. \A k \in Pos : k = [pn |-> k.pn, off |-> k.off] /\ k.pn \in Nat /\ k.off \in Nat
  BY LogAssumption DEF Pos
<1>2. ASSUME NEW k \in Pos, NEW l \in Pos, ~Older(k, l), ~Older(l, k)
      PROVE  k = l
  <2>1. k.pn = l.pn /\ k.off = l.off
    BY <1>1, <1>2 DEF Older
  <2> QED
    BY <1>1, <2>1
<1>3. ZeroLSN \in Pos
  BY PosFacts
<1> QED
  BY <1>1, <1>2, <1>3 DEF Older, LogEOF, ZeroLSN, LSN

LEMMA SuccessorOrder ==
  /\ \A k \in Pos : Successor(k) \in Pos /\ Successor(k) # LogEOF
  /\ \A k, l \in Pos : Older(l, Successor(k)) <=> ~Older(k, l)
  /\ \A k, l \in Pos : Successor(k) = Successor(l) => k = l
<1>1. \A k \in Pos : k.pn \in Nat /\ k.off \in Nat /\ k.off < LogPageCap
  BY LogAssumption DEF Pos
<1>2. \A k \in Pos : Successor(k) \in Pos
  BY <1>1, LogAssumption DEF Successor, LSN, Pos
<1>3. ASSUME NEW k \in Pos, NEW l \in Pos
      PROVE  Older(l, Successor(k)) <=> ~Older(k, l)
  BY <1>1, LogAssumption DEF Successor, LSN, Older
<1>4. ASSUME NEW k \in Pos, NEW l \in Pos, Successor(k) = Successor(l)
      PROVE  k = l
  BY <1>2, <1>3, <1>4, PosOrder
<1> QED
  BY <1>2, <1>3, <1>4, PosOrder

-------------------------------------------------------------------------------
(* A history with an entry for one more record. *)
Extended(H, l, c, o, d) ==
  [k \in Lsns |-> IF k = l THEN [contents |-> c, open |-> o, base |-> d] ELSE H[k]]

LEMMA ExtendedFacts ==
  ASSUME NEW H, NEW l \in Lsns, NEW c, NEW o, NEW d, NEW X, X = Extended(H, l, c, o, d)
  PROVE  /\ After(X, l) = c /\ Open(X, l) = o /\ Base(X, l) = d
         /\ \A k \in Lsns : k # l => /\ After(X, k) = After(H, k)
                                     /\ Open(X, k) = Open(H, k) /\ Base(X, k) = Base(H, k)
BY DEF Extended, After, Open, Base

(* What a record means depends on its fields and on what its references    *)
(* mean.                                                                   *)
LEMMA MeansSame ==
  ASSUME NEW L, NEW M, NEW H, NEW X, NEW l, Means(L, H, l), SameRecord(M[l], L[l]),
         \A k \in {L[l].prev, L[l].undonext} :
           k # LogEOF => M[k].type = L[k].type /\ M[k].xid = L[k].xid,
         \A k \in {l, L[l].prev, L[l].undonext} :
           After(X, k) = After(H, k) /\ Open(X, k) = Open(H, k) /\ Base(X, k) = Base(H, k)
  PROVE  Means(M, X, l)
<1>1. \A x : \A k \in {L[l].prev, L[l].undonext} : Follows(L, k, x) <=> Follows(M, k, x)
  BY DEF Follows
<1>2. ChangeMeans(M, X, l)
  BY <1>1 DEF Means, ChangeMeans, SameRecord
<1>3. ClrMeans(M, X, l)
  BY <1>1 DEF Means, ClrMeans, SameRecord
<1>4. AbortMeans(M, X, l)
  BY <1>1 DEF Means, AbortMeans, SameRecord
<1>5. EndMeans(M, X, l)
  BY <1>1 DEF Means, EndMeans, SameRecord
<1>6. Settled(X, l)
  BY DEF Means, Settled
<1> QED
  BY <1>2, <1>3, <1>4, <1>5, <1>6 DEF Means

(* The log after a call that logs a record. *)
LEMMA AppendedLog ==
  ASSUME TypeInv, LogInv, NEW body, InsertLogRec(body)
  PROVE  /\ NextLSN \in Pos /\ NextLSN \notin DOMAIN log /\ NextLSN # LogEOF
         /\ \A k \in DOMAIN log : k \in Pos /\ Older(k, NextLSN)
         /\ DOMAIN log' = DOMAIN log \cup {NextLSN}
         /\ lastRec' = NextLSN
         /\ log'[NextLSN].type = body.type /\ log'[NextLSN].rid = body.rid
         /\ log'[NextLSN].old = body.old /\ log'[NextLSN].new = body.new
         /\ log'[NextLSN].undo = body.undo /\ log'[NextLSN].undonext = body.undonext
         /\ log'[NextLSN].xid = currXID
         /\ log'[NextLSN].prev = lastRec /\ log'[NextLSN].next = LogEOF
         /\ \A k \in DOMAIN log : /\ SameRecord(log'[k], log[k])
                                  /\ log'[k].next = IF k = lastRec THEN NextLSN ELSE log[k].next
                                  /\ k # lastRec => log'[k] = log[k]
<1>1. NextLSN \in Pos /\ NextLSN # LogEOF
  BY NextPlace, PosFacts DEF TypeInv, LogInv
<1>2. \A k \in DOMAIN log : k \in Pos /\ Older(k, NextLSN) /\ log[k] \in LogRec
  BY NextIsNewest DEF TypeInv, LogInv, LogOK, RecordOK
<1>3. NextLSN \notin DOMAIN log
  BY <1>1, <1>2, PosOrder
<1>4. \A k \in DOMAIN log : k # NextLSN /\ k # LogEOF
  BY <1>2, <1>3, PosOrder
<1>5. /\ DOMAIN log' = DOMAIN log \cup {NextLSN}
      /\ lastRec' = NextLSN
      /\ \A k \in DOMAIN log :
           log'[k] = IF k = lastRec THEN [log[k] EXCEPT !.next = NextLSN] ELSE log[k]
  BY <1>4 DEF InsertLogRec, LinkLast
<1>6. log'[NextLSN] = [type |-> body.type, rid |-> body.rid, old |-> body.old,
                       new |-> body.new, undo |-> body.undo,
                       undonext |-> body.undonext,
                       xid |-> currXID, prev |-> lastRec, next |-> LogEOF]
  BY DEF InsertLogRec
<1>7. \A k \in DOMAIN log : /\ SameRecord(log'[k], log[k])
                            /\ log'[k].next = IF k = lastRec THEN NextLSN ELSE log[k].next
  BY <1>2, <1>5 DEF SameRecord, LogRec
<1> QED
  BY <1>1, <1>2, <1>3, <1>5, <1>6, <1>7

LEMMA References ==
  ASSUME TypeInv, NormalChain
  PROVE  \A k \in DOMAIN log :
           /\ k \in Pos /\ log[k].prev \in DOMAIN log \cup {LogEOF}
           /\ log[k].undonext \in DOMAIN log \cup {LogEOF}
           /\ log[k].prev # k /\ log[k].undonext # k
<1> SUFFICES ASSUME NEW k \in DOMAIN log
             PROVE  /\ k \in Pos
                    /\ BackFrom(k) \subseteq DOMAIN log \cup {LogEOF}
                    /\ k \notin BackFrom(k)
  BY DEF TypeInv, LogOK, RecordOK
<1>1. k \in Pos
  BY DEF TypeInv, LogOK, RecordOK
<1>2. lastRec # LogEOF /\ lastRec \in Pos /\ DOMAIN log = UpTo(lastRec)
  BY DEF NormalChain
<1>3. ~Older(lastRec, k)
  BY <1>2 DEF UpTo
<1>4. \A j \in Pos : Older(j, k) => ~Older(lastRec, j)
  BY <1>1, <1>2, <1>3, PosOrder
<1> QED
  BY <1>1, <1>2, <1>4, PosOrder DEF BackFrom, UpTo

LEMMA NormalLogged ==
  ASSUME TypeInv, LogInv, ~Recovering, inTxn, inTxn', NEW body, InsertLogRec(body),
         UNCHANGED <<logDisk, logDiskPages, currXID>>,
         NEW H, NEW b, Normal(H, b), NEW l, l = NextLSN,
         NEW c, c = Contents', NEW o, NEW d, NEW X, X = Extended(H, l, c, o, d),
         Means(log', X, l), d \in goals', goals \subseteq goals',
         pc' \in {"committing", "ending"} => body.type \in {"commit", "end"}
  PROVE  /\ NormalChain' /\ NormalHistory(X)' /\ NormalGoals(X, b)'
         /\ \A k \in DOMAIN log \cup {LogEOF} :
              After(X, k) = After(H, k) /\ Open(X, k) = Open(H, k) /\ Base(X, k) = Base(H, k)
<1>1. /\ l \in Pos /\ l \notin DOMAIN log /\ l # LogEOF
      /\ \A k \in DOMAIN log : k \in Pos /\ Older(k, l)
      /\ DOMAIN log' = DOMAIN log \cup {l}
      /\ lastRec' = l
      /\ log'[l].xid = currXID
      /\ log'[l].prev = lastRec /\ log'[l].next = LogEOF
      /\ \A k \in DOMAIN log : /\ SameRecord(log'[k], log[k])
                               /\ log'[k].next = IF k = lastRec THEN l ELSE log[k].next
  BY AppendedLog
<1>2. /\ NormalChain /\ NormalHistory(H) /\ NormalGoals(H, b)
  BY DEF Normal
<1>3. After(X, l) = c /\ Open(X, l) = o /\ Base(X, l) = d
  BY <1>1, ExtendedFacts DEF Lsns
<1>4. \A k \in DOMAIN log \cup {LogEOF} :
        After(X, k) = After(H, k) /\ Open(X, k) = Open(H, k) /\ Base(X, k) = Base(H, k)
  BY <1>1, ExtendedFacts DEF Lsns
<1>5. NormalChain'
  <2>1. DOMAIN log' = UpTo(l) /\ LinksBack(log', l)
    <3>1. CASE lastRec = LogEOF
      <4>1. logPages = 0 /\ DOMAIN log = {}
        BY <1>2, <3>1 DEF Recovering, NormalChain
      <4>2. l = ZeroLSN
        BY <3>1, <4>1 DEF NextLSN, NeedsNewPage, ZeroLSN
      <4>3. UpTo(l) = {l}
        BY <1>1, <4>2, PosOrder DEF UpTo
      <4> QED
        BY <1>1, <3>1, <4>1, <4>2, <4>3 DEF LinksBack
    <3>2. CASE lastRec # LogEOF
      <4>1. l = Successor(lastRec) /\ lastRec \in Pos /\ DOMAIN log = UpTo(lastRec)
        BY <1>2, <3>2, NextPlace DEF LogInv, TypeInv, NormalChain
      <4>2. \A k \in Pos : ~Older(l, k) <=> ~Older(lastRec, k) \/ k = l
        BY <4>1, PosOrder, SuccessorOrder
      <4> QED
        BY <1>1, <4>1, <4>2 DEF UpTo, LinksBack
    <3> QED
      BY <3>1, <3>2
  <2>2. \A k \in DOMAIN log' : LinksBack(log', k) /\ LinksOn(log', l, k)
    <3> SUFFICES ASSUME NEW k \in DOMAIN log, k # l
                 PROVE  LinksBack(log', k) /\ LinksOn(log', l, k)
      BY <1>1, <2>1 DEF LinksOn
    <3>1. LinksBack(log, k) /\ LinksOn(log, lastRec, k) /\ SameRecord(log'[k], log[k])
      BY <1>1, <1>2 DEF NormalChain
    <3>2. CASE k = lastRec
      <4>1. l = Successor(lastRec)
        BY <3>2, <1>1, PosOrder, NextPlace DEF LogInv, TypeInv
      <4> QED
        BY <1>1, <3>1, <3>2, <4>1 DEF LinksBack, LinksOn, SameRecord
    <3>3. CASE k # lastRec
      BY <1>1, <3>1, <3>3 DEF LinksBack, LinksOn, SameRecord
    <3> QED
      BY <3>2, <3>3
  <2>3. \A k \in DOMAIN logDisk' : /\ k \in DOMAIN log'
                                   /\ SameRecord(logDisk'[k], log'[k])
                                   /\ logDisk'[k].next \in {LogEOF, log'[k].next}
    <3> SUFFICES ASSUME NEW k \in DOMAIN logDisk
                 PROVE  /\ k \in DOMAIN log
                        /\ SameRecord(logDisk[k], log'[k])
                        /\ logDisk[k].next \in {LogEOF, log'[k].next}
      BY <1>1
    <3>1. /\ k \in DOMAIN log /\ SameRecord(logDisk[k], log[k])
          /\ logDisk[k].next \in {LogEOF, log[k].next}
          /\ k = lastRec => log[k].next = LogEOF
      BY <1>2 DEF NormalChain, LinksOn
    <3> QED
      BY <1>1, <3>1 DEF SameRecord
  <2> QED
    BY <1>1, <2>1, <2>2, <2>3 DEF NormalChain
<1>6. NormalHistory(X)'
  <2>1. ASSUME NEW k \in DOMAIN log
        PROVE  Means(log', X, k)
    <3>1. Means(log, H, k) /\ SameRecord(log'[k], log[k])
      BY <1>1, <1>2 DEF NormalHistory
    <3>2. {log[k].prev, log[k].undonext} \subseteq DOMAIN log \cup {LogEOF}
      BY <1>2, References
    <3>3. \A j \in {log[k].prev, log[k].undonext} :
            j # LogEOF => log'[j].type = log[j].type /\ log'[j].xid = log[j].xid
      BY <1>1, <3>2 DEF SameRecord
    <3>4. \A j \in {k, log[k].prev, log[k].undonext} :
            After(X, j) = After(H, j) /\ Open(X, j) = Open(H, j) /\ Base(X, j) = Base(H, j)
      BY <1>4, <3>2
    <3> QED
      BY <3>1, <3>3, <3>4, MeansSame
  <2>2. StartMeans(X)
    BY <1>2, <1>4 DEF NormalHistory, StartMeans, Settled
  <2> QED
    BY <1>1, <1>3, <2>1, <2>2 DEF NormalHistory
<1>7. NormalGoals(X, b)'
  <2>1. b \in DOMAIN log' \cup {LogEOF}
    BY <1>1, <1>2 DEF NormalGoals
  <2>2. Durable(b)'
    BY <1>2 DEF NormalGoals, Durable, LogOnDisk
  <2>3. \A k \in DOMAIN log' \cup {LogEOF} : ~Older(k, b) => Base(X, k) \in goals'
    BY <1>1, <1>2, <1>3, <1>4 DEF NormalGoals
  <2>4. Follows(log', lastRec', currXID')
    BY <1>1 DEF Follows
  <2>5. pc' \in {"committing", "ending"} => Ended'
    BY <1>1, AppendedLog DEF Ended
  <2> QED
    BY <2>1, <2>2, <2>3, <2>4, <2>5 DEF NormalGoals
<1> QED
  BY <1>4, <1>5, <1>6, <1>7

(* What a slot reads as. *)
LEMMA ContentsOfPages ==
  ASSUME NEW R, NEW n,
         \A p \in DOMAIN R : p \in 1 .. MaxPages /\ p < n /\ R[p].rec \in [Slots -> Cell]
  PROVE  /\ \A p \in DOMAIN R, s \in Slots :
              /\ <<p, s>> \in Rid /\ ContentsOf(R, n)[<<p, s>>] = R[p].rec[s]
         /\ \A x \in Rid : /\ x = <<x[1], x[2]>> /\ x[2] \in Slots
                           /\ x[1] \in 1 .. MaxPages
                           /\ x[1] \notin DOMAIN R => ContentsOf(R, n)[x] = Empty
                           /\ x[1] \in DOMAIN R => ContentsOf(R, n)[x] = R[x[1]].rec[x[2]]
         /\ ContentsOf(R, n) \in [Rid -> Cell]
<1>1. \A p \in DOMAIN R, s \in Slots : <<p, s>> \in Rid
  BY DEF Rid
<1>2. \A x \in Rid : x = <<x[1], x[2]>> /\ x[2] \in Slots /\ x[1] \in 1 .. MaxPages
  BY DEF Rid
<1>3. \A x \in Rid : ContentsOf(R, n)[x] = IF x[1] \in DOMAIN R /\ x[1] < n
                                             THEN R[x[1]].rec[x[2]] ELSE Empty
  BY DEF ContentsOf
<1>4. \A x \in Rid : ContentsOf(R, n)[x] \in Cell
  BY <1>2, <1>3, CellFacts
<1>5. ContentsOf(R, n) \in [Rid -> Cell]
  BY <1>4 DEF ContentsOf
<1> QED
  BY <1>1, <1>2, <1>3, <1>5

LEMMA ContentsAt ==
  ASSUME PagesOK, ClosedInv
  PROVE  /\ \A p \in DOMAIN rel, s \in Slots :
              /\ <<p, s>> \in Rid /\ Contents[<<p, s>>] = rel[p].rec[s]
         /\ \A x \in Rid : /\ x = <<x[1], x[2]>> /\ x[2] \in Slots
                           /\ x[1] \in 1 .. MaxPages
                           /\ x[1] \notin DOMAIN rel => Contents[x] = Empty
                           /\ x[1] \in DOMAIN rel => Contents[x] = rel[x[1]].rec[x[2]]
         /\ Contents \in [Rid -> Cell]
<1>1. \A p \in DOMAIN rel : p \in 1 .. MaxPages /\ p < relPages /\ rel[p].rec \in [Slots -> Cell]
  BY DEF PagesOK, PageOK, Page, ClosedInv
<1> QED
  BY <1>1, ContentsOfPages DEF Contents

LEMMA ContentsAtNext ==
  ASSUME PagesOK', ClosedInv'
  PROVE  /\ \A p \in DOMAIN rel', s \in Slots :
              /\ <<p, s>> \in Rid /\ Contents'[<<p, s>>] = rel'[p].rec[s]
         /\ \A x \in Rid : /\ x = <<x[1], x[2]>> /\ x[2] \in Slots
                           /\ x[1] \in 1 .. MaxPages
                           /\ x[1] \notin DOMAIN rel' => Contents'[x] = Empty
                           /\ x[1] \in DOMAIN rel' => Contents'[x] = rel'[x[1]].rec[x[2]]
         /\ Contents' \in [Rid -> Cell]
<1>1. \A p \in DOMAIN rel' : /\ p \in 1 .. MaxPages /\ p < relPages'
                             /\ rel'[p].rec \in [Slots -> Cell]
  BY DEF PagesOK, PageOK, Page, ClosedInv
<1> QED
  BY <1>1, ContentsOfPages DEF Contents

LEMMA StampsKnown ==
  ASSUME LogInv
  PROVE  /\ \A p \in DOMAIN rel : StampOf(rel[p]) \in DOMAIN log \cup {LogEOF}
         /\ \A p \in DOMAIN relDisk : StampOf(relDisk[p]) \in DOMAIN log \cup {LogEOF}
BY DEF LogInv, StampLogged, StampOf

LEMMA NormalLogging ==
  ASSUME TypeInv, LogInv, TypeInv', ClosedInv', ~Recovering, inTxn, inTxn',
         NEW body, InsertLogRec(body), UNCHANGED <<diskVars, currXID, era>>,
         NEW H, NEW b, Normal(H, b), NEW l, l = NextLSN,
         NEW c, c = Contents', NEW o, NEW d, NEW X, X = Extended(H, l, c, o, d),
         Means(log', X, l), d \in goals', goals \subseteq goals',
         pc' \in {"committing", "ending"} => body.type \in {"commit", "end"},
         DOMAIN rel \subseteq DOMAIN rel',
         \A p \in DOMAIN rel' : \/ /\ p \in DOMAIN rel /\ rel'[p].rec = rel[p].rec
                                   /\ rel'[p].lsn = rel[p].lsn /\ rel'[p].era = rel[p].era
                                \/ rel'[p].era = era /\ rel'[p].lsn = l,
         pc # "wedged",
         body.type \in Changes \cup {"clr"}
           => (body.rid \in Rid /\ body.rid[1] \in DOMAIN rel') \/ pc' = "wedged",
         NormalUndo(X)'
  PROVE  Normal(X, b)'
<1>1. /\ NormalChain' /\ NormalHistory(X)' /\ NormalGoals(X, b)'
      /\ \A k \in DOMAIN log \cup {LogEOF} : After(X, k) = After(H, k)
  BY NormalLogged DEF diskVars
<1>2. After(X, l) = c /\ l # LogEOF
  BY AppendedLog, ExtendedFacts DEF Lsns
<1>3. NormalPages(H)
  BY DEF Normal
<1>4. /\ \A p \in DOMAIN rel : StampOf(rel[p]) \in DOMAIN log \cup {LogEOF}
      /\ \A p \in DOMAIN relDisk : StampOf(relDisk[p]) \in DOMAIN log \cup {LogEOF}
  BY StampsKnown
<1>5. \A pg : StampOf(pg)' = IF pg.era = era THEN pg.lsn ELSE LogEOF
  BY DEF StampOf, LogEOF, LSN
<1>6. ASSUME NEW p \in DOMAIN rel'
      PROVE  Was(X, StampOf(rel[p])', rel'[p], p) /\ (rel'[p].era # era => p < relDiskPages)
  <2>1. CASE /\ p \in DOMAIN rel /\ rel'[p].rec = rel[p].rec
             /\ rel'[p].lsn = rel[p].lsn /\ rel'[p].era = rel[p].era
    <3>1. StampOf(rel[p])' = StampOf(rel[p])
      BY <2>1 DEF StampOf, LogEOF, LSN
    <3> QED
      BY <1>1, <1>3, <1>4, <2>1, <3>1 DEF NormalPages, Was
  <2>2. CASE rel'[p].era = era /\ rel'[p].lsn = l
    <3>1. StampOf(rel[p])' = l
      BY <2>2 DEF StampOf
    <3>2. \A s \in Slots : Contents'[<<p, s>>] = rel'[p].rec[s]
      <4>1. PagesOK'
        BY DEF TypeInv
      <4> QED
        BY <4>1, ContentsAtNext
    <3> QED
      BY <1>2, <2>2, <3>1, <3>2 DEF Was
  <2> QED
    BY <2>1, <2>2
<1>7. ASSUME NEW p \in DOMAIN relDisk
      PROVE  /\ Was(X, StampOf(relDisk[p])', relDisk'[p], p)
             /\ Durable(StampOf(relDisk[p]))'
             /\ relDisk'[p].era # era => p < relDiskPages
  <2>1. StampOf(relDisk[p])' = StampOf(relDisk[p])
    BY DEF StampOf, LogEOF, LSN, diskVars
  <2>2. /\ Was(H, StampOf(relDisk[p]), relDisk[p], p) /\ Durable(StampOf(relDisk[p]))
        /\ relDisk[p].era # era => p < relDiskPages
    BY <1>3 DEF NormalPages
  <2>3. Durable(StampOf(relDisk[p]))'
    BY <2>1, <2>2 DEF Durable, LogOnDisk, diskVars
  <2> QED
    BY <1>1, <1>4, <2>1, <2>2, <2>3 DEF Was, diskVars
<1>8. ASSUME NEW k \in DOMAIN log', log'[k].type \in Changes \cup {"clr"}
      PROVE  (log'[k].rid \in Rid /\ log'[k].rid[1] \in DOMAIN rel') \/ pc' = "wedged"
  BY <1>3, <1>8, AppendedLog DEF NormalPages, SameRecord
<1>9. NormalPages(X)'
  BY <1>1, <1>3, <1>6, <1>7, <1>8 DEF NormalPages, diskVars
<1> QED
  BY <1>1, <1>9 DEF Normal

(* What the last record of the log left is settled and agreed. *)
LEMMA LastSettled ==
  ASSUME TypeInv, LogInv, GoalsOK, NEW H, NEW b, Normal(H, b)
  PROVE  /\ Settled(H, lastRec) /\ After(H, lastRec) = Contents
         /\ Base(H, lastRec) \in goals
         /\ Base(H, lastRec) \in [Rid -> Cell]
<1>1. /\ NormalChain /\ NormalHistory(H) /\ NormalGoals(H, b)
  BY DEF Normal
<1>2. lastRec \in DOMAIN log \cup {LogEOF}
  BY DEF LogInv, LastNewest
<1>3. Settled(H, lastRec)
  BY <1>1, <1>2 DEF NormalHistory, Means, StartMeans
<1>4. ~Older(lastRec, b)
  <2>1. CASE lastRec = LogEOF
    BY <1>1, <2>1, PosOrder DEF NormalChain, NormalGoals
  <2>2. CASE lastRec # LogEOF
    BY <1>1, <2>2, PosOrder DEF LogInv, LastNewest, NormalGoals, NormalChain
  <2> QED
    BY <2>1, <2>2
<1> QED
  BY <1>1, <1>2, <1>3, <1>4 DEF NormalHistory, NormalGoals, GoalsOK

LEMMA ChangeNormal ==
  ASSUME TypeInv, LogInv, TypeInv', ClosedInv', GoalsOK, ~Recovering, inTxn,
         NEW H, NEW b, Normal(H, b),
         NEW t \in Changes, NEW r \in Rid \cup {NoRid}, NEW u, NEW v,
         InsertLogRec(Body(t, r, u, v)),
         UNCHANGED <<diskVars, txnVars, goals, era>>, ~Undoing',
         pc # "wedged", pc' \notin {"committing", "ending"},
         \A x \in Rid : Contents'[x] = IF x = r THEN v ELSE Contents[x],
         t = "insert" => u = Empty, t = "delete" => v = Empty,
         r \in Rid => u = Contents[r],
         (r \in Rid /\ r[1] \in DOMAIN rel') \/ pc' = "wedged",
         DOMAIN rel \subseteq DOMAIN rel',
         \A p \in DOMAIN rel' : \/ /\ p \in DOMAIN rel /\ rel'[p].rec = rel[p].rec
                                   /\ rel'[p].lsn = rel[p].lsn /\ rel'[p].era = rel[p].era
                                \/ rel'[p].era = era /\ rel'[p].lsn = NextLSN
  PROVE  \E X, c : Normal(X, c)'
<1>1. PICK l : l = NextLSN
  OBVIOUS
<1>2. PICK c : c = Contents'
  OBVIOUS
<1>3. PICK X : X = Extended(H, l, c, Open(H, lastRec) \cup {r}, Base(H, lastRec))
  OBVIOUS
<1>4. PICK body : body = Body(t, r, u, v)
  OBVIOUS
<1>5. /\ body.type = t /\ body.rid = r /\ body.old = u /\ body.new = v
      /\ InsertLogRec(body)
  BY <1>4 DEF Body
<1>6. /\ l \in Pos /\ l # LogEOF /\ l \notin DOMAIN log
      /\ DOMAIN log' = DOMAIN log \cup {l}
      /\ log'[l].type = t /\ log'[l].rid = r /\ log'[l].old = u /\ log'[l].new = v
      /\ log'[l].xid = currXID /\ log'[l].prev = lastRec
      /\ \A k \in DOMAIN log : SameRecord(log'[k], log[k])
  BY <1>1, <1>5, AppendedLog
<1>7. lastRec \in DOMAIN log \cup {LogEOF} /\ lastRec # l
  BY <1>6 DEF LogInv, LastNewest
<1>8. /\ After(X, l) = c /\ Open(X, l) = Open(H, lastRec) \cup {r}
      /\ Base(X, l) = Base(H, lastRec)
      /\ After(X, lastRec) = Contents /\ Open(X, lastRec) = Open(H, lastRec)
      /\ Base(X, lastRec) = Base(H, lastRec)
  <2>1. lastRec \in Lsns /\ l \in Lsns
    BY <1>6, <1>7 DEF Lsns, TypeInv, LogOK, RecordOK
  <2> QED
    BY <1>3, <1>7, <2>1, ExtendedFacts, LastSettled
<1>9. Follows(log', lastRec, currXID)
  BY <1>6, <1>7 DEF Normal, NormalGoals, Follows, SameRecord
<1>10. Means(log', X, l)
  <2>1. ChangeMeans(log', X, l)
    BY <1>2, <1>6, <1>8, <1>9 DEF ChangeMeans
  <2>2. ClrMeans(log', X, l) /\ AbortMeans(log', X, l) /\ EndMeans(log', X, l)
    BY <1>6 DEF ClrMeans, AbortMeans, EndMeans, Changes
  <2>3. Settled(X, l)
    BY <1>2, <1>8, LastSettled DEF Settled
  <2> QED
    BY <2>1, <2>2, <2>3 DEF Means
<1>11. NormalUndo(X)'
  BY DEF NormalUndo
<1>12. Base(H, lastRec) \in goals'
  BY LastSettled
<1>13. inTxn' /\ UNCHANGED <<diskVars, currXID, era, goals>>
  BY DEF txnVars
<1> HIDE DEF Normal
<1>14. Normal(X, b)'
  BY <1>1, <1>2, <1>3, <1>5, <1>10, <1>11, <1>12, <1>13, NormalLogging
<1> QED
  BY <1>14

(* The slots of a page after an edit. *)
LEMMA EditedSlots ==
  ASSUME NEW pg, PageOK(pg), NEW s \in Slots, NEW v
  PROVE  /\ \A t \in Slots : /\ Stamp(InsertInto(pg, s, v)).rec[t] = IF t = s THEN v ELSE pg.rec[t]
                             /\ Stamp(PutAt(pg, s, v)).rec[t] = IF t = s THEN v ELSE pg.rec[t]
         /\ \A ff : \A t \in Slots : Stamp(DeleteFrom(pg, s, ff)).rec[t]
                                       = IF t = s THEN Empty ELSE pg.rec[t]
         /\ Stamp(InsertInto(pg, s, v)).era = era /\ Stamp(InsertInto(pg, s, v)).lsn = NextLSN
         /\ Stamp(PutAt(pg, s, v)).era = era /\ Stamp(PutAt(pg, s, v)).lsn = NextLSN
         /\ \A ff : /\ Stamp(DeleteFrom(pg, s, ff)).era = era
                    /\ Stamp(DeleteFrom(pg, s, ff)).lsn = NextLSN
<1>1. pg \in Page
  BY DEF PageOK
<1>2. \A t \in Slots : /\ InsertInto(pg, s, v).rec[t] = IF t = s THEN v ELSE pg.rec[t]
                       /\ PutAt(pg, s, v).rec[t] = IF t = s THEN v ELSE pg.rec[t]
  BY <1>1 DEF Page, InsertInto, PutAt
<1>3. \A ff : \A t \in Slots : DeleteFrom(pg, s, ff).rec[t] = IF t = s THEN Empty ELSE pg.rec[t]
  BY <1>1 DEF Page, DeleteFrom
<1>4. /\ DOMAIN InsertInto(pg, s, v) = DOMAIN pg /\ DOMAIN PutAt(pg, s, v) = DOMAIN pg
      /\ \A ff : DOMAIN DeleteFrom(pg, s, ff) = DOMAIN pg
  BY DEF InsertInto, PutAt, DeleteFrom
<1>5. DOMAIN pg = {"num", "next", "lsn", "era", "rec"}
  BY <1>1 DEF Page
<1>6. \A q : DOMAIN q = {"num", "next", "lsn", "era", "rec"} =>
        Stamp(q).rec = q.rec /\ Stamp(q).era = era /\ Stamp(q).lsn = NextLSN
  BY DEF Stamp
<1> QED
  BY <1>2, <1>3, <1>4, <1>5, <1>6

(* A page's slot changed and the page stamped, other pages kept. *)
Edits(p, s, v) ==
  /\ DOMAIN rel' = DOMAIN rel
  /\ \A q \in DOMAIN rel \ {p} : rel'[q] = rel[q]
  /\ \A t \in Slots : rel'[p].rec[t] = IF t = s THEN v ELSE rel[p].rec[t]
  /\ rel'[p].era = era /\ rel'[p].lsn = NextLSN

LEMMA EditedContents ==
  ASSUME PagesOK, ClosedInv, PagesOK', ClosedInv', NEW p \in DOMAIN rel, NEW s \in Slots, NEW v,
         Edits(p, s, v)
  PROVE  /\ <<p, s>> \in Rid
         /\ \A x \in Rid : Contents'[x] = IF x = <<p, s>> THEN v ELSE Contents[x]
<1>1. <<p, s>> \in Rid
  BY ContentsAt
<1>2. /\ DOMAIN rel' = DOMAIN rel /\ \A q \in DOMAIN rel \ {p} : rel'[q] = rel[q]
      /\ \A t \in Slots : rel'[p].rec[t] = IF t = s THEN v ELSE rel[p].rec[t]
  BY DEF Edits
<1>3. ASSUME NEW x \in Rid
      PROVE  Contents'[x] = IF x = <<p, s>> THEN v ELSE Contents[x]
  <2>1. x = <<x[1], x[2]>> /\ x[2] \in Slots
    BY ContentsAt
  <2>2. CASE x[1] \notin DOMAIN rel
    BY <1>2, <2>1, <2>2, ContentsAt, ContentsAtNext
  <2>3. CASE x[1] \in DOMAIN rel
    <3>1. Contents[x] = rel[x[1]].rec[x[2]] /\ Contents'[x] = rel'[x[1]].rec[x[2]]
      BY <1>2, <2>3, ContentsAt, ContentsAtNext
    <3>2. x = <<p, s>> <=> x[1] = p /\ x[2] = s
      BY <2>1
    <3> QED
      BY <1>2, <2>1, <2>3, <3>1, <3>2
  <2> QED
    BY <2>2, <2>3
<1> QED
  BY <1>1, <1>3

LEMMA EditNormal ==
  ASSUME TypeInv, LogInv, ClosedInv, TypeInv', ClosedInv', GoalsOK, ~Recovering,
         NEW H, NEW b, Normal(H, b), NEW t \in Changes, NEW p \in DOMAIN rel, NEW s \in Slots,
         NEW u, NEW v,
         InsertLogRec(Body(t, <<p, s>>, u, v)), u = Contents[<<p, s>>],
         t = "insert" => u = Empty, t = "delete" => v = Empty,
         Edits(p, s, v),
         pc = "open", UNCHANGED <<diskVars, txnVars, goals, era, pc>>
  PROVE  \E X, c : Normal(X, c)'
<1>0. PagesOK /\ PagesOK'
  BY DEF TypeInv
<1>1. /\ <<p, s>> \in Rid
      /\ \A x \in Rid : Contents'[x] = IF x = <<p, s>> THEN v ELSE Contents[x]
  BY <1>0, EditedContents
<1>2. PICK r : r = <<p, s>>
  OBVIOUS
<1>3. r[1] = p /\ r \in Rid \cup {NoRid} /\ r \in Rid
  BY <1>1, <1>2
<1>5. inTxn /\ ~Undoing' /\ pc # "wedged" /\ pc' \notin {"committing", "ending"}
  BY DEF ClosedInv, Undoing
<1>6. /\ DOMAIN rel' = DOMAIN rel
      /\ \A q \in DOMAIN rel' : \/ q \in DOMAIN rel /\ rel'[q] = rel[q]
                                \/ rel'[q].era = era /\ rel'[q].lsn = NextLSN
  BY DEF Edits
<1>7. InsertLogRec(Body(t, r, u, v)) /\ u = Contents[r]
  BY <1>2
<1>8. \A x \in Rid : Contents'[x] = IF x = r THEN v ELSE Contents[x]
  BY <1>1, <1>2
<1>9. UNCHANGED <<diskVars, txnVars, goals, era>> /\ r[1] \in DOMAIN rel'
  BY <1>3, <1>6
<1> HIDE DEF Normal
<1> QED
  BY <1>3, <1>5, <1>6, <1>7, <1>8, <1>9, ChangeNormal

LEMMA DeleteOrUpdateNormal ==
  ASSUME TypeInv, LogInv, ClosedInv, TypeInv', ClosedInv', GoalsOK, ~Recovering,
         NEW H, NEW b, Normal(H, b), NEW r \in Records,
         DeleteRec(r) \/ \E v \in Val : UpdateRec(r, v)
  PROVE  \E X, c : Normal(X, c)'
<1>1. /\ r \in Rid /\ r[1] \in DOMAIN rel /\ r[2] \in Slots /\ r = <<r[1], r[2]>>
      /\ PageOK(rel[r[1]])
  BY RecordPlace, ContentsAt, NoneHeld DEF TypeInv, DeleteRec, UpdateRec
<1>2. PICK p \in DOMAIN rel, s \in Slots : r = <<p, s>> /\ r[1] = p /\ r[2] = s
  BY <1>1
<1> HIDE DEF Normal
<1>3. CASE DeleteRec(r)
  <2>1. PICK u, t, v : u = Contents[<<p, s>>] /\ t = "delete" /\ v = Empty
    OBVIOUS
  <2>2. /\ InsertLogRec(Body(t, <<p, s>>, u, v))
        /\ rel' = [rel EXCEPT ![p] = Stamp(DeleteFrom(rel[p], s, relFirst))]
        /\ pc = "open" /\ UNCHANGED <<diskVars, txnVars, goals, era, pc>>
    BY <1>2, <1>3, <2>1 DEF DeleteRec, ctlVars, history
  <2>3. Edits(p, s, v)
    BY <1>1, <1>2, <2>1, <2>2, EditedSlots DEF Edits
  <2>4. t \in Changes /\ t # "insert"
    BY <2>1 DEF Changes
  <2> QED
    BY <2>1, <2>2, <2>3, <2>4, EditNormal
<1>4. ASSUME NEW w \in Val, UpdateRec(r, w)
      PROVE  \E X, c : Normal(X, c)'
  <2>1. PICK u, t : u = Contents[<<p, s>>] /\ t = "update"
    OBVIOUS
  <2>2. /\ InsertLogRec(Body(t, <<p, s>>, u, w))
        /\ rel' = [rel EXCEPT ![p] = Stamp(PutAt(rel[p], s, w))]
        /\ pc = "open" /\ UNCHANGED <<diskVars, txnVars, goals, era, pc>>
    BY <1>2, <1>4, <2>1 DEF UpdateRec, ctlVars, history
  <2>3. Edits(p, s, w)
    BY <1>1, <1>2, <2>2, EditedSlots DEF Edits
  <2>4. t \in Changes /\ t # "insert"
    BY <2>1 DEF Changes
  <2> QED
    BY <2>1, <2>2, <2>3, <2>4, EditNormal
<1> QED
  BY <1>3, <1>4

(* The first slot of a new page and a free slot of an old one are empty. *)
(* An insertion that finds no slot changes a count and perhaps the list. *)
LEMMA CountedContents ==
  ASSUME TypeInv, NEW v, InsertInFullPage(v)
  PROVE  /\ DOMAIN rel' = DOMAIN rel
         /\ \A p \in DOMAIN rel : /\ rel'[p].rec = rel[p].rec
                                 /\ rel'[p].lsn = rel[p].lsn /\ rel'[p].era = rel[p].era
         /\ \A x \in Rid : Contents'[x] = Contents[x]
<1>1. PICK f : f = relFirst
  OBVIOUS
<1>2. f \in DOMAIN rel /\ rel' = [rel EXCEPT ![f] = CountInsert(rel[f])] /\ relPages' = relPages
  BY <1>1 DEF InsertInFullPage, Readable
<1>3. rel[f] \in Page
  BY <1>2 DEF TypeInv, PagesOK
<1>4. LET q == CountInsert(rel[f])
      IN  q.rec = rel[f].rec /\ q.lsn = rel[f].lsn /\ q.era = rel[f].era
  BY <1>3 DEF CountInsert, Page
<1>5. /\ DOMAIN rel' = DOMAIN rel
      /\ \A p \in DOMAIN rel : /\ rel'[p].rec = rel[p].rec
                              /\ rel'[p].lsn = rel[p].lsn /\ rel'[p].era = rel[p].era
  BY <1>2, <1>4
<1> QED
  BY <1>2, <1>5 DEF Contents, ContentsOf

LEMMA InsertNormal ==
  ASSUME TypeInv, LogInv, ClosedInv, TypeInv', ClosedInv', GoalsOK, ~Recovering,
         NEW H, NEW b, Normal(H, b), NEW v \in Val, InsertRec(v), ~InsertInLostPage
  PROVE  \E X, c : Normal(X, c)'
<1>1. /\ pc = "open" /\ inTxn
      /\ UNCHANGED <<diskVars, txnVars, goals, era>>
      /\ PagesOK /\ PagesOK'
  BY DEF InsertRec, history, ClosedInv, TypeInv
<1>2. PICK t, u : t = "insert" /\ u = Empty
  OBVIOUS
<1>3. t \in Changes
  BY <1>2 DEF Changes
<1> HIDE DEF Normal
<1>4. CASE InsertInNewPage(v)
  <2>1. PICK r : r = <<relPages, 0>>
    OBVIOUS
  <2>2. /\ InsertLogRec(Body(t, r, u, v)) /\ pc' = pc
        /\ relPages \in 1 .. MaxPages
        /\ DOMAIN rel' = DOMAIN rel \cup {relPages}
        /\ \A q \in DOMAIN rel' : q # relPages => rel'[q] = rel[q]
        /\ rel'[relPages] = Stamp(InsertInto(BlankPage, 0, v))
    BY <1>2, <1>4, <2>1 DEF InsertInNewPage, TypeInv, Scalars
  <2>3. 0 \in Slots
    BY PageAssumption DEF Slots
  <2>4. r \in Rid /\ r[1] = relPages /\ r[2] = 0
    BY <2>1, <2>2, <2>3 DEF Rid
  <2>5. \A p \in DOMAIN rel : p # relPages
    BY DEF ClosedInv, TypeInv, PagesOK, Scalars
  <2>6. \A s \in Slots : rel'[relPages].rec[s] = IF s = 0 THEN v ELSE Empty
    <3>1. \A s \in Slots : BlankPage.rec[s] = Empty
      BY DEF BlankPage
    <3> QED
      BY <2>2, <2>3, <3>1, BlankOK, EditedSlots
  <2>7. rel'[relPages].era = era /\ rel'[relPages].lsn = NextLSN
    BY <2>2, <2>3, BlankOK, EditedSlots
  <2>8. ASSUME NEW x \in Rid
        PROVE  Contents'[x] = IF x = r THEN v ELSE Contents[x]
    <3>1. x = <<x[1], x[2]>> /\ x[2] \in Slots
      BY <1>1, ContentsAt
    <3>2. x = r <=> x[1] = relPages /\ x[2] = 0
      BY <2>1, <3>1
    <3>3. CASE x[1] = relPages
      BY <1>1, <2>2, <2>5, <2>6, <3>1, <3>2, <3>3, ContentsAt, ContentsAtNext
    <3>4. CASE x[1] # relPages /\ x[1] \in DOMAIN rel
      <4>1. Contents'[x] = rel'[x[1]].rec[x[2]]
        BY <1>1, <2>2, <3>4, ContentsAtNext
      <4> QED
        BY <1>1, <2>2, <3>2, <3>4, <4>1, ContentsAt
    <3>5. CASE x[1] # relPages /\ x[1] \notin DOMAIN rel
      <4>1. Contents'[x] = Empty
        BY <1>1, <2>2, <3>5, ContentsAtNext
      <4> QED
        BY <1>1, <3>2, <3>5, <4>1, ContentsAt
    <3> QED
      BY <3>3, <3>4, <3>5
  <2>9. u = Contents[r]
    BY <1>1, <1>2, <2>4, <2>5, ContentsAt
  <2>10. DOMAIN rel \subseteq DOMAIN rel' /\ r[1] \in DOMAIN rel'
    BY <2>2, <2>4
  <2>11. \A p \in DOMAIN rel' : \/ p \in DOMAIN rel /\ rel'[p] = rel[p]
                                \/ rel'[p].era = era /\ rel'[p].lsn = NextLSN
    BY <2>2, <2>7
  <2>12. ~Undoing' /\ pc # "wedged" /\ pc' \notin {"committing", "ending"}
    BY <1>1, <2>2 DEF Undoing
  <2> QED
    BY <1>1, <1>2, <1>3, <2>2, <2>4, <2>8, <2>9, <2>10, <2>11, <2>12, ChangeNormal
<1>5. CASE InsertInFreePage(v)
  <2>1. PICK p, s : p = relFirst /\ s = FindAvailableSlot(rel[relFirst])
    OBVIOUS
  <2>2. /\ InsertLogRec(Body(t, <<p, s>>, u, v)) /\ pc' = pc
        /\ p \in DOMAIN rel /\ HasRoom(rel[p])
        /\ rel' = [rel EXCEPT ![p] = Stamp(InsertInto(rel[p], s, v))]
    BY <1>2, <1>5, <2>1 DEF InsertInFreePage, Readable
  <2>3. s \in Slots /\ rel[p].rec[s] = Empty
    <3>1. s = FindAvailableSlot(rel[p])
      BY <2>1
    <3> QED
      BY <2>2, <3>1, FreeSlotFound
  <2>4. Edits(p, s, v)
    <3>1. PageOK(rel[p])
      BY <1>1, <2>2, NoneHeld
    <3> QED
      BY <2>2, <2>3, <3>1, EditedSlots DEF Edits
  <2>5. u = Contents[<<p, s>>]
    BY <1>1, <1>2, <2>2, <2>3, ContentsAt
  <2> QED
    BY <1>1, <1>2, <1>3, <2>2, <2>3, <2>4, <2>5, EditNormal
<1>6. CASE InsertInFullPage(v)
  <2>1. PICK r : r = NoRid
    OBVIOUS
  <2>2. InsertLogRec(Body(t, r, u, v)) /\ pc' = "wedged"
    BY <1>2, <1>6, <2>1 DEF InsertInFullPage
  <2>3. r \notin Rid
    BY <2>1 DEF Rid, NoRid
  <2>4. \A x \in Rid : Contents'[x] = IF x = r THEN v ELSE Contents[x]
    BY <1>6, <2>3, CountedContents
  <2>5. /\ DOMAIN rel \subseteq DOMAIN rel'
        /\ \A p \in DOMAIN rel' : /\ p \in DOMAIN rel /\ rel'[p].rec = rel[p].rec
                                 /\ rel'[p].lsn = rel[p].lsn /\ rel'[p].era = rel[p].era
        /\ ~Undoing' /\ pc # "wedged" /\ pc' \notin {"committing", "ending"}
    BY <1>1, <1>6, <2>2, CountedContents DEF Undoing
  <2> QED
    BY <1>1, <1>2, <1>3, <2>1, <2>2, <2>3, <2>4, <2>5, ChangeNormal
<1> QED
  BY <1>4, <1>5, <1>6 DEF InsertRec

LEMMA NormalUnchanged ==
  ASSUME NEW H, NEW b, Normal(H, b),
         UNCHANGED <<log, logDisk, logDiskPages, lastRec, rel, relDisk, relPages,
                     relDiskPages, era>>,
         NEW c, NormalGoals(H, c)', NormalUndo(H)', pc = "wedged" => pc' = "wedged"
  PROVE  Normal(H, c)'
<1>1. NormalChain'
  BY DEF Normal, NormalChain, LogEOF, LSN
<1>2. Contents' = Contents
  BY DEF Contents, ContentsOf
<1>3. NormalHistory(H)'
  BY <1>2 DEF Normal, NormalHistory
<1>4. NormalPages(H)'
  <2>1. \A pg : StampOf(pg)' = IF pg.era = era THEN pg.lsn ELSE LogEOF
    BY DEF StampOf, LogEOF, LSN
  <2>2. \A x : Durable(x)' <=> Durable(x)
    BY DEF Durable, LogOnDisk, LogEOF, LSN
  <2>3. \A p : StampOf(rel[p])' = StampOf(rel[p]) /\ StampOf(relDisk[p])' = StampOf(relDisk[p])
    BY DEF StampOf, LogEOF, LSN
  <2>4. \A p \in DOMAIN rel' : Was(H, StampOf(rel[p]), rel[p], p)' <=> Was(H, StampOf(rel[p]), rel[p], p)
    BY <2>3 DEF Was
  <2>5. \A p \in DOMAIN relDisk' : /\ Was(H, StampOf(relDisk[p]), relDisk[p], p)' <=>
                                      Was(H, StampOf(relDisk[p]), relDisk[p], p)
                                   /\ Durable(StampOf(relDisk[p]))' <=>
                                      Durable(StampOf(relDisk[p]))
    BY <2>2, <2>3 DEF Was, Durable, LogOnDisk
  <2>6. NormalPages(H)
    BY DEF Normal
  <2> QED
    BY <2>4, <2>5, <2>6 DEF NormalPages, LogEOF, LSN
<1> QED
  BY <1>1, <1>3, <1>4 DEF Normal

(* Of a transaction that has ended, nothing is open. *)
LEMMA EndedSettled ==
  ASSUME TypeInv, LogInv, ClosedInv, GoalsOK, NEW H, NEW b, Normal(H, b), Ended
  PROVE  /\ Base(H, lastRec) = Contents /\ Open(H, lastRec) = {}
         /\ \A x : Follows(log, lastRec, x)
         /\ \A l \in DOMAIN log \cup {LogEOF} : ~Older(l, lastRec) => l = lastRec
<1>1. /\ NormalChain /\ NormalHistory(H)
      /\ lastRec \in DOMAIN log \cup {LogEOF}
  BY DEF Normal, LogInv, LastNewest
<1>2. Base(H, lastRec) \in [Rid -> Cell] /\ After(H, lastRec) = Contents /\ Settled(H, lastRec)
  BY LastSettled
<1>3. Contents \in [Rid -> Cell]
  BY ContentsAt DEF TypeInv
<1>4. Open(H, lastRec) = {}
  <2>1. CASE lastRec = LogEOF
    BY <1>1, <2>1 DEF NormalHistory, StartMeans
  <2>2. CASE lastRec # LogEOF
    BY <1>1, <2>2 DEF NormalHistory, Means, EndMeans, Ended
  <2> QED
    BY <2>1, <2>2
<1>5. \A x \in Rid : Base(H, lastRec)[x] = Contents[x]
  BY <1>2, <1>4 DEF Settled
<1>6. Base(H, lastRec) = Contents
  BY <1>2, <1>3, <1>5
<1>7. \A x : Follows(log, lastRec, x)
  BY DEF Follows, Ended
<1>8. \A l \in DOMAIN log \cup {LogEOF} : ~Older(l, lastRec) => l = lastRec
  <2>1. CASE lastRec = LogEOF
    BY <1>1, <2>1 DEF NormalChain
  <2>2. CASE lastRec # LogEOF
    BY <1>1, <2>2, PosOrder DEF NormalChain, UpTo
  <2> QED
    BY <2>1, <2>2
<1> QED
  BY <1>4, <1>6, <1>7, <1>8

(* All that is in the log is on disk. *)
LEMMA ForcedDurable ==
  ASSUME TypeInv, LogInv, NormalChain, LogForced
  PROVE  \A k \in DOMAIN log \cup {LogEOF} : Durable(k)
<1> SUFFICES ASSUME NEW k \in DOMAIN log
             PROVE  \A l \in UpTo(k) : /\ l \in LogOnDisk
                                       /\ Older(l, k) => logDisk[l].next = Successor(l)
  BY DEF Durable
<1>1. /\ lastRec \in Pos /\ DOMAIN log = UpTo(lastRec) /\ k \in Pos /\ ~Older(lastRec, k)
  BY DEF NormalChain, UpTo
<1>2. ASSUME NEW l \in UpTo(k)
      PROVE  l \in LogOnDisk /\ (Older(l, k) => logDisk[l].next = Successor(l))
  <2>1. l \in Pos /\ ~Older(k, l)
    BY DEF UpTo
  <2>2. l \in DOMAIN log
    BY <1>1, <2>1, PosOrder DEF UpTo
  <2>3. l \in LogOnDisk /\ logDisk[l] = log[l]
    BY <2>2 DEF LogForced, LogClean, LogOnDisk, LogInv, LogPlaced
  <2>4. LinksOn(log, lastRec, l) /\ (Older(l, k) => l # lastRec)
    BY <1>1, <2>1, <2>2 DEF NormalChain
  <2> QED
    BY <2>3, <2>4 DEF LinksOn
<1> QED
  BY <1>2

LEMMA GoalsUnchanged ==
  ASSUME NEW H, NEW b, Normal(H, b),
         UNCHANGED <<log, logDisk, logDiskPages, lastRec, inTxn, currXID, goals>>,
         pc' \notin {"committing", "ending"}
  PROVE  NormalGoals(H, b)'
<1>1. NormalGoals(H, b)
  BY DEF Normal
<1>2. Durable(b)' <=> Durable(b)
  BY DEF Durable, LogOnDisk, LogEOF, LSN
<1>3. Ended' <=> Ended
  BY DEF Ended, LogEOF, LSN
<1>4. Follows(log, lastRec, currXID)' <=> Follows(log, lastRec, currXID)
  BY DEF Follows, LogEOF, LSN
<1> QED
  BY <1>1, <1>2, <1>3, <1>4 DEF NormalGoals, LogEOF, LSN

LEMMA BeginNormal ==
  ASSUME TypeInv, LogInv, ClosedInv, GoalsOK, ~Recovering, NEW H, NEW b, Normal(H, b),
         BeginT \/ \E k \in Kinds : StartStatement(k)
  PROVE  \E c : Normal(H, c)'
<1> HIDE DEF Normal
<1>1. /\ UNCHANGED <<log, logDisk, logDiskPages, lastRec, rel, relDisk, relPages,
                     relDiskPages, era>>
      /\ pc = "idle" /\ pc' \in {"idle", "open"} /\ inTxn'
      /\ \/ inTxn /\ UNCHANGED <<currXID, goals>>
         \/ ~inTxn /\ goals' = {Contents}
  BY DEF BeginT, StartStatement, BeginXact, diskVars, logVars, relVars, history, ctlVars,
         TypeInv, Scalars
<1>2. ~Undoing'
  BY <1>1 DEF Undoing
<1>3. NormalUndo(H)'
  BY <1>2 DEF NormalUndo
<1>4. CASE inTxn /\ UNCHANGED <<currXID, goals>>
  <2>1. NormalGoals(H, b)'
    BY <1>1, <1>4, GoalsUnchanged
  <2>2. Normal(H, b)'
    BY <1>1, <1>3, <2>1, NormalUnchanged
  <2> QED
    BY <2>2
<1>5. CASE ~inTxn /\ goals' = {Contents}
  <2>1. NormalGoals(H, b) /\ b = lastRec /\ Ended
    BY <1>5 DEF NormalGoals, Normal
  <2>2. /\ Base(H, lastRec) = Contents
        /\ \A x : Follows(log, lastRec, x)
        /\ \A l \in DOMAIN log \cup {LogEOF} : ~Older(l, lastRec) => l = lastRec
    BY <2>1, EndedSettled
  <2>3. Durable(b)' <=> Durable(b)
    BY <1>1 DEF Durable, LogOnDisk, LogEOF, LSN
  <2>4. PICK x : x = currXID'
    OBVIOUS
  <2>5. Follows(log, lastRec, currXID)'
    BY <1>1, <2>2, <2>4 DEF Follows, LogEOF, LSN
  <2>6. NormalGoals(H, b)'
    BY <1>1, <1>5, <2>1, <2>2, <2>3, <2>5 DEF NormalGoals, LogEOF, LSN
  <2>7. Normal(H, b)'
    BY <1>1, <1>3, <2>6, NormalUnchanged
  <2> QED
    BY <2>7
<1> QED
  BY <1>1, <1>4, <1>5

(* The transaction is over once its commit or end record is on disk. *)
LEMMA OverNormal ==
  ASSUME TypeInv, LogInv, ClosedInv, GoalsOK, ~Recovering, NEW H, NEW b, Normal(H, b),
         CommitDone \/ EndDone
  PROVE  \E c : Normal(H, c)'
<1> HIDE DEF Normal
<1>1. /\ UNCHANGED <<log, logDisk, logDiskPages, lastRec, rel, relDisk, relPages,
                     relDiskPages, era>>
      /\ pc \in {"committing", "ending"} /\ pc' \in {"idle", "closing"} /\ ~inTxn'
      /\ pc' = "closing" => stmt' = "load"
      /\ goals' = goals \/ goals' = {Contents}
      /\ LogForced
  BY DEF CommitDone, EndDone, diskVars, logVars, relVars, history
<1>2. NormalUndo(H)'
  BY <1>1 DEF NormalUndo, Undoing
<1>3. Ended /\ NormalChain /\ NormalGoals(H, b)
  BY <1>1 DEF Normal, NormalGoals
<1>4. /\ Base(H, lastRec) = Contents
      /\ \A l \in DOMAIN log \cup {LogEOF} : ~Older(l, lastRec) => l = lastRec
  BY <1>3, EndedSettled
<1>5. Base(H, lastRec) \in goals
  BY LastSettled
<1>6. lastRec \in DOMAIN log \cup {LogEOF}
  BY DEF LogInv, LastNewest
<1>7. Durable(lastRec)
  BY <1>1, <1>3, <1>6, ForcedDurable
<1>8. Durable(lastRec)'
  BY <1>1, <1>7 DEF Durable, LogOnDisk, LogEOF, LSN
<1>9. PICK c : c = lastRec
  OBVIOUS
<1>10. NormalGoals(H, c)'
  <2>1. c = lastRec'
    BY <1>1, <1>9
  <2>2. c \in DOMAIN log \cup {LogEOF}
    BY <1>6, <1>9
  <2>3. \A l \in DOMAIN log' \cup {LogEOF} : ~Older(l, c) => Base(H, l) \in goals'
    BY <1>1, <1>4, <1>5, <1>9
  <2>4. Ended'
    BY <1>1, <1>3 DEF Ended, LogEOF, LSN
  <2>5. Durable(c)'
    BY <1>8, <2>1 DEF Durable, LogEOF, LSN, LogOnDisk
  <2> QED
    BY <1>1, <2>1, <2>2, <2>3, <2>4, <2>5 DEF NormalGoals
<1>11. Normal(H, c)'
  BY <1>1, <1>2, <1>10, NormalUnchanged
<1> QED
  BY <1>11

LEMMA QuietNormal ==
  ASSUME TypeInv, LogInv, ChainInv, ClosedInv, GoalsOK, ~Recovering, NEW H, NEW b, Normal(H, b),
         \/ CloseFile \/ CloseDone \/ CheckpointBreaks \/ AbortForced \/ UndoSkip
         \/ InsertInLostPage /\ UNCHANGED <<diskVars, txnVars, stmt, cur, undoXid, history>>
         \/ UNCHANGED vars
  PROVE  \E c : Normal(H, c)'
<1> HIDE DEF Normal
<1>1. /\ UNCHANGED <<log, logDisk, logDiskPages, lastRec, rel, relDisk, relPages,
                     relDiskPages, era>>
      /\ UNCHANGED <<inTxn, currXID, goals>>
      /\ pc' \notin {"committing", "ending"} \/ UNCHANGED pc
      /\ pc = "wedged" => pc' = "wedged"
  BY KindsKnown DEF CloseFile, CloseDone, CheckpointBreaks, AbortForced, UndoSkip, InsertInLostPage,
     diskVars, logVars, relVars, txnVars, history, vars, ChainInv, PhaseKnown
<1>2. NormalGoals(H, b)'
  <2>1. CASE pc' \notin {"committing", "ending"}
    BY <1>1, <2>1, GoalsUnchanged
  <2>2. CASE UNCHANGED pc
    <3>1. NormalGoals(H, b)
      BY DEF Normal
    <3>2. Durable(b)' <=> Durable(b)
      BY <1>1 DEF Durable, LogOnDisk, LogEOF, LSN
    <3>3. Ended' <=> Ended
      BY <1>1 DEF Ended, LogEOF, LSN
    <3>4. Follows(log, lastRec, currXID)' <=> Follows(log, lastRec, currXID)
      BY <1>1 DEF Follows, LogEOF, LSN
    <3> QED
      BY <1>1, <2>2, <3>1, <3>2, <3>3, <3>4 DEF NormalGoals, LogEOF, LSN
  <2> QED
    BY <1>1, <2>1, <2>2
<1>3. Contents' = Contents
  BY <1>1 DEF Contents, ContentsOf
<1>4. NormalUndo(H)'
  <2>1. CASE CloseFile \/ CheckpointBreaks \/ InsertInLostPage
    <3>1. ~Undoing'
      BY <2>1 DEF CloseFile, CheckpointBreaks, InsertInLostPage, Undoing, ChainInv, PhaseKnown
    <3> QED
      BY <3>1 DEF NormalUndo
  <2>2. CASE UNCHANGED vars
    BY <2>2, <1>3 DEF vars, Normal, NormalUndo, Undoing, Follows, LogEOF, LSN
  <2>3. CASE CloseDone
    <3>1. Undoing' => Undoing
      BY <2>3, KindsKnown DEF CloseDone, Undoing
    <3>2. UNCHANGED <<cur, undoXid>>
      BY <2>3 DEF CloseDone
    <3>3. NormalUndo(H)
      BY DEF Normal
    <3> QED
      BY <1>1, <1>3, <3>1, <3>2, <3>3 DEF NormalUndo, Follows, LogEOF, LSN
  <2>4. CASE AbortForced
    <3>1. cur' = lastRec /\ undoXid' = currXID /\ inTxn
      BY <2>4 DEF AbortForced, ClosedInv
    <3>2. Follows(log, lastRec, currXID) /\ After(H, lastRec) = Contents
      BY <3>1 DEF Normal, NormalGoals, NormalHistory
    <3>3. lastRec \in DOMAIN log \cup {LogEOF}
      BY DEF LogInv, LastNewest
    <3>4. Follows(log, cur, undoXid)'
      BY <1>1, <3>1, <3>2 DEF Follows, LogEOF, LSN
    <3> QED
      BY <1>1, <1>3, <3>1, <3>2, <3>3, <3>4 DEF NormalUndo
  <2>5. CASE UndoSkip
    <3>1. /\ pc = "undo" /\ pc' = pc /\ undoXid' = undoXid /\ ~UndoStops(cur)
          /\ log[cur].type \in {"abort", "clr"}
          /\ cur' = IF log[cur].type = "clr" THEN log[cur].undonext ELSE log[cur].prev
      BY <2>5 DEF UndoSkip
    <3>2. /\ cur \in DOMAIN log \cup {LogEOF}
          /\ \A x \in Rid : After(H, cur)[x] = Contents[x]
          /\ Base(H, cur) = Base(H, lastRec)
          /\ Follows(log, cur, undoXid)
          /\ undoXid = currXID
      BY <3>1 DEF Normal, NormalUndo, Undoing
    <3>3. cur \in DOMAIN log /\ log[cur].xid = undoXid
      BY <3>1, <3>2 DEF UndoStops
    <3>4. Means(log, H, cur) /\ NormalChain
      BY <3>3 DEF Normal, NormalHistory
    <3>5. cur' \in DOMAIN log \cup {LogEOF}
      BY <3>1, <3>3, <3>4, References
    <3>6. /\ \A x \in Rid : After(H, cur')[x] = After(H, cur)[x]
          /\ Base(H, cur') = Base(H, cur)
          /\ Follows(log, cur', undoXid)
      BY <3>1, <3>3, <3>4 DEF Means, ClrMeans, AbortMeans
    <3>7. Follows(log, cur, undoXid)'
      BY <1>1, <3>1, <3>6 DEF Follows, LogEOF, LSN
    <3> QED
      BY <1>1, <1>3, <3>1, <3>2, <3>5, <3>6, <3>7 DEF NormalUndo
  <2> QED
    BY <2>1, <2>2, <2>3, <2>4, <2>5
<1>5. Normal(H, b)'
  BY <1>1, <1>2, <1>4, NormalUnchanged
<1> QED
  BY <1>5

(* What Undo took back, when it stops, is what the transaction changed. *)
LEMMA UndoneToBase ==
  ASSUME TypeInv, LogInv, ClosedInv, GoalsOK, NEW H, NEW b, Normal(H, b),
         pc = "undo", UndoStops(cur)
  PROVE  Contents = Base(H, lastRec)
<1>1. /\ cur \in DOMAIN log \cup {LogEOF}
      /\ \A x \in Rid : After(H, cur)[x] = Contents[x]
      /\ Base(H, cur) = Base(H, lastRec)
      /\ Follows(log, cur, undoXid)
      /\ NormalHistory(H)
  BY DEF Normal, NormalUndo, Undoing
<1>2. Base(H, lastRec) \in [Rid -> Cell]
  BY LastSettled
<1>3. Contents \in [Rid -> Cell]
  BY ContentsAt DEF TypeInv
<1>4. cur # LogEOF => cur \in DOMAIN log /\ log[cur].type \in {"commit", "end"}
  BY <1>1 DEF UndoStops, Follows
<1>5. Open(H, cur) = {} /\ Settled(H, cur)
  <2>1. CASE cur = LogEOF
    BY <1>1, <2>1 DEF NormalHistory, StartMeans
  <2>2. CASE cur # LogEOF
    BY <1>1, <1>4, <2>2 DEF NormalHistory, Means, EndMeans
  <2> QED
    BY <2>1, <2>2
<1>6. \A x \in Rid : Contents[x] = Base(H, lastRec)[x]
  BY <1>1, <1>5 DEF Settled
<1> QED
  BY <1>2, <1>3, <1>6

LEMMA ControlNormal ==
  ASSUME TypeInv, LogInv, ClosedInv, TypeInv', ClosedInv', GoalsOK, ~Recovering, inTxn,
         NEW H, NEW b, Normal(H, b),
         NEW t \in {"commit", "abort", "end"}, InsertLogRec(Control(t)),
         UNCHANGED <<diskVars, relVars, txnVars, era>>, goals \subseteq goals',
         ~Undoing', pc # "wedged",
         t # "abort" => Contents \in goals',
         pc' \in {"committing", "ending"} => t \in {"commit", "end"}
  PROVE  \E X, c : Normal(X, c)'
<1>1. PICK l : l = NextLSN
  OBVIOUS
<1>2. PICK c : c = Contents'
  OBVIOUS
<1>3. PICK o, d : /\ o = IF t = "abort" THEN Open(H, lastRec) ELSE {}
                  /\ d = IF t = "abort" THEN Base(H, lastRec) ELSE c
  OBVIOUS
<1>4. PICK X : X = Extended(H, l, c, o, d)
  OBVIOUS
<1>5. PICK body : body = Control(t)
  OBVIOUS
<1>6. /\ body.type = t /\ InsertLogRec(body)
  BY <1>5 DEF Body, Control
<1>7. /\ l \in Pos /\ l # LogEOF /\ l \notin DOMAIN log
      /\ DOMAIN log' = DOMAIN log \cup {l}
      /\ log'[l].type = t
      /\ log'[l].xid = currXID /\ log'[l].prev = lastRec
      /\ \A k \in DOMAIN log : SameRecord(log'[k], log[k])
  BY <1>1, <1>6, AppendedLog
<1>8. lastRec \in DOMAIN log \cup {LogEOF} /\ lastRec # l
  BY <1>7 DEF LogInv, LastNewest
<1>9. c = Contents /\ Contents \in [Rid -> Cell]
  <2>1. Contents' = Contents
    BY DEF Contents, ContentsOf, relVars
  <2> QED
    BY <1>2, <2>1, ContentsAt DEF TypeInv
<1>10. /\ After(X, l) = c /\ Open(X, l) = o /\ Base(X, l) = d
       /\ After(X, lastRec) = Contents /\ Open(X, lastRec) = Open(H, lastRec)
       /\ Base(X, lastRec) = Base(H, lastRec)
  <2>1. lastRec \in Lsns /\ l \in Lsns
    BY <1>7, <1>8 DEF Lsns, TypeInv, LogOK, RecordOK
  <2> QED
    BY <1>4, <1>8, <2>1, ExtendedFacts, LastSettled
<1>11. Follows(log', lastRec, currXID)
  BY <1>7, <1>8 DEF Normal, NormalGoals, Follows, SameRecord
<1>12. Means(log', X, l)
  <2>1. AbortMeans(log', X, l)
    BY <1>3, <1>7, <1>9, <1>10, <1>11 DEF AbortMeans
  <2>2. EndMeans(log', X, l)
    BY <1>3, <1>7, <1>9, <1>10 DEF EndMeans
  <2>3. ChangeMeans(log', X, l) /\ ClrMeans(log', X, l)
    BY <1>7 DEF ClrMeans, ChangeMeans, Changes
  <2>4. Settled(X, l)
    BY <1>3, <1>9, <1>10, LastSettled DEF Settled
  <2> QED
    BY <2>1, <2>2, <2>3, <2>4 DEF Means
<1>13. NormalUndo(X)'
  BY DEF NormalUndo
<1>14. d \in goals'
  BY <1>3, <1>9, LastSettled
<1>15. /\ inTxn' /\ UNCHANGED <<diskVars, currXID, era>>
       /\ DOMAIN rel \subseteq DOMAIN rel'
       /\ \A p \in DOMAIN rel' : p \in DOMAIN rel /\ rel'[p] = rel[p]
  BY DEF txnVars, relVars
<1>16. body.type \notin Changes \cup {"clr"}
  BY <1>6 DEF Changes
<1>17. pc' \in {"committing", "ending"} => body.type \in {"commit", "end"}
  BY <1>6
<1> HIDE DEF Normal
<1>18. Normal(X, b)'
  BY <1>1, <1>2, <1>4, <1>6, <1>12, <1>13, <1>14, <1>15, <1>16, <1>17, NormalLogging
<1> QED
  BY <1>18

LEMMA EndingNormal ==
  ASSUME TypeInv, LogInv, ClosedInv, TypeInv', ClosedInv', GoalsOK, ~Recovering,
         NEW H, NEW b, Normal(H, b), CommitT \/ AbortT \/ UndoEndAbort
  PROVE  \E X, c : Normal(X, c)'
<1> HIDE DEF Normal
<1>1. CASE CommitT
  <2>1. PICK t : t = "commit"
    OBVIOUS
  <2>2. /\ InsertLogRec(Control(t)) /\ inTxn /\ pc # "wedged" /\ pc' = "committing"
        /\ UNCHANGED <<diskVars, relVars, txnVars, era>>
        /\ goals' = goals \cup {Contents}
    BY <1>1, <2>1 DEF CommitT
  <2>3. ~Undoing'
    BY <2>2 DEF Undoing
  <2> QED
    BY <2>1, <2>2, <2>3, ControlNormal
<1>2. CASE AbortT
  <2>1. PICK t : t = "abort"
    OBVIOUS
  <2>2. /\ InsertLogRec(Control(t)) /\ inTxn /\ pc # "wedged" /\ pc' = "aborting"
        /\ UNCHANGED <<diskVars, relVars, txnVars, era, goals>>
    BY <1>2, <2>1 DEF AbortT, history
  <2>3. ~Undoing'
    BY <2>2 DEF Undoing
  <2> QED
    BY <2>1, <2>2, <2>3, ControlNormal
<1>3. CASE UndoEndAbort
  <2>1. PICK t : t = "end"
    OBVIOUS
  <2>2. /\ InsertLogRec(Control(t)) /\ inTxn /\ pc = "undo" /\ UndoStops(cur) /\ pc' = "ending"
        /\ UNCHANGED <<diskVars, relVars, txnVars, era, goals>>
    BY <1>3, <2>1 DEF UndoEndAbort, history
  <2>3. ~Undoing'
    BY <2>2 DEF Undoing
  <2>4. Contents \in goals'
    BY <2>2, UndoneToBase, LastSettled
  <2> QED
    BY <2>1, <2>2, <2>3, <2>4, ControlNormal
<1> QED
  BY <1>1, <1>2, <1>3

(* Undo finds what the record it is at left, and puts back what it found. *)
LEMMA UndoneEdit ==
  ASSUME TypeInv, LogInv, ChainInv, ClosedInv, TypeInv', ClosedInv', GoalsOK, ~Recovering,
         NEW H, NEW b, Normal(H, b), UndoChange,
         NEW q, q = log[cur].prev, NEW r, r = log[cur].rid
  PROVE  /\ inTxn /\ pc = "undo" /\ pc' = "closing" /\ cur' = q
         /\ cur \in DOMAIN log /\ q \in DOMAIN log \cup {LogEOF}
         /\ log[cur].type \in Changes /\ InsertLogRec(CLR(cur))
         /\ r \in Rid /\ r[1] \in DOMAIN rel /\ DOMAIN rel' = DOMAIN rel
         /\ \A p \in DOMAIN rel' : rel'[p] = rel[p] \/ (rel'[p].era = era /\ rel'[p].lsn = NextLSN)
         /\ \A x \in Rid : Contents'[x] = After(H, q)[x]
         /\ \A x \in Rid : x # r => Contents'[x] = Contents[x]
         /\ Contents'[r] = log[cur].old
         /\ log[cur].type = "insert" => log[cur].old = Empty
         /\ log[cur].type = "update" => Contents[r] # Empty
         /\ Open(H, cur) = Open(H, q) \cup {r}
         /\ Base(H, q) = Base(H, lastRec)
         /\ Follows(log, q, currXID)
         /\ undoXid = currXID
<1>1. /\ pc = "undo" /\ ~UndoStops(cur) /\ log[cur].type \in Changes
      /\ InsertLogRec(CLR(cur))
  BY DEF UndoChange
<1>2. inTxn
  BY <1>1 DEF Recovering, ChainInv, PhaseKnown
<1>3. /\ cur \in DOMAIN log \cup {LogEOF}
      /\ \A x \in Rid : After(H, cur)[x] = Contents[x]
      /\ Base(H, cur) = Base(H, lastRec)
      /\ undoXid = currXID
      /\ NormalHistory(H) /\ NormalChain
  BY <1>1 DEF Normal, NormalUndo, Undoing
<1>4. cur \in DOMAIN log /\ log[cur].xid = undoXid
  BY <1>1, <1>3 DEF UndoStops
<1>5. ChangeMeans(log, H, cur)
  BY <1>3, <1>4 DEF NormalHistory, Means
<1>6. r \in Rid /\ r[1] \in DOMAIN rel
  BY <1>1, <1>4 DEF Normal, NormalPages
<1>7. q \in DOMAIN log \cup {LogEOF}
  BY <1>3, <1>4, References
<1>8. /\ \A x \in Rid : Contents[x] = IF x = r THEN log[cur].new ELSE After(H, q)[x]
      /\ log[cur].old = After(H, q)[r]
      /\ log[cur].type = "insert" => log[cur].old = Empty
      /\ Open(H, cur) = Open(H, q) \cup {r}
      /\ Base(H, cur) = Base(H, q)
      /\ Follows(log, q, log[cur].xid)
  BY <1>1, <1>3, <1>5, <1>6 DEF ChangeMeans
<1>9. CanUndo(cur) /\ (log[cur].type = "update" => Contents[r] # Empty)
  <2>1. Readable(r[1])
    BY <1>6 DEF Readable, ClosedInv
  <2>2. log[cur].type = "update" => log[cur].new # Empty
    BY <1>1, <1>4 DEF TypeInv, LogOK, RecordOK, Imaged
  <2> QED
    BY <1>6, <1>8, <2>1, <2>2 DEF CanUndo
<1>10. UndoPage(cur) /\ pc' = "closing" /\ cur' = q
  BY <1>9 DEF UndoChange
<1>11. PICK p \in DOMAIN rel, s \in Slots : r = <<p, s>> /\ r[1] = p /\ r[2] = s
  BY <1>6, ContentsAt DEF TypeInv
<1>12. PICK w : w = log[cur].old
  OBVIOUS
<1>13. Edits(p, s, w)
  <2>1. PageOK(rel[p])
    BY NoneHeld DEF UndoChange
  <2>2. CASE log[cur].type = "insert"
    <3>1. rel' = [rel EXCEPT ![p] = Stamp(DeleteFrom(rel[p], s, relFirst))]
      BY <1>10, <1>11, <2>2 DEF UndoPage
    <3>2. w = Empty
      BY <1>8, <1>12, <2>2
    <3> QED
      BY <2>1, <3>1, <3>2, EditedSlots DEF Edits
  <2>3. CASE log[cur].type # "insert"
    <3>1. rel' = [rel EXCEPT ![p] = Stamp(PutAt(rel[p], s, w))]
      BY <1>10, <1>11, <1>12, <2>3 DEF UndoPage
    <3> QED
      BY <2>1, <3>1, EditedSlots DEF Edits
  <2> QED
    BY <2>2, <2>3
<1>14. PagesOK /\ PagesOK'
  BY DEF TypeInv
<1>15. \A x \in Rid : Contents'[x] = IF x = <<p, s>> THEN w ELSE Contents[x]
  BY <1>13, <1>14, EditedContents
<1>16. \A x \in Rid : Contents'[x] = IF x = r THEN w ELSE Contents[x]
  BY <1>11, <1>15
<1>17. /\ DOMAIN rel' = DOMAIN rel
       /\ \A k \in DOMAIN rel' : rel'[k] = rel[k] \/ (rel'[k].era = era /\ rel'[k].lsn = NextLSN)
  BY <1>13 DEF Edits
<1>18. \A x \in Rid : Contents'[x] = After(H, q)[x]
  BY <1>6, <1>8, <1>12, <1>16
<1> QED
  BY <1>1, <1>2, <1>3, <1>4, <1>6, <1>7, <1>8, <1>9, <1>10, <1>12, <1>16, <1>17, <1>18

LEMMA UndoNormal ==
  ASSUME TypeInv, LogInv, ChainInv, ClosedInv, TypeInv', ClosedInv', GoalsOK, ~Recovering,
         NEW H, NEW b, Normal(H, b), UndoChange
  PROVE  \E X, c : Normal(X, c)'
<1>1. PICK q, r : q = log[cur].prev /\ r = log[cur].rid
  OBVIOUS
<1> HIDE DEF Normal
<1>2. /\ inTxn /\ pc = "undo" /\ pc' = "closing" /\ cur' = q
      /\ cur \in DOMAIN log /\ q \in DOMAIN log \cup {LogEOF}
      /\ log[cur].type \in Changes /\ InsertLogRec(CLR(cur))
      /\ r \in Rid /\ r[1] \in DOMAIN rel /\ DOMAIN rel' = DOMAIN rel
      /\ \A p \in DOMAIN rel' : rel'[p] = rel[p] \/ (rel'[p].era = era /\ rel'[p].lsn = NextLSN)
      /\ \A x \in Rid : Contents'[x] = After(H, q)[x]
      /\ \A x \in Rid : x # r => Contents'[x] = Contents[x]
      /\ Contents'[r] = log[cur].old
      /\ log[cur].type = "insert" => log[cur].old = Empty
      /\ log[cur].type = "update" => Contents[r] # Empty
      /\ Base(H, q) = Base(H, lastRec)
      /\ Follows(log, q, currXID)
      /\ undoXid = currXID
  BY <1>1, UndoneEdit
<1>3. PICK l : l = NextLSN
  OBVIOUS
<1>4. PICK c : c = Contents'
  OBVIOUS
<1>5. PICK o, d : o = Open(H, q) /\ d = Base(H, q)
  OBVIOUS
<1>6. PICK X : X = Extended(H, l, c, o, d)
  OBVIOUS
<1>7. PICK body : body = CLR(cur)
  OBVIOUS
<1>8. /\ InsertLogRec(body)
      /\ body.type = "clr" /\ body.rid = r /\ body.undonext = q
      /\ body.undo = "insert" => log[cur].type = "delete" /\ body.new = log[cur].old
      /\ body.undo = "delete" => log[cur].type = "insert"
      /\ body.undo = "update" => log[cur].type = "update"
  BY <1>1, <1>2, <1>7 DEF CLR, Changes
<1>9. /\ l \in Pos /\ l # LogEOF /\ l \notin DOMAIN log
      /\ lastRec' = l
      /\ log'[l].type = "clr" /\ log'[l].rid = r /\ log'[l].undonext = q
      /\ log'[l].new = body.new /\ log'[l].undo = body.undo
      /\ log'[l].xid = currXID /\ log'[l].prev = lastRec
      /\ \A k \in DOMAIN log : SameRecord(log'[k], log[k])
  BY <1>3, <1>8, AppendedLog
<1>10. lastRec \in DOMAIN log \cup {LogEOF} /\ lastRec # l /\ q # l
  BY <1>2, <1>9 DEF LogInv, LastNewest
<1>11. /\ After(X, l) = c /\ Open(X, l) = o /\ Base(X, l) = d
       /\ After(X, lastRec) = Contents
       /\ After(X, q) = After(H, q) /\ Open(X, q) = Open(H, q) /\ Base(X, q) = Base(H, q)
  <2>1. lastRec \in Lsns /\ l \in Lsns /\ q \in Lsns
    BY <1>2, <1>9, <1>10 DEF Lsns, TypeInv, LogOK, RecordOK
  <2> QED
    BY <1>6, <1>10, <2>1, ExtendedFacts, LastSettled
<1>12. Follows(log', q, currXID)
  BY <1>2, <1>9 DEF Follows, SameRecord
<1>13. Settled(H, q)
  BY <1>2 DEF Normal, NormalHistory, Means, StartMeans
<1>14. Means(log', X, l)
  <2>1. ClrMeans(log', X, l)
    BY <1>2, <1>4, <1>5, <1>8, <1>9, <1>11, <1>12 DEF ClrMeans
  <2>2. ChangeMeans(log', X, l) /\ AbortMeans(log', X, l) /\ EndMeans(log', X, l)
    BY <1>9 DEF ChangeMeans, AbortMeans, EndMeans, Changes
  <2>3. Settled(X, l)
    BY <1>2, <1>4, <1>5, <1>11, <1>13 DEF Settled
  <2> QED
    BY <2>1, <2>2, <2>3 DEF Means
<1>15. UNCHANGED <<diskVars, currXID, era, undoXid, stmt>> /\ inTxn' /\ goals \subseteq goals'
  BY <1>2 DEF UndoChange, txnVars, history
<1>16. d \in goals'
  BY <1>2, <1>5, <1>15, LastSettled
<1>17. NormalUndo(X)'
  <2>1. /\ cur' \in DOMAIN log' \cup {LogEOF}
    BY <1>2, <1>8, AppendedLog
  <2>2. \A x \in Rid : After(X, cur')[x] = Contents'[x]
    BY <1>2, <1>11
  <2>3. Base(X, cur') = Base(X, lastRec')
    BY <1>2, <1>5, <1>9, <1>11
  <2>4. Follows(log', cur', undoXid')
    BY <1>2, <1>12, <1>15
  <2>5. undoXid' = currXID'
    BY <1>2, <1>15
  <2> QED
    BY <2>1, <2>2, <2>3, <2>4, <2>5 DEF NormalUndo
<1>18. /\ DOMAIN rel \subseteq DOMAIN rel'
       /\ \A p \in DOMAIN rel' : \/ p \in DOMAIN rel /\ rel'[p] = rel[p]
                                 \/ rel'[p].era = era /\ rel'[p].lsn = l
       /\ pc # "wedged" /\ pc' \notin {"committing", "ending"}
       /\ body.rid \in Rid /\ body.rid[1] \in DOMAIN rel'
  BY <1>2, <1>3, <1>8
<1>19. Normal(X, b)'
  BY <1>2, <1>3, <1>4, <1>6, <1>8, <1>14, <1>15, <1>16, <1>17, <1>18, NormalLogging
<1> QED
  BY <1>19

(* What is on disk stays, and what was linked stays linked. *)
LEMMA DurableKept ==
  ASSUME TypeInv, LogInv, NormalChain, Write
  PROVE  /\ \A x : Durable(x) => Durable(x)'
         /\ NormalChain'
<1>1. UNCHANGED <<log, logPages, lastRec>>
  BY DEF Write, WriteLogHdr, WriteLogPage, WriteDataPage, WritePFHeader, WriteRMHeader, logVars
<1>2. CASE WriteLogHdr
  <2>1. UNCHANGED logDisk /\ logDiskPages' = logPages
    BY <1>2 DEF WriteLogHdr
  <2>2. LogOnDisk \subseteq LogOnDisk'
    BY <2>1 DEF LogOnDisk, NormalChain, LogInv, LogPlaced
  <2>3. ASSUME NEW x, Durable(x)
        PROVE  Durable(x)'
    BY <2>1, <2>2, <2>3 DEF Durable, LogEOF, LSN
  <2>4. NormalChain'
    BY <1>1, <2>1 DEF NormalChain, LogEOF, LSN
  <2> QED
    BY <2>3, <2>4
<1>3. ASSUME NEW pn \in 0 .. logPages - 1, WriteLogPage(pn)
      PROVE  /\ \A x : Durable(x) => Durable(x)'
             /\ NormalChain'
  <2>1. /\ logDiskPages' = logDiskPages
        /\ DOMAIN logDisk' = {k \in DOMAIN logDisk : k.pn # pn} \cup OnPage(pn)
        /\ \A l \in DOMAIN logDisk' : logDisk'[l] = IF l.pn = pn THEN log[l] ELSE logDisk[l]
    BY <1>3 DEF WriteLogPage
  <2>2. \A l \in DOMAIN logDisk : /\ l \in DOMAIN logDisk'
                                  /\ logDisk'[l] = logDisk[l] \/ logDisk'[l] = log[l]
    BY <2>1 DEF NormalChain, OnPage
  <2>3. ASSUME NEW x, Durable(x)
        PROVE  Durable(x)'
    <3> SUFFICES ASSUME x # LogEOF, NEW l \in UpTo(x)
                 PROVE  l \in LogOnDisk' /\ (Older(l, x) => logDisk'[l].next = Successor(l))
      BY DEF Durable, LogEOF, LSN
    <3>1. l \in LogOnDisk /\ (Older(l, x) => logDisk[l].next = Successor(l)) /\ l \in Pos
      BY <2>3 DEF Durable, UpTo
    <3>2. l \in DOMAIN logDisk /\ logDisk[l].next \in {LogEOF, log[l].next}
      BY <3>1 DEF LogOnDisk, NormalChain
    <3>3. l \in LogOnDisk'
      BY <2>1, <2>2, <3>1 DEF LogOnDisk
    <3> QED
      BY <2>2, <3>1, <3>2, <3>3, SuccessorOrder
  <2>4. \A l \in DOMAIN logDisk' : /\ l \in DOMAIN log
                                   /\ SameRecord(logDisk'[l], log[l])
                                   /\ logDisk'[l].next \in {LogEOF, log[l].next}
    BY <2>1 DEF NormalChain, OnPage, SameRecord
  <2>5. NormalChain'
    BY <1>1, <2>4 DEF NormalChain, LogEOF, LSN
  <2> QED
    BY <2>3, <2>5
<1>4. CASE UNCHANGED <<logDisk, logDiskPages>>
  BY <1>1, <1>4 DEF Durable, LogOnDisk, NormalChain, LogEOF, LSN
<1> QED
  BY <1>2, <1>3, <1>4 DEF Write, WriteDataPage, WritePFHeader, WriteRMHeader

LEMMA WriteNormal ==
  ASSUME TypeInv, LogInv, ClosedInv, NEW H, NEW b, Normal(H, b), Write
  PROVE  Normal(H, b)'
<1>1. /\ UNCHANGED <<log, logPages, lastRec, rel, relPages, inTxn, currXID, pc, stmt, cur, undoXid>>
      /\ UNCHANGED <<goals, era>>
  BY DEF Write, WriteLogHdr, WriteLogPage, WriteDataPage, WritePFHeader, WriteRMHeader,
         logVars, relVars, txnVars, ctlVars, history
<1>2. /\ NormalChain /\ NormalHistory(H) /\ NormalGoals(H, b) /\ NormalPages(H) /\ NormalUndo(H)
  BY DEF Normal
<1>3. (\A x : Durable(x) => Durable(x)') /\ NormalChain'
  BY <1>2, DurableKept
<1>4. Contents' = Contents
  BY <1>1 DEF Contents, ContentsOf
<1>5. NormalHistory(H)'
  BY <1>1, <1>2, <1>4 DEF NormalHistory
<1>6. NormalUndo(H)'
  BY <1>1, <1>2, <1>4 DEF NormalUndo, Undoing, Follows, LogEOF, LSN
<1>7. NormalGoals(H, b)'
  BY <1>1, <1>2, <1>3 DEF NormalGoals, Ended, Follows, LogEOF, LSN
<1>8. \A pg : StampOf(pg)' = IF pg.era = era THEN pg.lsn ELSE LogEOF
  BY <1>1 DEF StampOf, LogEOF, LSN
<1>9. \A p : StampOf(rel[p])' = StampOf(rel[p])
  BY <1>1 DEF StampOf, LogEOF, LSN
<1>10. NormalPages(H)'
  <2>1. CASE WriteLogHdr \/ \E pn \in 0 .. logPages - 1 : WriteLogPage(pn)
    <3>1. UNCHANGED <<relDisk, relDiskPages>>
      BY <2>1 DEF WriteLogHdr, WriteLogPage
    <3>2. \A p : StampOf(relDisk[p])' = StampOf(relDisk[p])
      BY <1>1, <3>1 DEF StampOf, LogEOF, LSN
    <3>3. \A p \in DOMAIN relDisk : Durable(StampOf(relDisk[p]))'
      <4> SUFFICES ASSUME NEW p \in DOMAIN relDisk
                   PROVE  Durable(StampOf(relDisk[p]))'
        OBVIOUS
      <4>1. PICK x : x = StampOf(relDisk[p])
        OBVIOUS
      <4>2. Durable(x)'
        BY <1>2, <1>3, <4>1 DEF NormalPages
      <4> QED
        BY <3>2, <4>1, <4>2 DEF Durable, LogEOF, LSN, LogOnDisk
    <3> QED
      BY <1>1, <1>2, <1>9, <3>1, <3>2, <3>3 DEF NormalPages, Was, LogEOF, LSN
  <2>2. ASSUME NEW p \in 1 .. MaxPages, WriteDataPage(p)
        PROVE  NormalPages(H)'
    <3>1. /\ p \in DOMAIN rel /\ LogForced /\ UNCHANGED <<relDiskPages, logDisk, logDiskPages>>
          /\ DOMAIN relDisk' = DOMAIN relDisk \cup {p}
          /\ relDisk'[p] = rel[p]
          /\ \A q \in DOMAIN relDisk : q # p => relDisk'[q] = relDisk[q]
      BY <2>2 DEF WriteDataPage, LogFirst
    <3>2. \A x : Durable(x) <=> Durable(x)'
      BY <3>1 DEF Durable, LogOnDisk, LogEOF, LSN
    <3>3. ASSUME NEW q \in DOMAIN relDisk'
          PROVE  /\ Was(H, StampOf(relDisk[q]), relDisk[q], q)'
                 /\ Durable(StampOf(relDisk[q]))'
                 /\ relDisk'[q].era # era => q < relDiskPages
      <4>1. PICK pg : pg = relDisk'[q]
        OBVIOUS
      <4>2. PICK x : x = StampOf(pg)
        OBVIOUS
      <4>3. StampOf(relDisk[q])' = x
        BY <1>1, <4>1, <4>2 DEF StampOf, LogEOF, LSN
      <4>4. Was(H, x, pg, q) /\ Durable(x) /\ (pg.era # era => q < relDiskPages)
        <5>1. CASE q = p
          <6>1. pg = rel[p] /\ x \in DOMAIN log \cup {LogEOF}
            BY <3>1, <4>1, <4>2, <5>1, StampsKnown
          <6>2. Durable(x)
            BY <1>2, <3>1, <6>1, ForcedDurable
          <6> QED
            BY <1>2, <3>1, <4>2, <5>1, <6>1, <6>2 DEF NormalPages
        <5>2. CASE q # p
          <6>1. pg = relDisk[q] /\ q \in DOMAIN relDisk
            BY <3>1, <4>1, <5>2
          <6> QED
            BY <1>2, <4>2, <6>1 DEF NormalPages
        <5> QED
          BY <5>1, <5>2
      <4>5. Durable(x)'
        BY <3>2, <4>4
      <4> QED
        BY <1>1, <3>1, <4>1, <4>3, <4>4, <4>5 DEF Was, Durable, LogEOF, LSN, LogOnDisk
    <3> QED
      BY <1>1, <1>2, <1>9, <3>1, <3>3 DEF NormalPages, Was, LogEOF, LSN
  <2>3. CASE WritePFHeader \/ WriteRMHeader
    <3>1. /\ UNCHANGED <<relDisk, logDisk, logDiskPages>>
          /\ relDiskPages' = relPages \/ UNCHANGED relDiskPages
      BY <2>3 DEF WritePFHeader, WriteRMHeader
    <3>2. \A p : StampOf(relDisk[p])' = StampOf(relDisk[p])
      BY <1>1, <3>1 DEF StampOf, LogEOF, LSN
    <3>3. \A p \in DOMAIN relDisk : Durable(StampOf(relDisk[p]))'
      BY <1>2, <3>1, <3>2 DEF NormalPages, Durable, LogOnDisk, LogEOF, LSN
    <3>4. \A p \in DOMAIN rel : p < relPages /\ p \in Int /\ relPages \in Int
      BY DEF ClosedInv, TypeInv, PagesOK, Scalars
    <3> QED
      BY <1>1, <1>2, <1>9, <3>1, <3>2, <3>3, <3>4 DEF NormalPages, Was, LogEOF, LSN
  <2> QED
    BY <2>1, <2>2, <2>3 DEF Write
<1> QED
  BY <1>3, <1>5, <1>6, <1>7, <1>10 DEF Normal

(* The history of a log with no records. *)
Blank(c) == [k \in Lsns |-> [contents |-> c, open |-> {}, base |-> c]]

LEMMA NewLogNormal ==
  ASSUME TypeInv, LogInv, ChainInv, ClosedInv, pc = "idle", NewLog, ~leftover'
  PROVE  ~Recovering' /\ \E X, c : Normal(X, c)'
<1>1. /\ log' = EmptyLog /\ logDisk' = EmptyLog /\ lastRec' = LogEOF /\ logPages' = 0
      /\ ~inTxn' /\ era' = era + 1 /\ goals' = {Contents}
      /\ UNCHANGED <<relDisk, relDiskPages, relDiskFirst, rel, relPages, relFirst, pc, stmt>>
      /\ \A p \in DOMAIN relDisk : p \in DOMAIN rel
  BY DEF NewLog, relVars, ctlVars
<1>2. ~Recovering'
  BY <1>1 DEF Recovering, ChainInv, PhaseKnown
<1>3. PICK c : c = Contents
  OBVIOUS
<1>4. PICK X : X = Blank(c)
  OBVIOUS
<1>5. After(X, LogEOF) = c /\ Open(X, LogEOF) = {} /\ Base(X, LogEOF) = c
  BY <1>4 DEF Blank, After, Open, Base, Lsns
<1>6. DOMAIN log' = {} /\ DOMAIN logDisk' = {}
  BY <1>1 DEF EmptyLog
<1>7. Contents' = Contents
  BY <1>1 DEF Contents, ContentsOf
<1>8. RelForced
  BY DEF ClosedInv, ForcedWhenClosed
<1>9. /\ \A p \in DOMAIN rel : rel[p].era # era'
      /\ \A p \in DOMAIN relDisk : p \in DOMAIN rel /\ relDisk[p] = rel[p]
      /\ \A p \in DOMAIN rel : p \in DOMAIN relDisk /\ p < relDiskPages
  <2>1. \A p \in DOMAIN rel : rel[p].era # era'
    BY <1>1 DEF LogInv, Stamps, Stamped
  <2>2. \A p \in DOMAIN relDisk : relDisk[p] = rel[p]
    BY <1>1, <1>8 DEF RelForced, RelClean
  <2>3. \A p \in DOMAIN rel : p < relDiskPages /\ p \in DOMAIN relDisk
    BY <1>8 DEF RelForced, ClosedInv, RelClean
  <2> QED
    BY <1>1, <2>1, <2>2, <2>3
<1>10. PagesOK
  BY DEF TypeInv
<1>11. \A p \in DOMAIN rel : StampOf(rel[p])' = LogEOF /\ StampOf(relDisk[p])' = LogEOF
  BY <1>1, <1>9 DEF StampOf, LogEOF, LSN
<1>12. \A p \in DOMAIN rel : Was(X, LogEOF, rel[p], p)
  <2>1. \A p \in DOMAIN rel, s \in Slots : rel[p].rec[s] = Contents[<<p, s>>]
    BY <1>10, ContentsAt
  <2> QED
    BY <1>3, <1>5, <2>1 DEF Was
<1>13. NormalChain'
  BY <1>1, <1>6 DEF NormalChain
<1>14. NormalHistory(X)'
  BY <1>1, <1>3, <1>5, <1>6, <1>7 DEF NormalHistory, StartMeans, Settled
<1>15. NormalGoals(X, LogEOF)'
  <2>1. Durable(LogEOF)' /\ Ended'
    BY <1>1 DEF Durable, Ended, LogEOF, LSN
  <2>2. \A l \in DOMAIN log' \cup {LogEOF} : Base(X, l) \in goals'
    BY <1>1, <1>3, <1>5, <1>6
  <2> QED
    BY <1>1, <2>1, <2>2 DEF NormalGoals, LogEOF, LSN
<1>16. NormalPages(X)'
  <2>1. \A p \in DOMAIN rel' : /\ Was(X, StampOf(rel[p]), rel[p], p)'
                               /\ rel'[p].era # era' => p < relDiskPages'
    BY <1>1, <1>9, <1>11, <1>12 DEF Was, LogEOF, LSN
  <2>2. \A p \in DOMAIN relDisk' : /\ Was(X, StampOf(relDisk[p]), relDisk[p], p)'
                                   /\ Durable(StampOf(relDisk[p]))'
                                   /\ relDisk'[p].era # era' => p < relDiskPages'
    <3> SUFFICES ASSUME NEW p \in DOMAIN relDisk
                 PROVE  /\ Was(X, StampOf(relDisk[p]), relDisk[p], p)'
                        /\ Durable(StampOf(relDisk[p]))'
                        /\ p < relDiskPages
      BY <1>1
    <3>1. p \in DOMAIN rel /\ relDisk[p] = rel[p] /\ StampOf(relDisk[p])' = LogEOF
      BY <1>9, <1>11
    <3>2. Was(X, LogEOF, relDisk[p], p)
      BY <1>12, <3>1
    <3>3. Was(X, StampOf(relDisk[p]), relDisk[p], p)'
      BY <1>1, <3>1, <3>2 DEF Was, LogEOF, LSN
    <3> QED
      BY <1>9, <3>1, <3>3 DEF Durable, LogEOF, LSN
  <2>3. \A x \in Rid : x[1] \notin DOMAIN relDisk \/ x[1] >= relDiskPages
                         => After(X, LogEOF)[x] = Empty
    <3> SUFFICES ASSUME NEW x \in Rid, x[1] \notin DOMAIN relDisk \/ x[1] >= relDiskPages
                 PROVE  Contents[x] = Empty
      BY <1>3, <1>5
    <3>1. x[1] \notin DOMAIN rel
      BY <1>9, <1>10 DEF PagesOK, TypeInv, Scalars
    <3> QED
      BY <1>10, <3>1, ContentsAt
  <2> QED
    BY <1>1, <1>6, <2>1, <2>2, <2>3 DEF NormalPages, LogEOF, LSN
<1>17. NormalUndo(X)'
  BY <1>1 DEF NormalUndo, Undoing
<1>18. Normal(X, LogEOF)'
  BY <1>13, <1>14, <1>15, <1>16, <1>17 DEF Normal
<1>19. PICK d : d = LogEOF
  OBVIOUS
<1>20. Normal(X, d)'
  BY <1>18, <1>19 DEF Normal, NormalGoals, LogEOF, LSN
<1> HIDE DEF Normal
<1> QED
  BY <1>2, <1>20

(* What a crash leaves of the log includes what is durable. *)
LEMMA DurableSurvives ==
  ASSUME NormalChain, TypeInv, NEW x, x \in Pos, Durable(x),
         log' = [l \in {l \in DOMAIN logDisk : l.pn < logDiskPages} |-> logDisk[l]],
         NEW z, Ends(z)'
  PROVE  ~Older(z, x)
<1>1. z \in Pos /\ log'[z].next = LogEOF
  BY DEF Ends, LogEOF, LSN
<1> SUFFICES ASSUME Older(z, x)
             PROVE  FALSE
  OBVIOUS
<1>2. z \in UpTo(x)
  BY <1>1, PosOrder DEF UpTo
<1>3. z \in LogOnDisk /\ logDisk[z].next = Successor(z)
  BY <1>2, PosOrder DEF Durable
<1>4. log'[z] = logDisk[z]
  BY <1>3 DEF LogOnDisk
<1> QED
  BY <1>1, <1>3, <1>4, SuccessorOrder

LEMMA CrashedChain ==
  ASSUME TypeInv, LogInv, NEW H, NEW b, Normal(H, b), Crash, NEW z, Ends(z)'
  PROVE  /\ \A l \in UpTo(z) : /\ Means(log', H, l) /\ LinksBack(log', l)
                               /\ l \in LogOnDisk' /\ logDisk'[l] = log'[l]
         /\ Base(H, z) \in goals'
<1>1. /\ log' = [l \in {l \in DOMAIN logDisk : l.pn < logDiskPages} |-> logDisk[l]]
      /\ UNCHANGED <<logDisk, logDiskPages, goals>>
  BY DEF Crash, diskVars
<1>2. /\ z \in Pos /\ z \in DOMAIN log' /\ log'[z].next = LogEOF
      /\ \A l \in Pos : Older(l, z) => l \in DOMAIN log' /\ log'[l].next = Successor(l)
  BY DEF Ends, Before, LogEOF, LSN
<1>3. NormalChain /\ NormalHistory(H) /\ NormalGoals(H, b)
  BY DEF Normal
<1>4. \A l \in DOMAIN log' : /\ l \in DOMAIN logDisk /\ l \in DOMAIN log /\ log'[l] = logDisk[l]
                             /\ SameRecord(log'[l], log[l])
                             /\ l \in LogOnDisk'
  BY <1>1, <1>3 DEF NormalChain, LogOnDisk
<1>5. \A l \in UpTo(z) : l \in Pos /\ l \in DOMAIN log'
  BY <1>2, PosOrder DEF UpTo
<1>6. ASSUME NEW l \in UpTo(z)
      PROVE  Means(log', H, l) /\ LinksBack(log', l)
  <2>1. /\ Means(log, H, l) /\ LinksBack(log, l) /\ SameRecord(log'[l], log[l])
        /\ l \in DOMAIN log /\ RecordOK(l, log[l]) /\ l \in Pos /\ ~Older(z, l)
    BY <1>3, <1>4, <1>5 DEF NormalHistory, NormalChain, TypeInv, LogOK, UpTo
  <2>2. \A k \in {log[l].prev, log[l].undonext} : k # LogEOF => k \in UpTo(z)
    <3>1. \A k \in BackFrom(l) : k # LogEOF => k \in Pos /\ Older(k, l)
      BY DEF BackFrom
    <3>2. log[l].prev \in BackFrom(l) /\ log[l].undonext \in BackFrom(l)
      BY <2>1 DEF RecordOK
    <3> QED
      BY <1>2, <2>1, <3>1, <3>2, PosOrder DEF UpTo
  <2>3. \A k \in {log[l].prev, log[l].undonext} :
          k # LogEOF => log'[k].type = log[k].type /\ log'[k].xid = log[k].xid
    BY <1>4, <1>5, <2>2 DEF SameRecord
  <2>4. Means(log', H, l)
    BY <2>1, <2>3, MeansSame
  <2> QED
    BY <2>1, <2>4 DEF LinksBack, SameRecord
<1>7. Base(H, z) \in goals'
  <2>1. ~Older(z, b)
    <3>1. CASE b = LogEOF
      BY <1>2, <3>1, PosOrder
    <3>2. CASE b # LogEOF
      <4>1. b \in Pos /\ Durable(b)
        BY <1>3, <3>2 DEF NormalGoals, TypeInv, LogOK, RecordOK
      <4> QED
        BY <1>1, <1>3, <4>1, DurableSurvives
    <3> QED
      BY <3>1, <3>2
  <2> QED
    BY <1>1, <1>2, <1>3, <1>4, <2>1 DEF NormalGoals
<1> QED
  BY <1>1, <1>4, <1>5, <1>6, <1>7

LEMMA FirstOfChain ==
  ASSUME NEW L, LinksBack(L, ZeroLSN)
  PROVE  L[ZeroLSN].prev = LogEOF
<1>1. \A k \in Pos : Successor(k) # ZeroLSN
  BY PosOrder, SuccessorOrder
<1> QED
  BY <1>1 DEF LinksBack

LEMMA NormalCrash ==
  ASSUME TypeInv, LogInv, ClosedInv, NEW H, NEW b, Normal(H, b), Crash, logDiskPages # 0
  PROVE  /\ Recovering' /\ RecoveryState'
         /\ \A z \in Pos : Ends(z)' => Recovery(H, z)'
<1>1. /\ log' = [l \in {l \in DOMAIN logDisk : l.pn < logDiskPages} |-> logDisk[l]]
      /\ rel' = [p \in {p \in DOMAIN relDisk : p < relDiskPages} |-> relDisk[p]]
      /\ relPages' = relDiskPages /\ logPages' = logDiskPages
      /\ lastRec' = LogEOF /\ ~inTxn'
      /\ pc' = "redo" /\ stmt' = "redo" /\ cur' = ZeroLSN
      /\ UNCHANGED <<logDisk, logDiskPages, relDisk, relDiskPages, goals, skipped, era>>
  BY DEF Crash, diskVars
<1>2. /\ NormalChain /\ NormalHistory(H) /\ NormalGoals(H, b) /\ NormalPages(H)
  BY DEF Normal
<1>3. DOMAIN rel' = {p \in DOMAIN relDisk : p < relDiskPages}
      /\ \A p \in DOMAIN rel' : p \in DOMAIN relDisk /\ rel'[p] = relDisk[p]
  BY <1>1
<1>4. Recovering'
  BY <1>1 DEF Recovering
<1>5. RecoveryState'
  <2>1. Before(cur)'
    BY <1>1, PosOrder DEF Before
  <2>2. Frozen'
    BY <1>1 DEF Frozen, LogOnDisk, LogClean
  <2> QED
    BY <1>1, <1>3, <2>1, <2>2 DEF RecoveryState
<1>6. ASSUME NEW z \in Pos, Ends(z)'
      PROVE  Recovery(H, z)'
  <2>1. /\ \A l \in UpTo(z) : /\ Means(log', H, l) /\ LinksBack(log', l)
                              /\ l \in LogOnDisk' /\ logDisk'[l] = log'[l]
        /\ Base(H, z) \in goals'
    BY <1>6, CrashedChain
  <2>2. StartMeans(H)
    BY <1>2 DEF NormalHistory
  <2>3. RecoveryChain(H, z)'
    BY <1>1, <2>1, <2>2 DEF RecoveryChain, LogEOF, LSN
  <2>4. ASSUME NEW p \in DOMAIN relDisk, p < relDiskPages
        PROVE  AtRest(H, z, relDisk[p], p)'
    <3>1. PICK x : x = StampOf(relDisk[p])
      OBVIOUS
    <3>2. Was(H, x, relDisk[p], p) /\ Durable(x)
      BY <1>2, <3>1 DEF NormalPages
    <3>3. relDisk[p].era # era => x = LogEOF
      BY <3>1 DEF StampOf
    <3>4. relDisk[p].era = era => /\ x = relDisk[p].lsn /\ x \in Pos
                                  /\ ~Older(z, relDisk[p].lsn)
      <4>1. relDisk[p].era = era => x = relDisk[p].lsn /\ x \in Pos
        BY <3>1 DEF StampOf, LogInv, StampLogged, TypeInv, LogOK, RecordOK
      <4>2. x \in Pos => ~Older(z, x)
        BY <1>1, <1>2, <1>6, <3>2, DurableSurvives
      <4> QED
        BY <4>1, <4>2
    <3>5. ASSUME NEW s \in Slots
          PROVE  /\ relDisk[p].era # era => relDisk[p].rec[s] = After(H, LogEOF)[<<p, s>>]
                 /\ relDisk[p].era = era => relDisk[p].rec[s] = After(H, relDisk[p].lsn)[<<p, s>>]
      BY <3>2, <3>3, <3>4 DEF Was
    <3> QED
      BY <1>1, <3>4, <3>5 DEF AtRest, Like, LogEOF, LSN
  <2>5. \A x \in Rid : x[1] \notin DOMAIN rel' => After(H, LogEOF)[x] = Empty
    <3>1. \A x \in Rid : x[1] \in Int /\ relDiskPages \in Int
      BY DEF Rid, TypeInv, Scalars
    <3> QED
      BY <1>2, <1>3, <3>1 DEF NormalPages
  <2>6. RecoveryPages(H, z)'
    BY <1>1, <1>3, <2>4, <2>5 DEF RecoveryPages, AtRest, LogEOF, LSN
  <2>7. log'[cur'].prev = LogEOF
    <3>1. ZeroLSN \in UpTo(z)
      BY PosOrder DEF UpTo
    <3> QED
      BY <1>1, <2>1, <3>1, FirstOfChain
  <2>8. \A p \in DOMAIN rel' : rel'[p].era = era => ~Older(rel'[p].lsn, ZeroLSN)
    BY <1>3, PosOrder DEF LogInv, StampLogged, TypeInv, LogOK, RecordOK
  <2>9. RecoveryRedo(H, z)'
    BY <1>1, <2>5, <2>7, <2>8 DEF RecoveryRedo, LogEOF, LSN
  <2>10. RecoveryUndo(H, z)' /\ RecoveryDone(H, z)'
    BY <1>1 DEF RecoveryUndo, RecoveryDone, Undoing
  <2> QED
    BY <2>3, <2>6, <2>9, <2>10 DEF Recovery
<1> QED
  BY <1>4, <1>5, <1>6

(* Before a page of the log is counted on disk nothing was written.  *)
LEMMA EmptyCrash ==
  ASSUME TypeInv, LogInv, ClosedInv, TypeInv', ClosedInv', NEW H, NEW b, Normal(H, b), Crash,
         logDiskPages = 0, ~leftover'
  PROVE  ~Recovering' /\ \E X, c : Normal(X, c)'
<1>1. /\ DOMAIN logDisk = {}
      /\ log' = [l \in {l \in DOMAIN logDisk : l.pn < logDiskPages} |-> logDisk[l]]
      /\ rel' = [p \in {p \in DOMAIN relDisk : p < relDiskPages} |-> relDisk[p]]
      /\ relPages' = relDiskPages /\ logPages' = 0
      /\ lastRec' = LogEOF /\ ~inTxn'
      /\ pc' = "idle" /\ stmt' = "none"
      /\ UNCHANGED <<logDisk, logDiskPages, relDisk, relDiskPages, goals, era>>
  BY DEF Crash, diskVars
<1>2. /\ NormalChain /\ NormalHistory(H) /\ NormalGoals(H, b) /\ NormalPages(H)
  BY DEF Normal
<1>3. ~Recovering'
  BY <1>1 DEF Recovering
<1>4. DOMAIN log' = {} /\ LogOnDisk = {}
  BY <1>1 DEF LogOnDisk
<1>5. \A x \in Pos : ~Durable(x)
  BY <1>4, PosOrder DEF Durable, UpTo
<1>6. \A p \in DOMAIN relDisk : StampOf(relDisk[p]) = LogEOF /\ relDisk[p].era # era
  BY <1>2, <1>5 DEF NormalPages, StampOf, LogInv, StampLogged, TypeInv, LogOK, RecordOK
<1>7. /\ \A p \in DOMAIN relDisk : /\ p < relDiskPages /\ Was(H, LogEOF, relDisk[p], p)
                                   /\ p \in DOMAIN rel' /\ rel'[p] = relDisk[p]
      /\ DOMAIN rel' = DOMAIN relDisk
  <2>1. \A p \in DOMAIN relDisk : p < relDiskPages /\ Was(H, LogEOF, relDisk[p], p)
    BY <1>2, <1>6 DEF NormalPages
  <2> QED
    BY <1>1, <2>1
<1>8. PagesOK'
  BY DEF TypeInv
<1>9. \A x \in Rid : Contents'[x] = After(H, LogEOF)[x]
  <2> SUFFICES ASSUME NEW x \in Rid
               PROVE  Contents'[x] = After(H, LogEOF)[x]
    OBVIOUS
  <2>1. x = <<x[1], x[2]>> /\ x[2] \in Slots
    BY <1>8, ContentsAtNext
  <2>2. CASE x[1] \in DOMAIN rel'
    <3>1. Contents'[x] = rel'[x[1]].rec[x[2]]
      BY <1>8, <2>2, ContentsAtNext
    <3>2. rel'[x[1]] = relDisk[x[1]] /\ Was(H, LogEOF, relDisk[x[1]], x[1])
      BY <1>7, <2>2
    <3> QED
      BY <2>1, <3>1, <3>2 DEF Was
  <2>3. CASE x[1] \notin DOMAIN rel'
    <3>1. Contents'[x] = Empty
      BY <1>8, <2>3, ContentsAtNext
    <3>2. After(H, LogEOF)[x] = Empty
      BY <1>2, <1>7, <2>3 DEF NormalPages
    <3> QED
      BY <3>1, <3>2
  <2> QED
    BY <2>2, <2>3
<1>10. PICK c : c = Contents'
  OBVIOUS
<1>11. PICK d : d = Base(H, LogEOF)
  OBVIOUS
<1>12. PICK X : X = [k \in Lsns |-> [contents |-> c, open |-> {}, base |-> d]]
  OBVIOUS
<1>13. After(X, LogEOF) = c /\ Open(X, LogEOF) = {} /\ Base(X, LogEOF) = d
  BY <1>12 DEF After, Open, Base, Lsns
<1>14. b = LogEOF
  BY <1>2, <1>5 DEF NormalGoals, TypeInv, LogOK, RecordOK
<1>15. d \in goals
  BY <1>2, <1>11, <1>14, PosOrder DEF NormalGoals
<1>16. \A x \in Rid : c[x] = d[x]
  BY <1>2, <1>9, <1>10, <1>11 DEF NormalHistory, StartMeans, Settled
<1>17. NormalChain'
  BY <1>1, <1>4 DEF NormalChain
<1>18. NormalHistory(X)'
  BY <1>1, <1>4, <1>10, <1>13, <1>16 DEF NormalHistory, StartMeans, Settled
<1>19. PICK e : e = LogEOF
  OBVIOUS
<1>20. NormalGoals(X, e)'
  <2>1. Durable(e)' /\ Ended'
    BY <1>1, <1>19 DEF Durable, Ended, LogEOF, LSN
  <2>2. \A l \in DOMAIN log' \cup {LogEOF} : Base(X, l) \in goals'
    BY <1>1, <1>4, <1>13, <1>15
  <2> QED
    BY <1>1, <1>19, <2>1, <2>2 DEF NormalGoals, LogEOF, LSN
<1>21. NormalPages(X)'
  <2>1. ASSUME NEW p \in DOMAIN relDisk
        PROVE  /\ Was(X, StampOf(relDisk[p]), relDisk[p], p)'
               /\ Was(X, StampOf(rel[p]), rel[p], p)'
               /\ Durable(StampOf(relDisk[p]))'
    <3>1. StampOf(relDisk[p])' = LogEOF /\ StampOf(rel[p])' = LogEOF
      BY <1>1, <1>6, <1>7 DEF StampOf, LogEOF, LSN
    <3>2. Was(X, LogEOF, relDisk[p], p)
      <4>1. \A s \in Slots : Contents'[<<p, s>>] = rel'[p].rec[s]
        BY <1>7, <1>8, ContentsAtNext
      <4> QED
        BY <1>7, <1>10, <1>13, <4>1 DEF Was
    <3> QED
      BY <1>1, <1>7, <3>1, <3>2 DEF Was, Durable, LogEOF, LSN
  <2>2. \A x \in Rid : x[1] \notin DOMAIN relDisk \/ x[1] >= relDiskPages
                         => After(X, LogEOF)[x] = Empty
    BY <1>2, <1>9, <1>10, <1>13 DEF NormalPages
  <2> QED
    BY <1>1, <1>4, <1>7, <2>1, <2>2 DEF NormalPages, LogEOF, LSN
<1>22. NormalUndo(X)'
  BY <1>1 DEF NormalUndo, Undoing
<1>23. Normal(X, e)'
  BY <1>17, <1>18, <1>20, <1>21, <1>22 DEF Normal
<1> HIDE DEF Normal
<1> QED
  BY <1>3, <1>23

LEMMA NormalStays ==
  ASSUME TypeInv, LogInv, ChainInv, ClosedInv, ~Recovering, [Next]_vars, ~Crash
  PROVE  ~Recovering'
<1>1. /\ inTxn \/ stmt \notin {"undo", "redo"}
      /\ lastRec # LogEOF \/ logPages = 0
  BY DEF Recovering
<1>2. pc # "redo" /\ (pc = "undo" => inTxn)
  BY <1>1 DEF ChainInv, PhaseKnown, ClosedInv
<1>3. \A body : InsertLogRec(body) => lastRec' # LogEOF
  BY AppendedLog
<1>4. ASSUME \E body : InsertLogRec(body), inTxn'
      PROVE  ~Recovering'
  BY <1>3, <1>4 DEF Recovering, LogEOF, LSN
<1>5. ASSUME UNCHANGED <<lastRec, logPages>>, inTxn' \/ stmt' \notin {"undo", "redo"}
      PROVE  ~Recovering'
  BY <1>1, <1>5 DEF Recovering, LogEOF, LSN
<1>6. CASE Write \/ UNCHANGED vars
  <2>1. UNCHANGED <<lastRec, logPages, inTxn, stmt>>
    BY <1>6 DEF Write, WriteLogHdr, WriteLogPage, WriteDataPage, WritePFHeader, WriteRMHeader,
                logVars, txnVars, ctlVars, vars
  <2> QED
    BY <1>1, <1>5, <2>1
<1>7. CASE BeginT \/ \E k \in Kinds : StartStatement(k)
  <2>1. UNCHANGED <<lastRec, logPages>> /\ inTxn'
    BY <1>7 DEF BeginT, StartStatement, BeginXact, logVars, TypeInv, Scalars
  <2> QED
    BY <1>5, <2>1
<1>8. ASSUME NEW v \in Val, InsertRec(v)
      PROVE  ~Recovering'
  <2>1. inTxn'
    BY <1>8 DEF InsertRec, txnVars, ClosedInv
  <2>2. (\E body : InsertLogRec(body)) \/ UNCHANGED <<lastRec, logPages>>
    BY <1>8 DEF InsertRec, InsertInNewPage, InsertInFreePage, InsertInFullPage, InsertInLostPage,
                logVars
  <2> QED
    BY <1>4, <1>5, <2>1, <2>2
<1>9. ASSUME NEW r \in Records, DeleteRec(r) \/ \E v \in Val : UpdateRec(r, v)
      PROVE  ~Recovering'
  <2>1. inTxn' /\ \E body : InsertLogRec(body)
    BY <1>9 DEF DeleteRec, UpdateRec, txnVars, ClosedInv
  <2> QED
    BY <1>4, <2>1
<1>10. CASE CommitT \/ AbortT \/ UndoEndAbort
  <2>1. inTxn' /\ \E body : InsertLogRec(body)
    BY <1>10 DEF CommitT, AbortT, UndoEndAbort, txnVars
  <2> QED
    BY <1>4, <2>1
<1>11. CASE UndoChange
  <2>1. inTxn' /\ InsertLogRec(CLR(cur))
    BY <1>2, <1>11 DEF UndoChange, txnVars
  <2>2. \E body : InsertLogRec(body)
    BY <2>1
  <2> QED
    BY <1>4, <2>1, <2>2
<1>12. CASE Checkpoint \/ CloseDb
  <2>1. CASE NewLog
    <3>1. lastRec' = LogEOF /\ logPages' = 0 /\ stmt' = stmt /\ pc = "idle"
      BY <1>12, <2>1 DEF NewLog, ctlVars, Checkpoint, CloseDb
    <3> QED
      BY <3>1 DEF Recovering, ChainInv, PhaseKnown
  <2>2. CASE CheckpointBreaks
    <3>1. UNCHANGED <<lastRec, logPages, inTxn, stmt>>
      BY <2>2 DEF CheckpointBreaks, logVars, txnVars
    <3> QED
      BY <1>1, <1>5, <3>1
  <2> QED
    BY <1>12, <2>1, <2>2 DEF Checkpoint, CheckpointResets, CloseDb
<1>13. CASE CommitDone \/ EndDone \/ AbortForced \/ CloseDone \/ CloseFile \/ UndoSkip
  <2>1. UNCHANGED <<lastRec, logPages>> /\ (inTxn' \/ stmt' \notin {"undo", "redo"})
    BY <1>1, <1>13 DEF CommitDone, EndDone, AbortForced, CloseDone, CloseFile, UndoSkip,
                       logVars, txnVars, ClosedInv, ChainInv, PhaseKnown
  <2> QED
    BY <1>5, <2>1
<1>14. CASE UndoEndRecover \/ RedoUnreadable \/ RedoControl \/ RedoPass \/ RedoApply
  BY <1>2, <1>14 DEF UndoEndRecover, RedoUnreadable, RedoControl, RedoPass, RedoApply
<1> QED
  BY <1>6, <1>7, <1>8, <1>9, <1>10, <1>11, <1>12, <1>13, <1>14 DEF Next, Request, Continue

LEMMA NormalStep ==
  ASSUME TypeInv, LogInv, ChainInv, ClosedInv, GoalsOK, TypeInv', ClosedInv',
         ~Recovering, [Next]_vars, ~Crash, ~NewLog, NEW H, NEW b, Normal(H, b)
  PROVE  \E X, c : Normal(X, c)'
<1> HIDE DEF Normal
<1>1. pc # "redo" /\ (pc = "undo" => inTxn)
  BY DEF Recovering, ChainInv, PhaseKnown, ClosedInv
<1>2. CASE Write
  <2>1. Normal(H, b)'
    BY <1>2, WriteNormal
  <2> QED
    BY <2>1
<1>3. CASE BeginT \/ \E k \in Kinds : StartStatement(k)
  BY <1>3, BeginNormal
<1>4. ASSUME NEW v \in Val, InsertRec(v)
      PROVE  \E X, c : Normal(X, c)'
  <2>1. CASE InsertInLostPage
    <3>1. UNCHANGED <<diskVars, txnVars, stmt, cur, undoXid, history>>
      BY <1>4 DEF InsertRec
    <3> QED
      BY <2>1, <3>1, QuietNormal
  <2>2. CASE ~InsertInLostPage
    BY <1>4, <2>2, InsertNormal
  <2> QED
    BY <2>1, <2>2
<1>5. ASSUME NEW r \in Records, DeleteRec(r) \/ \E v \in Val : UpdateRec(r, v)
      PROVE  \E X, c : Normal(X, c)'
  BY <1>5, DeleteOrUpdateNormal
<1>6. CASE CommitT \/ AbortT \/ UndoEndAbort
  BY <1>6, EndingNormal
<1>7. CASE UndoChange
  BY <1>7, UndoNormal
<1>8. CASE CommitDone \/ EndDone
  BY <1>8, OverNormal
<1>9. CASE \/ CloseFile \/ CloseDone \/ CheckpointBreaks \/ AbortForced \/ UndoSkip
           \/ UNCHANGED vars
  BY <1>9, QuietNormal
<1>10. ~(UndoEndRecover \/ RedoUnreadable \/ RedoControl \/ RedoPass \/ RedoApply)
  BY <1>1 DEF UndoEndRecover, RedoUnreadable, RedoControl, RedoPass, RedoApply
<1>11. ~CloseDb /\ (Checkpoint => CheckpointBreaks)
  BY DEF CloseDb, Checkpoint, CheckpointResets
<1> QED
  BY <1>2, <1>3, <1>4, <1>5, <1>6, <1>7, <1>8, <1>9, <1>10, <1>11 DEF Next, Request, Continue

-------------------------------------------------------------------------------
(* Restart. *)

LEMMA OneEnd ==
  ASSUME NEW y, NEW z, Ends(y), Ends(z)
  PROVE  y = z
<1>1. \A k, l : Ends(k) /\ Ends(l) => ~Older(k, l)
  BY SuccessorOrder DEF Ends, Before
<1>2. y \in Pos /\ z \in Pos
  BY DEF Ends
<1> QED
  BY <1>1, <1>2, PosOrder

(* What follows from the log and what holds of it alone. *)
LEMMA ChainSame ==
  ASSUME NEW H, NEW z, UNCHANGED <<log, logDisk, logDiskPages, goals>>, RecoveryChain(H, z),
         lastRec' \in {LogEOF, lastRec}
  PROVE  RecoveryChain(H, z)'
BY DEF RecoveryChain, LogOnDisk, LogEOF, LSN

LEMMA EndsSame ==
  ASSUME UNCHANGED log
  PROVE  /\ \A x : Before(x)' <=> Before(x)
         /\ \A z : Ends(z)' <=> Ends(z)
BY DEF Ends, Before, LogEOF, LSN

LEMMA PagesSame ==
  ASSUME NEW H, NEW z, UNCHANGED <<rel, relDisk, era>>, skipped \subseteq skipped',
         RecoveryPages(H, z)
  PROVE  RecoveryPages(H, z)'
BY DEF RecoveryPages, AtRest, LogEOF, LSN

LEMMA StateSame ==
  ASSUME RecoveryState, UNCHANGED <<log, logDisk, logDiskPages, logPages, relDisk, relPages,
                                    relDiskPages, inTxn>>,
         DOMAIN rel' = DOMAIN rel,
         Redoing' => Before(cur)', stmt' = "redo" => stmt = "redo",
         stmt' # "redo" => \E z \in Pos : Ends(z)
  PROVE  RecoveryState'
<1>1. Frozen' <=> Frozen
  BY DEF Frozen, LogOnDisk, LogClean
<1>2. (\E z \in Pos : Ends(z)') <=> \E z \in Pos : Ends(z)
  BY EndsSame
<1>3. (\E z \in Pos : Ends(z))' <=> \E z \in Pos : Ends(z)'
  OBVIOUS
<1> QED
  BY <1>1, <1>2, <1>3 DEF RecoveryState

LEMMA RestartQuiet ==
  ASSUME TypeInv, ChainInv, Recovering, RecoveryState, NEW H, \A z \in Pos : Ends(z) => Recovery(H, z),
         \/ CloseDone \/ CheckpointBreaks \/ RedoUnreadable \/ UNCHANGED vars
         \/ RedoApply /\ pc' = "failed" /\ UNCHANGED <<relVars, stmt, cur>>
  PROVE  /\ Recovering' /\ RecoveryState'
         /\ \A z \in Pos : Ends(z)' => Recovery(H, z)'
<1>1. /\ UNCHANGED <<log, logDisk, logDiskPages, lastRec, logPages, rel, relDisk, relPages,
                     relDiskPages, era, inTxn, goals, skipped, cur, undoXid>>
      /\ stmt' = stmt \/ (stmt' = "none" /\ stmt \notin {"undo", "redo"})
      /\ (Redoing' => Redoing) /\ (Undoing' => Undoing)
  <2>1. CASE CloseDone
    BY <2>1, KindsKnown DEF CloseDone, diskVars, logVars, relVars, txnVars, history, Redoing, Undoing
  <2>2. CASE CheckpointBreaks
    BY <2>2 DEF CheckpointBreaks, diskVars, logVars, relVars, txnVars, history, Redoing, Undoing
  <2>3. CASE RedoUnreadable
    BY <2>3 DEF RedoUnreadable, diskVars, logVars, relVars, txnVars, history, Redoing, Undoing
  <2>4. CASE UNCHANGED vars
    BY <2>4 DEF vars, Redoing, Undoing
  <2>5. CASE RedoApply /\ pc' = "failed" /\ UNCHANGED <<relVars, stmt, cur>>
    BY <2>5 DEF RedoApply, diskVars, logVars, relVars, txnVars, history, Redoing, Undoing, RedoAdvance
  <2> QED
    BY <2>1, <2>2, <2>3, <2>4, <2>5
<1>2. Recovering'
  BY <1>1 DEF Recovering, RecoveryState, LogEOF, LSN
<1>3. RecoveryState'
  <2>1. Before(cur)' <=> Before(cur)
    BY <1>1 DEF Before
  <2>2. Redoing' => Before(cur)'
    BY <1>1, <2>1 DEF RecoveryState
  <2>3. stmt' # "redo" => \E z \in Pos : Ends(z)
    BY <1>1 DEF RecoveryState
  <2> QED
    BY <1>1, <2>2, <2>3, StateSame
<1>4. ASSUME NEW z \in Pos, Ends(z)'
      PROVE  Recovery(H, z)'
  <2>1. Recovery(H, z)
    BY <1>1, <1>4, EndsSame
  <2>2. RecoveryChain(H, z)' /\ RecoveryPages(H, z)'
    BY <1>1, <2>1, ChainSame, PagesSame DEF Recovery
  <2>3. RecoveryRedo(H, z)'
    BY <1>1, <2>1 DEF Recovery, RecoveryRedo, LogEOF, LSN
  <2>4. RecoveryUndo(H, z)' /\ RecoveryDone(H, z)'
    <3>1. Contents' = Contents
      BY <1>1 DEF Contents, ContentsOf
    <3> QED
      BY <1>1, <2>1, <3>1 DEF Recovery, RecoveryUndo, RecoveryDone, Follows, LogEOF, LSN
  <2> QED
    BY <2>2, <2>3, <2>4 DEF Recovery
<1> QED
  BY <1>2, <1>3, <1>4

(* Where Undo is, in recovery. *)
LEMMA RestartUndoAt ==
  ASSUME TypeInv, pc = "undo", NEW H, NEW z, Ends(z), Recovery(H, z), ~UndoStops(cur)
  PROVE  /\ cur \in Pos /\ cur \in UpTo(z) /\ cur \in DOMAIN log /\ log[cur].xid = undoXid
         /\ Means(log, H, cur)
         /\ \A k \in {log[cur].prev, log[cur].undonext} : k \in UpTo(z) \cup {LogEOF} /\ k # cur
<1>1. cur \in UpTo(z) /\ log[cur].xid = undoXid
  BY DEF Recovery, RecoveryUndo, Undoing, UndoStops
<1>2. cur \in Pos /\ ~Older(z, cur) /\ z \in Pos
  BY <1>1 DEF UpTo, Ends
<1>3. cur \in DOMAIN log
  BY <1>2, PosOrder DEF Ends, Before
<1>4. \A k \in BackFrom(cur) : k \in UpTo(z) \cup {LogEOF} /\ k # cur
  BY <1>2, PosOrder DEF BackFrom, UpTo
<1>5. log[cur].prev \in BackFrom(cur) /\ log[cur].undonext \in BackFrom(cur)
  BY <1>3 DEF TypeInv, LogOK, RecordOK
<1> QED
  BY <1>1, <1>2, <1>3, <1>4, <1>5 DEF Recovery, RecoveryChain

LEMMA RestartUndoSkip ==
  ASSUME TypeInv, ChainInv, Recovering, RecoveryState, NEW H,
         \A z \in Pos : Ends(z) => Recovery(H, z), UndoSkip
  PROVE  /\ Recovering' /\ RecoveryState'
         /\ \A z \in Pos : Ends(z)' => Recovery(H, z)'
<1>1. /\ UNCHANGED <<log, logDisk, logDiskPages, lastRec, logPages, rel, relDisk, relPages,
                     relDiskPages, era, inTxn, goals, skipped, undoXid, stmt, pc>>
      /\ pc = "undo" /\ ~UndoStops(cur) /\ log[cur].type \in {"abort", "clr"}
      /\ cur' = IF log[cur].type = "clr" THEN log[cur].undonext ELSE log[cur].prev
      /\ stmt = "undo"
  BY DEF UndoSkip, diskVars, logVars, relVars, txnVars, history, ChainInv, PhaseKnown
<1>2. Recovering'
  BY <1>1 DEF Recovering, LogEOF, LSN
<1>3. RecoveryState'
  <2>1. ~Redoing'
    BY <1>1 DEF Redoing
  <2>2. \E z \in Pos : Ends(z)
    BY <1>1 DEF RecoveryState
  <2> QED
    BY <1>1, <2>1, <2>2, StateSame
<1>4. ASSUME NEW z \in Pos, Ends(z)'
      PROVE  Recovery(H, z)'
  <2>1. Recovery(H, z) /\ Ends(z)
    BY <1>1, <1>4, EndsSame
  <2>2. RecoveryChain(H, z)' /\ RecoveryPages(H, z)'
    BY <1>1, <2>1, ChainSame, PagesSame DEF Recovery
  <2>3. RecoveryRedo(H, z)' /\ RecoveryDone(H, z)'
    BY <1>1 DEF RecoveryRedo, RecoveryDone, Redoing
  <2>4. Contents' = Contents
    BY <1>1 DEF Contents, ContentsOf
  <2>5. /\ Means(log, H, cur) /\ log[cur].xid = undoXid
        /\ cur' \in UpTo(z) \cup {LogEOF}
    BY <1>1, <2>1, RestartUndoAt
  <2>6. /\ Open(H, cur') = Open(H, cur) /\ Base(H, cur') = Base(H, cur)
        /\ Follows(log, cur', undoXid)
    BY <1>1, <2>5 DEF Means, ClrMeans, AbortMeans
  <2>7. /\ Open(H, cur) \subseteq Open(H, z) /\ Base(H, cur) = Base(H, z)
        /\ \A x \in Rid \ skipped : x \in Open(H, cur) \/ Like(Contents[x], Base(H, z)[x])
    BY <1>1, <2>1 DEF Recovery, RecoveryUndo, Undoing
  <2>8. RecoveryUndo(H, z)'
    BY <1>1, <2>4, <2>5, <2>6, <2>7 DEF RecoveryUndo, Follows, LogEOF, LSN
  <2> QED
    BY <2>2, <2>3, <2>8 DEF Recovery
<1> QED
  BY <1>2, <1>3, <1>4

LEMMA RestartUndoEnd ==
  ASSUME TypeInv, ChainInv, Recovering, RecoveryState, NEW H,
         \A z \in Pos : Ends(z) => Recovery(H, z), UndoEndRecover
  PROVE  /\ Recovering' /\ RecoveryState'
         /\ \A z \in Pos : Ends(z)' => Recovery(H, z)'
<1>1. /\ UNCHANGED <<log, logDisk, logDiskPages, logPages, rel, relDisk, relPages,
                     relDiskPages, era, inTxn, goals, skipped>>
      /\ pc = "undo" /\ UndoStops(cur) /\ lastRec' = LogEOF
      /\ pc' = "idle" /\ stmt' = "none"
  BY DEF UndoEndRecover, diskVars, relVars, history
<1>2. Recovering'
  BY <1>1 DEF Recovering, RecoveryState, LogEOF, LSN
<1>3. RecoveryState'
  <2>1. ~Redoing'
    BY <1>1 DEF Redoing
  <2>2. \E z \in Pos : Ends(z)
    BY <1>1 DEF RecoveryState, ChainInv, PhaseKnown
  <2> QED
    BY <1>1, <2>1, <2>2, StateSame
<1>4. ASSUME NEW z \in Pos, Ends(z)'
      PROVE  Recovery(H, z)'
  <2>1. Recovery(H, z) /\ Ends(z)
    BY <1>1, <1>4, EndsSame
  <2>2. RecoveryChain(H, z)' /\ RecoveryPages(H, z)'
    BY <1>1, <2>1, ChainSame, PagesSame DEF Recovery
  <2>3. RecoveryRedo(H, z)' /\ RecoveryUndo(H, z)'
    BY <1>1 DEF RecoveryRedo, RecoveryUndo, Redoing, Undoing
  <2>4. Contents' = Contents
    BY <1>1 DEF Contents, ContentsOf
  <2>5. /\ cur \in UpTo(z) \cup {LogEOF}
        /\ Follows(log, cur, undoXid)
        /\ \A x \in Rid \ skipped : x \in Open(H, cur) \/ Like(Contents[x], Base(H, z)[x])
    BY <1>1, <2>1 DEF Recovery, RecoveryUndo, Undoing
  <2>6. Open(H, cur) = {}
    <3>1. CASE cur = LogEOF
      BY <2>1, <3>1 DEF Recovery, RecoveryChain, StartMeans
    <3>2. CASE cur # LogEOF
      <4>1. log[cur].type \in {"commit", "end"} /\ Means(log, H, cur)
        BY <1>1, <2>1, <2>5, <3>2 DEF UndoStops, Follows, Recovery, RecoveryChain
      <4> QED
        BY <4>1 DEF Means, EndMeans
    <3> QED
      BY <3>1, <3>2
  <2>7. RecoveryDone(H, z)'
    BY <1>1, <2>4, <2>5, <2>6 DEF RecoveryDone
  <2> QED
    BY <2>2, <2>3, <2>7 DEF Recovery
<1> QED
  BY <1>2, <1>3, <1>4

(* A compensation record logged by recovery, which is past the end of the  *)
(* log it found.                                                           *)
LEMMA LoggedPastEnd ==
  ASSUME TypeInv, LogInv, NEW body, InsertLogRec(body), UNCHANGED <<logDisk, logDiskPages, goals>>,
         NEW z, Ends(z), NEW H, RecoveryChain(H, z)
  PROVE  /\ Ends(z)' /\ RecoveryChain(H, z)'
         /\ \A l \in UpTo(z) : log'[l] = log[l]
         /\ NextLSN \in Pos /\ Older(z, NextLSN) /\ lastRec' = NextLSN
<1>1. /\ NextLSN \in Pos /\ NextLSN # LogEOF
      /\ \A k \in DOMAIN log : k \in Pos /\ Older(k, NextLSN)
      /\ DOMAIN log' = DOMAIN log \cup {NextLSN}
      /\ lastRec' = NextLSN
      /\ \A k \in DOMAIN log : k # lastRec => log'[k] = log[k]
  BY AppendedLog
<1>2. z \in Pos /\ z \in DOMAIN log /\ Before(z) /\ log[z].next = LogEOF
  BY DEF Ends
<1>3. \A l \in UpTo(z) : /\ l \in DOMAIN log /\ l # lastRec /\ l \in Pos /\ ~Older(z, l)
  BY <1>2, PosOrder DEF UpTo, Before, RecoveryChain
<1>4. \A l \in UpTo(z) : log'[l] = log[l]
  BY <1>1, <1>3
<1>5. z \in UpTo(z) /\ \A l \in Pos : Older(l, z) => l \in UpTo(z)
  BY <1>2, PosOrder DEF UpTo
<1>6. Ends(z)'
  BY <1>1, <1>2, <1>4, <1>5 DEF Ends, Before, LogEOF, LSN
<1>7. ASSUME NEW l \in UpTo(z)
      PROVE  Means(log', H, l) /\ LinksBack(log', l)
  <2>1. Means(log, H, l) /\ LinksBack(log, l) /\ log'[l] = log[l] /\ RecordOK(l, log[l])
    BY <1>3, <1>4 DEF RecoveryChain, TypeInv, LogOK
  <2>2. \A k \in BackFrom(l) : k # LogEOF => k \in UpTo(z)
    BY <1>2, <1>3, PosOrder DEF BackFrom, UpTo
  <2>3. \A k \in {log[l].prev, log[l].undonext} :
          k # LogEOF => log'[k].type = log[k].type /\ log'[k].xid = log[k].xid
    BY <1>4, <2>1, <2>2 DEF RecordOK
  <2>4. SameRecord(log'[l], log[l])
    BY <2>1 DEF SameRecord
  <2>5. Means(log', H, l)
    BY <2>1, <2>3, <2>4, MeansSame
  <2> QED
    BY <2>1, <2>5 DEF LinksBack
<1>8. RecoveryChain(H, z)'
  <2>1. \A l \in UpTo(z) : l \in LogOnDisk' /\ logDisk'[l] = log'[l]
    BY <1>4 DEF RecoveryChain, LogOnDisk
  <2> QED
    BY <1>1, <1>2, <1>7, <2>1 DEF RecoveryChain
<1> QED
  BY <1>1, <1>2, <1>4, <1>6, <1>8

(* What Undo puts back belongs to a transaction that was cut short. *)
LEMMA RestartUndoChange ==
  ASSUME TypeInv, LogInv, ChainInv, ClosedInv, TypeInv', ClosedInv', Recovering, RecoveryState,
         NEW H, \A z \in Pos : Ends(z) => Recovery(H, z), UndoChange
  PROVE  /\ Recovering' /\ RecoveryState'
         /\ \A z \in Pos : Ends(z)' => Recovery(H, z)'
<1>1. /\ UNCHANGED <<logDisk, logDiskPages, relDisk, relDiskPages, era, inTxn, goals, skipped,
                     undoXid, stmt>>
      /\ pc = "undo" /\ ~UndoStops(cur) /\ log[cur].type \in Changes
      /\ stmt = "undo" /\ ~inTxn /\ InsertLogRec(CLR(cur))
  BY DEF UndoChange, diskVars, txnVars, history, ChainInv, PhaseKnown, RecoveryState
<1> pc' \in {"closing", "failed", "wedged"}
  BY DEF UndoChange, GiveUp
<1>2. PICK body : body = CLR(cur)
  OBVIOUS
<1>3. InsertLogRec(body)
  BY <1>1, <1>2
<1>4. PICK y \in Pos : Ends(y)
  BY <1>1 DEF RecoveryState
<1>5. Recovery(H, y) /\ RecoveryChain(H, y)
  BY <1>4 DEF Recovery
<1>6. Ends(y)'
  BY <1>1, <1>3, <1>4, <1>5, LoggedPastEnd
<1>7. UNCHANGED <<relPages>> /\ DOMAIN rel' = DOMAIN rel
  BY DEF UndoChange, UndoPage, StampOnly, relVars
<1>8. Recovering'
  BY <1>1 DEF Recovering
<1>9. RecoveryState'
  <2>1. logPages' # 0
    BY <1>3 DEF InsertLogRec, RecoveryState, TypeInv, LogInv, LogPlaced
  <2>2. (\E z \in Pos : Ends(z))'
    BY <1>6
  <2>3. ~Redoing'
    BY <1>1 DEF Redoing
  <2> QED
    BY <1>1, <1>7, <2>1, <2>2, <2>3 DEF RecoveryState
<1>10. ASSUME NEW z \in Pos, Ends(z)'
       PROVE  Recovery(H, z)'
  <2>1. z = y
    <3>1. \A k, l : Ends(k)' /\ Ends(l)' => ~Older(k, l)
      BY SuccessorOrder DEF Ends, Before
    <3> QED
      BY <1>6, <1>10, <3>1, PosOrder
  <2>2. Ends(z) /\ Recovery(H, z) /\ RecoveryChain(H, z)
    BY <1>4, <1>5, <2>1
  <2>3. PICK l : l = NextLSN
    OBVIOUS
  <2>4. /\ RecoveryChain(H, z)' /\ Older(z, l) /\ l \in Pos
        /\ \A k \in UpTo(z) : log'[k] = log[k]
    BY <1>1, <1>3, <2>2, <2>3, LoggedPastEnd
  <2>5. RecoveryRedo(H, z)' /\ RecoveryDone(H, z)'
    BY <1>1 DEF RecoveryRedo, RecoveryDone, Redoing
  <2>6. /\ cur \in UpTo(z) /\ cur \in DOMAIN log /\ log[cur].xid = undoXid
        /\ ChangeMeans(log, H, cur)
        /\ log[cur].prev \in UpTo(z) \cup {LogEOF}
    BY <1>1, <2>2, RestartUndoAt DEF Means
  <2>7. /\ Open(H, cur) \subseteq Open(H, z) /\ Base(H, cur) = Base(H, z)
        /\ \A x \in Rid \ skipped : x \in Open(H, cur) \/ Like(Contents[x], Base(H, z)[x])
    BY <1>1, <2>2 DEF Recovery, RecoveryUndo, Undoing
  <2>8. PICK q, r : q = log[cur].prev /\ r = log[cur].rid
    OBVIOUS
  <2>9. /\ Open(H, cur) = Open(H, q) \cup {r} /\ Base(H, cur) = Base(H, q)
        /\ log[cur].type = "insert" => log[cur].old = Empty
        /\ r \in Rid => log[cur].old = After(H, q)[r]
        /\ Follows(log, q, undoXid)
    BY <1>1, <2>6, <2>8 DEF ChangeMeans
  <2>10. CASE ~CanUndo(cur)
    <3>1. StampOnly(r[1]) /\ UNCHANGED relPages /\ pc' = "failed"
      BY <1>1, <2>8, <2>10 DEF UndoChange, StampOnly, GiveUp
    <3>2. RecoveryPages(H, z)'
      <4>1. CASE ~Readable(r[1])
        <5>1. rel' = rel
          BY <3>1, <4>1 DEF StampOnly
        <5> QED
          BY <1>1, <2>2, <3>1, <5>1, PagesSame DEF Recovery
      <4>2. CASE Readable(r[1])
        <5>1. PICK p : p = r[1]
          OBVIOUS
        <5>2. p \in DOMAIN rel /\ rel' = [rel EXCEPT ![p] = Stamp(rel[p])]
          BY <3>1, <4>2, <5>1 DEF StampOnly, Readable
        <5>3. r \in Rid /\ log[cur].type = "update" /\ Contents[r] = Empty
          BY <2>6, <2>8, <2>10, <4>2, RecordPlace
             DEF CanUndo, TypeInv, LogOK, RecordOK, LogRec
        <5>4. rel[p] \in Page
          BY <5>2 DEF TypeInv, PagesOK
        <5>5. rel'[p].rec = rel[p].rec /\ rel'[p].era = era /\ rel'[p].lsn = l
          BY <2>3, <5>2, <5>4 DEF Stamp, Page
        <5>6. \A t \in Slots : <<p, t>> \in Rid /\ Contents[<<p, t>>] = rel[p].rec[t]
          BY <5>2, ContentsAt DEF TypeInv
        <5>7. \A t \in Slots : <<p, t>> \notin skipped =>
                <<p, t>> \in Open(H, z) \/ Like(rel'[p].rec[t], Base(H, z)[<<p, t>>])
          BY <2>7, <5>5, <5>6
        <5>8. AtRest(H, z, rel[p], p)'
          BY <1>1, <2>4, <5>5, <5>7 DEF AtRest
        <5>9. /\ \A k \in DOMAIN rel : AtRest(H, z, rel[k], k) /\ AtRest(H, z, relDisk[k], k)
              /\ \A x \in Rid : x[1] \notin DOMAIN rel => After(H, LogEOF)[x] = Empty
          BY <2>2 DEF Recovery, RecoveryPages
        <5>10. \A k \in DOMAIN rel : AtRest(H, z, relDisk[k], k)'
          BY <1>1, <5>9 DEF AtRest, LogEOF, LSN
        <5>11. \A k \in DOMAIN rel : k # p => AtRest(H, z, rel[k], k)'
          BY <1>1, <5>2, <5>9 DEF AtRest, LogEOF, LSN
        <5> QED
          BY <1>7, <5>8, <5>9, <5>10, <5>11 DEF RecoveryPages, LogEOF, LSN
      <4> QED
        BY <4>1, <4>2
    <3>3. RecoveryUndo(H, z)'
      BY <3>1 DEF RecoveryUndo, Undoing
    <3> QED
      BY <2>4, <2>5, <3>2, <3>3 DEF Recovery
  <2>11. CASE CanUndo(cur)
    <3>1. UndoPage(cur) /\ cur' = q
      BY <2>8, <2>11 DEF UndoChange
    <3>2. r \in Rid /\ r[1] \in DOMAIN rel
      BY <2>6, <2>8, <2>11, RecordPlace DEF CanUndo, TypeInv, LogOK, RecordOK, LogRec
    <3>3. PICK p \in DOMAIN rel, s \in Slots : r = <<p, s>> /\ r[1] = p /\ r[2] = s
      BY <3>2, ContentsAt DEF TypeInv
    <3>4. PICK w : w = log[cur].old
      OBVIOUS
    <3>5. Edits(p, s, w)
      <4>1. PageOK(rel[p])
        BY <1>1, NoneHeld
      <4>2. CASE log[cur].type = "insert"
        <5>1. rel' = [rel EXCEPT ![p] = Stamp(DeleteFrom(rel[p], s, relFirst))]
          BY <2>8, <3>1, <3>3, <4>2 DEF UndoPage
        <5>2. w = Empty
          BY <2>9, <3>4, <4>2
        <5> QED
          BY <4>1, <5>1, <5>2, EditedSlots DEF Edits
      <4>3. CASE log[cur].type # "insert"
        <5>1. rel' = [rel EXCEPT ![p] = Stamp(PutAt(rel[p], s, w))]
          BY <2>8, <3>1, <3>3, <3>4, <4>3 DEF UndoPage
        <5> QED
          BY <4>1, <5>1, EditedSlots DEF Edits
      <4> QED
        BY <4>2, <4>3
    <3>6. PagesOK /\ PagesOK'
      BY DEF TypeInv
    <3>7. \A x \in Rid : Contents'[x] = IF x = <<p, s>> THEN w ELSE Contents[x]
      BY <3>5, <3>6, EditedContents
    <3>8. \A x \in Rid : Contents'[x] = IF x = r THEN w ELSE Contents[x]
      BY <3>3, <3>7
    <3>9. AtRest(H, z, rel[p], p)'
      <4>1. rel'[p].era = era /\ rel'[p].lsn = l
        BY <2>3, <3>5 DEF Edits
      <4>2. \A t \in Slots : <<p, t>> \in Rid /\ Contents'[<<p, t>>] = rel'[p].rec[t]
        BY <1>7, <3>6, ContentsAtNext
      <4>3. \A x \in Rid \ skipped : x \in Open(H, z) \/ Like(Contents'[x], Base(H, z)[x])
        BY <2>7, <2>9, <3>8
      <4>4. ASSUME NEW t \in Slots, <<p, t>> \notin skipped
            PROVE  <<p, t>> \in Open(H, z) \/ Like(rel'[p].rec[t], Base(H, z)[<<p, t>>])
        <5>1. PICK x : x = <<p, t>>
          OBVIOUS
        <5>2. x \in Rid \ skipped /\ Contents'[x] = rel'[p].rec[t]
          BY <4>2, <4>4, <5>1
        <5> QED
          BY <4>3, <5>1, <5>2
      <4>5. Older(z, rel'[p].lsn)
        BY <2>4, <4>1
      <4> QED
        BY <1>1, <4>1, <4>4, <4>5 DEF AtRest
    <3>10. RecoveryPages(H, z)'
      <4>1. /\ \A k \in DOMAIN rel : AtRest(H, z, rel[k], k) /\ AtRest(H, z, relDisk[k], k)
            /\ \A x \in Rid : x[1] \notin DOMAIN rel => After(H, LogEOF)[x] = Empty
        BY <2>2 DEF Recovery, RecoveryPages
      <4>2. \A k \in DOMAIN rel : AtRest(H, z, relDisk[k], k)'
        BY <1>1, <4>1 DEF AtRest, LogEOF, LSN
      <4>3. \A k \in DOMAIN rel : k # p => AtRest(H, z, rel[k], k)'
        BY <1>1, <3>5, <4>1 DEF AtRest, LogEOF, LSN, Edits
      <4> QED
        BY <1>7, <3>9, <4>1, <4>2, <4>3 DEF RecoveryPages, LogEOF, LSN
    <3>11. Settled(H, q)
      BY <2>2, <2>6, <2>8 DEF RecoveryChain, StartMeans, Means
    <3>12. ASSUME NEW x \in Rid \ skipped, x \notin Open(H, q)
           PROVE  Like(Contents'[x], Base(H, z)[x])
      <4>1. CASE x = r
        BY <2>7, <2>9, <3>2, <3>4, <3>8, <3>11, <3>12, <4>1 DEF Settled, Like
      <4>2. CASE x # r
        BY <2>7, <2>9, <3>8, <3>12, <4>2
      <4> QED
        BY <4>1, <4>2
    <3>13. Follows(log', q, undoXid)
      BY <2>4, <2>6, <2>8, <2>9 DEF Follows
    <3>14. RecoveryUndo(H, z)'
      BY <1>1, <2>6, <2>7, <2>8, <2>9, <3>1, <3>12, <3>13 DEF RecoveryUndo, LogEOF, LSN
    <3> QED
      BY <2>4, <2>5, <3>10, <3>14 DEF Recovery
  <2> QED
    BY <2>10, <2>11
<1> QED
  BY <1>8, <1>9, <1>10

(* Redo has repeated the log up to the record at k, except on pages that   *)
(* have what was logged after it.                                          *)
RedoneTo(H, k) ==
  \A x \in Rid \ skipped :
    /\ x[1] \notin DOMAIN rel => After(H, k)[x] = Empty
    /\ x[1] \in DOMAIN rel /\ rel[x[1]].era # era => After(H, k)[x] = After(H, LogEOF)[x]
    /\ x[1] \in DOMAIN rel /\ rel[x[1]].era = era /\ ~Older(k, rel[x[1]].lsn)
         => After(H, k)[x] = After(H, rel[x[1]].lsn)[x]

(* What the relation holds then, when the record is the last. *)
LEMMA RedoneAll ==
  ASSUME PagesOK', ClosedInv', NEW H, NEW z, RecoveryPages(H, z)', RedoneTo(H, z)', Settled(H, z)
  PROVE  \A x \in Rid \ skipped' : x \in Open(H, z) \/ Like(Contents'[x], Base(H, z)[x])
<1> SUFFICES ASSUME NEW x \in Rid \ skipped', x \notin Open(H, z)
             PROVE  Like(Contents'[x], Base(H, z)[x])
  OBVIOUS
<1>1. After(H, z)[x] = Base(H, z)[x]
  BY DEF Settled
<1>2. x = <<x[1], x[2]>> /\ x[2] \in Slots
  BY ContentsAtNext
<1>3. CASE x[1] \notin DOMAIN rel'
  <2>1. Contents'[x] = Empty
    BY <1>3, ContentsAtNext
  <2> QED
    BY <1>1, <1>3, <2>1 DEF RedoneTo, Like
<1>4. CASE x[1] \in DOMAIN rel'
  <2>1. Contents'[x] = rel'[x[1]].rec[x[2]]
    BY <1>4, ContentsAtNext
  <2>2. PICK p, s : p = x[1] /\ s = x[2]
    OBVIOUS
  <2>3. PICK pg : pg = rel'[p]
    OBVIOUS
  <2>4. x = <<p, s>> /\ s \in Slots /\ <<p, s>> \notin skipped' /\ p \in DOMAIN rel'
    BY <1>2, <1>4, <2>2
  <2>5. AtRest(H, z, rel[p], p)'
    BY <2>4 DEF RecoveryPages
  <2>6. /\ pg.era # era' => pg.rec[s] = After(H, LogEOF)[x]
        /\ pg.era = era' /\ ~Older(z, pg.lsn) => Like(pg.rec[s], After(H, pg.lsn)[x])
        /\ pg.era = era' /\ Older(z, pg.lsn) => Like(pg.rec[s], Base(H, z)[x])
    BY <2>3, <2>4, <2>5 DEF AtRest, LogEOF, LSN
  <2>7. /\ pg.era # era' => After(H, z)[x] = After(H, LogEOF)[x]
        /\ pg.era = era' /\ ~Older(z, pg.lsn) => After(H, z)[x] = After(H, pg.lsn)[x]
    BY <2>2, <2>3, <2>4 DEF RedoneTo, LogEOF, LSN
  <2> QED
    BY <1>1, <2>1, <2>2, <2>3, <2>6, <2>7 DEF Like
<1> QED
  BY <1>3, <1>4

(* Redo is at a record of the log, or just past it when it meets a hole. *)
LEMMA RedoAt ==
  ASSUME TypeInv, RecoveryState, Redoing, cur \in DOMAIN log, NEW z, Ends(z)
  PROVE  /\ cur \in Pos /\ cur \in UpTo(z) /\ z \in Pos
         /\ log[cur].next = LogEOF => cur = z
         /\ log[cur].next # LogEOF => log[cur].next = Successor(cur) /\ Successor(cur) \in UpTo(z)
<1>1. cur \in Pos /\ Before(cur) /\ z \in Pos
  BY DEF TypeInv, RedoReached, RecoveryState, Ends
<1>2. ~Older(z, cur)
  <2> SUFFICES ASSUME Older(z, cur)
               PROVE  FALSE
    OBVIOUS
  <2>1. log[z].next = Successor(z)
    BY <1>1 DEF Before
  <2> QED
    BY <1>1, <2>1, SuccessorOrder DEF Ends
<1>3. log[cur].next \in {LogEOF, Successor(cur)}
  BY DEF TypeInv, LogOK, RecordOK
<1>4. log[cur].next = LogEOF => Ends(cur)
  BY <1>1 DEF Ends
<1>5. log[cur].next = LogEOF => cur = z
  BY <1>4, OneEnd
<1>6. log[cur].next # LogEOF => Successor(cur) \in UpTo(z)
  <2> SUFFICES ASSUME log[cur].next # LogEOF
               PROVE  Successor(cur) \in UpTo(z)
    OBVIOUS
  <2>1. cur # z
    BY DEF Ends
  <2>2. Older(cur, z)
    BY <1>1, <1>2, <2>1, PosOrder
  <2> QED
    BY <1>1, <2>2, PosOrder, SuccessorOrder DEF UpTo
<1> QED
  BY <1>1, <1>2, <1>3, <1>5, <1>6 DEF UpTo

LEMMA RedoAdvances ==
  ASSUME TypeInv, LogInv, ChainInv, ClosedInv, TypeInv', LogInv', ClosedInv', Recovering, RecoveryState,
         pc = "redo", cur \in DOMAIN log, RedoAdvance, pc' \in {stmt', "closing"},
         UNCHANGED <<logDisk, logDiskPages, relDisk, relDiskPages, log, logPages, lastRec,
                     relPages, inTxn, era, goals>>,
         DOMAIN rel' = DOMAIN rel,
         NEW H, \A z \in Pos : Ends(z) => Recovery(H, z),
         \A z \in Pos : Ends(z) => RecoveryPages(H, z)',
         NEW k, k = cur, (\E z \in Pos : Ends(z)) => RedoneTo(H, k)'
  PROVE  /\ Recovering' /\ RecoveryState'
         /\ \A z \in Pos : Ends(z)' => Recovery(H, z)'
<1>1. /\ stmt = "redo" /\ ~inTxn /\ Redoing /\ k \in Pos
      /\ k \in Pos /\ Before(k) /\ log[k].next \in {LogEOF, Successor(k)}
  BY DEF ChainInv, PhaseKnown, Redoing, RecoveryState, TypeInv, RedoReached, LogOK, RecordOK
<1>2. CASE log[k].next = LogEOF
  <2>1. stmt' = "undo" /\ cur' = k /\ undoXid' = log[k].xid
    BY <1>2 DEF RedoAdvance
  <2>2. Ends(k)
    BY <1>1, <1>2 DEF Ends
  <2>3. Recovering'
    BY <1>1, <2>1 DEF Recovering
  <2>4. RecoveryState'
    <3>1. ~Redoing'
      BY <2>1 DEF Redoing
    <3> QED
      BY <1>1, <2>1, <2>2, <3>1, StateSame
  <2>5. ASSUME NEW z \in Pos, Ends(z)'
        PROVE  Recovery(H, z)'
    <3>1. Ends(z) /\ Recovery(H, z)
      BY <2>5, EndsSame
    <3>2. z = k
      BY <2>2, <3>1, OneEnd
    <3>3. RecoveryChain(H, z)' /\ RecoveryPages(H, z)'
      BY <3>1, ChainSame DEF Recovery
    <3>4. RecoveryRedo(H, z)' /\ RecoveryDone(H, z)'
      BY <2>1 DEF RecoveryRedo, RecoveryDone, Redoing
    <3>5. Settled(H, z) /\ z \in UpTo(z)
      BY <3>1, PosOrder DEF Recovery, RecoveryChain, Means, UpTo
    <3>6. RedoneTo(H, z)'
      BY <3>1, <3>2
    <3>7. PagesOK'
      BY DEF TypeInv
    <3>8. \A x \in Rid \ skipped' : x \in Open(H, z) \/ Like(Contents'[x], Base(H, z)[x])
      BY <3>3, <3>5, <3>6, <3>7, RedoneAll
    <3>9. Follows(log', cur', undoXid')
      BY <2>1 DEF Follows
    <3>10. RecoveryUndo(H, z)'
      BY <2>1, <3>2, <3>5, <3>8, <3>9 DEF RecoveryUndo, LogEOF, LSN
    <3> QED
      BY <3>3, <3>4, <3>10 DEF Recovery
  <2> QED
    BY <2>3, <2>4, <2>5
<1>3. CASE log[k].next # LogEOF
  <2>1. stmt' = "redo" /\ cur' = Successor(k) /\ Successor(k) \in Pos
    BY <1>1, <1>3, SuccessorOrder DEF RedoAdvance
  <2>2. Recovering'
    BY <1>1, <2>1 DEF Recovering
  <2>3. Before(cur)'
    BY <1>1, <1>3, <2>1, PosOrder, SuccessorOrder DEF Before
  <2>4. RecoveryState'
    BY <1>1, <2>1, <2>3, StateSame
  <2>5. ASSUME NEW z \in Pos, Ends(z)'
        PROVE  Recovery(H, z)'
    <3>1. Ends(z) /\ Recovery(H, z)
      BY <2>5, EndsSame
    <3>2. Successor(k) \in UpTo(z)
      BY <1>1, <1>3, <3>1, RedoAt
    <3>3. RecoveryChain(H, z)' /\ RecoveryPages(H, z)'
      BY <3>1, ChainSame DEF Recovery
    <3>4. RecoveryUndo(H, z)' /\ RecoveryDone(H, z)'
      BY <2>1 DEF RecoveryUndo, RecoveryDone, Undoing
    <3>5. log'[cur'].prev = k
      <4>1. LinksBack(log, Successor(k))
        BY <3>1, <3>2 DEF Recovery, RecoveryChain
      <4>2. Successor(k) # ZeroLSN
        BY <1>1, PosOrder, SuccessorOrder
      <4> QED
        BY <1>1, <2>1, <4>1, <4>2, SuccessorOrder DEF LinksBack
    <3>6. RedoneTo(H, k)'
      BY <3>1
    <3>7. \A p \in DOMAIN rel' : rel'[p].era = era' =>
            /\ rel'[p].lsn \in Pos
            /\ Older(rel'[p].lsn, Successor(k)) <=> ~Older(k, rel'[p].lsn)
      BY <1>1, SuccessorOrder DEF LogInv, StampLogged, TypeInv, LogOK, RecordOK
    <3>8. RecoveryRedo(H, z)'
      BY <2>1, <3>5, <3>6, <3>7 DEF RecoveryRedo, RedoneTo, LogEOF, LSN
    <3> QED
      BY <3>3, <3>4, <3>8 DEF Recovery
  <2> QED
    BY <2>2, <2>4, <2>5
<1> QED
  BY <1>2, <1>3

(* A record changes nothing but its slot. *)
LEMMA OtherSlots ==
  ASSUME NEW H, NEW l, Means(log, H, l), NEW x \in Rid, x # log[l].rid,
         log[l].type \in Changes \cup {"clr"}
  PROVE  After(H, l)[x] = After(H, log[l].prev)[x]
BY DEF Means, ChangeMeans, ClrMeans

(* A record that is passed over is in the page, or belongs to no page.      *)
LEMMA PassedTo ==
  ASSUME TypeInv, LogInv, Recovering, RecoveryState, NEW H, NEW z \in Pos, Ends(z), Recovery(H, z),
         RedoControl \/ RedoPass, NEW k, k = cur
  PROVE  RedoneTo(H, k)'
<1>0. /\ pc = "redo" /\ cur \in DOMAIN log /\ UNCHANGED <<rel, era>> /\ skipped \subseteq skipped'
  BY DEF RedoControl, RedoPass, Redoable, relVars, history
<1>1. Redoing
  BY <1>0 DEF Redoing
<1>2. k \in UpTo(z) /\ k \in Pos /\ Means(log, H, k) /\ RecoveryRedo(H, z)
  BY <1>0, <1>1, RedoAt DEF Recovery, RecoveryChain
<1>3. ASSUME NEW x \in Rid \ skipped', x[1] \in DOMAIN rel, rel[x[1]].era = era,
             ~Older(k, rel[x[1]].lsn), After(H, k)[x] = After(H, log[k].prev)[x]
      PROVE  After(H, k)[x] = After(H, rel[x[1]].lsn)[x]
  <2>1. rel[x[1]].lsn \in Pos
    BY <1>3 DEF LogInv, StampLogged, TypeInv, LogOK, RecordOK
  <2>2. rel[x[1]].lsn = k \/ Older(rel[x[1]].lsn, k)
    BY <1>2, <1>3, <2>1, PosOrder
  <2> QED
    BY <1>0, <1>1, <1>2, <1>3, <2>2 DEF RecoveryRedo
<1>4. ASSUME NEW x \in Rid \ skipped', After(H, k)[x] = After(H, log[k].prev)[x]
      PROVE  /\ x[1] \notin DOMAIN rel => After(H, k)[x] = Empty
             /\ x[1] \in DOMAIN rel /\ rel[x[1]].era # era
                  => After(H, k)[x] = After(H, LogEOF)[x]
  BY <1>0, <1>1, <1>2, <1>4 DEF RecoveryRedo
<1>5. CASE RedoControl
  <2>1. \A x \in Rid : After(H, k)[x] = After(H, log[k].prev)[x]
    BY <1>2, <1>5 DEF RedoControl, Means, AbortMeans, EndMeans
  <2> QED
    BY <1>0, <1>3, <1>4, <2>1 DEF RedoneTo, LogEOF, LSN
<1>6. CASE RedoPass
  <2>1. /\ log[k].type \in Changes \cup {"clr"} /\ Readable(log[k].rid[1])
        /\ ~Older(rel[log[k].rid[1]].lsn, k)
        /\ rel[log[k].rid[1]].era # era => log[k].rid \in skipped'
    BY <1>6 DEF RedoPass, Redoable, NeedsRedo
  <2>2. \A x \in Rid : x # log[k].rid => After(H, k)[x] = After(H, log[k].prev)[x]
    BY <1>2, <2>1, OtherSlots
  <2>3. ASSUME NEW x \in Rid \ skipped', x = log[k].rid
        PROVE  /\ x[1] \in DOMAIN rel /\ rel[x[1]].era = era
               /\ ~Older(k, rel[x[1]].lsn) => rel[x[1]].lsn = k
    <3>1. x[1] \in DOMAIN rel /\ rel[x[1]].era = era /\ ~Older(rel[x[1]].lsn, k)
      BY <2>1, <2>3 DEF Readable
    <3>2. rel[x[1]].lsn \in Pos
      BY <3>1 DEF LogInv, StampLogged, TypeInv, LogOK, RecordOK
    <3> QED
      BY <1>2, <3>1, <3>2, PosOrder
  <2> QED
    BY <1>0, <1>3, <1>4, <2>2, <2>3 DEF RedoneTo, LogEOF, LSN
<1> QED
  BY <1>5, <1>6

LEMMA RestartRedoPass ==
  ASSUME TypeInv, LogInv, ChainInv, ClosedInv, TypeInv', LogInv', ClosedInv', Recovering, RecoveryState,
         NEW H, \A z \in Pos : Ends(z) => Recovery(H, z), RedoControl \/ RedoPass
  PROVE  /\ Recovering' /\ RecoveryState'
         /\ \A z \in Pos : Ends(z)' => Recovery(H, z)'
<1>1. PICK k : k = cur
  OBVIOUS
<1>2. /\ pc = "redo" /\ cur \in DOMAIN log /\ RedoAdvance /\ pc' \in {stmt', "closing"}
      /\ UNCHANGED <<logDisk, logDiskPages, relDisk, relDiskPages, log, logPages, lastRec,
                     relPages, inTxn, era, goals, rel>>
      /\ skipped \subseteq skipped' /\ DOMAIN rel' = DOMAIN rel
  BY DEF RedoControl, RedoPass, Redoable, diskVars, logVars, relVars, txnVars, history
<1>3. \A z \in Pos : Ends(z) => RecoveryPages(H, z)'
  BY <1>2, PagesSame DEF Recovery
<1>4. ASSUME NEW z \in Pos, Ends(z)
      PROVE  RedoneTo(H, k)'
  BY <1>1, <1>4, PassedTo
<1>5. (\E z \in Pos : Ends(z)) => RedoneTo(H, k)'
  BY <1>4
<1> QED
  BY <1>1, <1>2, <1>3, <1>5, RedoAdvances

(* Redo writes what the record says, but for the bytes after a             *)
(* compensation record for an update.                                      *)
LEMMA RedoneEdit ==
  ASSUME TypeInv, Redoable(cur), RedoPage(cur), NEW k, k = cur, NEW H, Means(log, H, k),
         NEW p, p = log[k].rid[1], NEW s, s = log[k].rid[2]
  PROVE  /\ p \in DOMAIN rel /\ s \in Slots /\ <<p, s>> = log[k].rid /\ <<p, s>> \in Rid
         /\ DOMAIN rel' = DOMAIN rel
         /\ \A q \in DOMAIN rel \ {p} : rel'[q] = rel[q]
         /\ \A t \in Slots \ {s} : rel'[p].rec[t] = rel[p].rec[t]
         /\ Like(rel'[p].rec[s], After(H, k)[<<p, s>>])
         /\ rel'[p].era = era /\ rel'[p].lsn = k
<1>1. /\ k \in DOMAIN log /\ log[k].type \in Changes \cup {"clr"} /\ Readable(log[k].rid[1])
      /\ log[k].rid \in Rid \cup {NoRid}
  BY DEF Redoable, TypeInv, LogOK, RecordOK, LogRec
<1>2. log[k].rid \in Rid /\ p \in DOMAIN rel /\ s \in Slots
  BY <1>1, RecordPlace DEF TypeInv
<1>3. <<p, s>> = log[k].rid
  BY <1>2 DEF Rid
<1>4. PICK pg : pg = rel[p]
  OBVIOUS
<1>5. pg \in Page /\ DOMAIN pg = {"num", "next", "lsn", "era", "rec"} /\ pg.rec \in [Slots -> Cell]
  BY <1>2, <1>4 DEF TypeInv, PagesOK, PageOK, Page
<1>6. PICK kind : kind = RedoKind(k)
  OBVIOUS
<1>7. PICK w : w = IF kind = "delete" THEN Empty
                   ELSE IF kind = "insert" \/ log[k].type = "update" THEN log[k].new
                   ELSE Garbage
  OBVIOUS
<1>8. PICK e : e = IF kind = "delete" THEN DeleteFrom(pg, s, relFirst) ELSE PutAt(pg, s, w)
  OBVIOUS
<1>9. rel' = [rel EXCEPT ![p] = [e EXCEPT !.lsn = k, !.era = era]]
  <2>1. CASE kind = "delete"
    <3>1. e = DeleteFrom(pg, s, relFirst)
      BY <1>8, <2>1
    <3>2. RedoKind(cur) = "delete" /\ log[cur].rid[1] = p /\ log[cur].rid[2] = s
      BY <1>6, <2>1
    <3>3. rel' = [rel EXCEPT ![p] = [DeleteFrom(rel[p], s, relFirst) EXCEPT !.lsn = cur, !.era = era]]
      BY <3>2 DEF RedoPage, RedoKind
    <3> QED
      BY <1>4, <3>1, <3>3
  <2>2. CASE kind = "insert"
    <3>1. w = log[k].new /\ e = PutAt(pg, s, log[k].new)
      BY <1>7, <1>8, <2>2
    <3> QED
      BY <1>4, <1>6, <2>2, <3>1 DEF RedoPage
  <2>3. CASE kind \notin {"delete", "insert"} /\ log[k].type = "update"
    <3>1. e = PutAt(pg, s, log[k].new)
      BY <1>7, <1>8, <2>3
    <3> QED
      BY <1>4, <1>6, <2>3, <3>1 DEF RedoPage
  <2>4. CASE kind \notin {"delete", "insert"} /\ log[k].type # "update"
    <3>1. e = PutAt(pg, s, Garbage)
      BY <1>7, <1>8, <2>4
    <3> QED
      BY <1>4, <1>6, <2>4, <3>1 DEF RedoPage
  <2> QED
    BY <2>1, <2>2, <2>3, <2>4
<1>10. /\ DOMAIN e = DOMAIN pg
       /\ \A t \in Slots : e.rec[t] = IF t = s THEN w ELSE pg.rec[t]
  <2>1. CASE kind = "delete"
    BY <1>5, <1>7, <1>8, <2>1 DEF DeleteFrom
  <2>2. CASE kind # "delete"
    BY <1>5, <1>8, <2>2 DEF PutAt
  <2> QED
    BY <2>1, <2>2
<1>11. Like(w, After(H, k)[<<p, s>>])
  <2>1. CASE log[k].type = "clr"
    <3>1. /\ log[k].undo = "insert" => After(H, k)[<<p, s>>] = log[k].new
          /\ log[k].undo = "delete" => After(H, k)[<<p, s>>] = Empty
      BY <1>2, <1>3, <2>1 DEF Means, ClrMeans
    <3>2. kind = log[k].undo
      BY <1>6, <2>1 DEF RedoKind
    <3> QED
      BY <1>7, <2>1, <3>1, <3>2 DEF Like
  <2>2. CASE log[k].type \in Changes
    <3>1. /\ After(H, k)[<<p, s>>] = log[k].new
          /\ log[k].type = "delete" => log[k].new = Empty
      BY <1>2, <1>3, <2>2 DEF Means, ChangeMeans
    <3>2. kind = log[k].type
      BY <1>6, <2>2 DEF RedoKind, Changes
    <3> QED
      BY <1>7, <2>2, <3>1, <3>2 DEF Like, Changes
  <2> QED
    BY <1>1, <2>1, <2>2
<1>12. rel'[p] = [e EXCEPT !.lsn = k, !.era = era]
  BY <1>2, <1>9
<1>13. rel'[p].rec = e.rec /\ rel'[p].era = era /\ rel'[p].lsn = k
  BY <1>5, <1>10, <1>12
<1>14. DOMAIN rel' = DOMAIN rel /\ \A q \in DOMAIN rel \ {p} : rel'[q] = rel[q]
  BY <1>9
<1> QED
  BY <1>2, <1>3, <1>4, <1>10, <1>11, <1>13, <1>14

(* A record that is repeated is on its page then. *)
LEMMA AppliedTo ==
  ASSUME TypeInv, LogInv, ClosedInv, TypeInv', ClosedInv', Recovering, RecoveryState,
         NEW H, NEW z \in Pos, Ends(z), Recovery(H, z), RedoApply, pc' # "failed",
         NEW k, k = cur, NEW p, p = log[k].rid[1], NEW s, s = log[k].rid[2]
  PROVE  RecoveryPages(H, z)' /\ RedoneTo(H, k)'
<1>0. /\ pc = "redo" /\ cur \in DOMAIN log /\ UNCHANGED <<relDisk, log, era, skipped>>
      /\ Redoable(cur) /\ RedoPage(cur) /\ NeedsRedo(cur)
      /\ DOMAIN rel' = DOMAIN rel
  BY DEF RedoApply, Redoable, RedoPage, diskVars, logVars, history
<1>1. Redoing
  BY <1>0 DEF Redoing
<1>2. /\ k \in UpTo(z) /\ k \in Pos /\ Means(log, H, k) /\ RecoveryRedo(H, z)
      /\ RecoveryPages(H, z)
  BY <1>0, <1>1, RedoAt DEF Recovery, RecoveryChain
<1>3. ~Older(z, k)
  BY <1>2 DEF UpTo
<1>4. /\ p \in DOMAIN rel /\ s \in Slots /\ <<p, s>> = log[k].rid /\ <<p, s>> \in Rid
      /\ \A q \in DOMAIN rel \ {p} : rel'[q] = rel[q]
      /\ \A t \in Slots \ {s} : rel'[p].rec[t] = rel[p].rec[t]
      /\ Like(rel'[p].rec[s], After(H, k)[<<p, s>>])
      /\ rel'[p].era = era /\ rel'[p].lsn = k
  BY <1>0, <1>2, RedoneEdit
<1>5. PICK q : q = log[k].prev
  OBVIOUS
<1>6. \A x \in Rid : x # <<p, s>> => After(H, k)[x] = After(H, q)[x]
  BY <1>0, <1>2, <1>4, <1>5, OtherSlots DEF Redoable
<1>7. \A x \in Rid \ skipped :
        /\ x[1] \notin DOMAIN rel => After(H, q)[x] = Empty
        /\ x[1] \in DOMAIN rel /\ rel[x[1]].era # era
             => After(H, q)[x] = After(H, LogEOF)[x]
        /\ x[1] \in DOMAIN rel /\ rel[x[1]].era = era /\ Older(rel[x[1]].lsn, k)
             => After(H, q)[x] = After(H, rel[x[1]].lsn)[x]
  BY <1>1, <1>2, <1>5 DEF RecoveryRedo
<1>8. ASSUME NEW t \in Slots, t # s, <<p, t>> \notin skipped
      PROVE  Like(rel[p].rec[t], After(H, k)[<<p, t>>])
  <2>1. PICK x : x = <<p, t>>
    OBVIOUS
  <2>2. x \in Rid /\ x # <<p, s>> /\ x[1] = p /\ x \notin skipped
    BY <1>4, <1>8, <2>1 DEF Rid
  <2>3. PICK pg : pg = rel[p]
    OBVIOUS
  <2>4. AtRest(H, z, pg, p)
    BY <1>2, <1>4, <2>3 DEF RecoveryPages
  <2>5. After(H, k)[x] = After(H, q)[x]
    BY <1>6, <2>2
  <2>6. CASE pg.era # era
    <3>1. pg.rec[t] = After(H, LogEOF)[x]
      BY <1>8, <2>1, <2>4, <2>6 DEF AtRest
    <3>2. After(H, q)[x] = After(H, LogEOF)[x]
      BY <1>4, <1>7, <2>2, <2>3, <2>6
    <3> QED
      BY <2>1, <2>3, <2>5, <3>1, <3>2 DEF Like
  <2>7. CASE pg.era = era
    <3>1. pg.lsn \in Pos /\ Older(pg.lsn, k)
      BY <1>0, <1>4, <2>3, <2>7
         DEF NeedsRedo, LogInv, StampLogged, TypeInv, LogOK, RecordOK
    <3>2. ~Older(z, pg.lsn)
      BY <1>2, <1>3, <3>1, PosOrder
    <3>3. Like(pg.rec[t], After(H, pg.lsn)[x])
      BY <1>8, <2>1, <2>4, <2>7, <3>2 DEF AtRest
    <3>4. After(H, q)[x] = After(H, pg.lsn)[x]
      BY <1>4, <1>7, <2>2, <2>3, <2>7, <3>1
    <3> QED
      BY <2>1, <2>3, <2>5, <3>3, <3>4
  <2> QED
    BY <2>6, <2>7
<1>9. AtRest(H, z, rel[p], p)'
  <2>1. ASSUME NEW t \in Slots, <<p, t>> \notin skipped
        PROVE  Like(rel'[p].rec[t], After(H, k)[<<p, t>>])
    <3>1. CASE t = s
      BY <1>4, <3>1
    <3>2. CASE t # s
      <4>1. Like(rel[p].rec[t], After(H, k)[<<p, t>>]) /\ rel'[p].rec[t] = rel[p].rec[t]
        BY <1>4, <1>8, <2>1, <3>2
      <4> QED
        BY <4>1
    <3> QED
      BY <3>1, <3>2
  <2> QED
    BY <1>0, <1>3, <1>4, <2>1 DEF AtRest
<1>10. RecoveryPages(H, z)'
  <2>1. /\ \A j \in DOMAIN rel : AtRest(H, z, rel[j], j) /\ AtRest(H, z, relDisk[j], j)
        /\ \A x \in Rid : x[1] \notin DOMAIN rel => After(H, LogEOF)[x] = Empty
    BY <1>2 DEF RecoveryPages
  <2>2. \A j \in DOMAIN rel : AtRest(H, z, relDisk[j], j)'
    BY <1>0, <2>1 DEF AtRest, LogEOF, LSN
  <2>3. \A j \in DOMAIN rel : j # p => AtRest(H, z, rel[j], j)'
    BY <1>0, <1>4, <2>1 DEF AtRest, LogEOF, LSN
  <2> QED
    BY <1>0, <1>9, <2>1, <2>2, <2>3 DEF RecoveryPages, LogEOF, LSN
<1>11. ASSUME NEW x \in Rid \ skipped'
       PROVE  /\ x[1] \notin DOMAIN rel' => After(H, k)[x] = Empty
              /\ x[1] \in DOMAIN rel' /\ rel'[x[1]].era # era'
                   => After(H, k)[x] = After(H, LogEOF)[x]
              /\ x[1] \in DOMAIN rel' /\ rel'[x[1]].era = era' /\ ~Older(k, rel'[x[1]].lsn)
                   => After(H, k)[x] = After(H, rel'[x[1]].lsn)[x]
  <2>1. CASE x[1] = p
    BY <1>0, <1>4, <2>1
  <2>2. CASE x[1] # p
    <3>1. x # <<p, s>> /\ After(H, k)[x] = After(H, q)[x]
      BY <1>6, <2>2
    <3>2. x[1] \in DOMAIN rel => rel'[x[1]] = rel[x[1]]
      BY <1>4, <2>2
    <3>3. ASSUME x[1] \in DOMAIN rel, rel[x[1]].era = era, ~Older(k, rel[x[1]].lsn)
          PROVE  After(H, k)[x] = After(H, rel[x[1]].lsn)[x]
      <4>1. rel[x[1]].lsn \in Pos
        BY <3>3 DEF LogInv, StampLogged, TypeInv, LogOK, RecordOK
      <4>2. rel[x[1]].lsn = k \/ Older(rel[x[1]].lsn, k)
        BY <1>2, <3>3, <4>1, PosOrder
      <4> QED
        BY <1>0, <1>7, <3>1, <3>3, <4>2
    <3> QED
      BY <1>0, <1>7, <3>1, <3>2, <3>3
  <2> QED
    BY <2>1, <2>2
<1> QED
  BY <1>10, <1>11 DEF RedoneTo, LogEOF, LSN

(* Redo applies a record that its page is older than.                      *)
LEMMA RestartRedoApply ==
  ASSUME TypeInv, LogInv, ChainInv, ClosedInv, TypeInv', LogInv', ClosedInv', Recovering, RecoveryState,
         NEW H, \A z \in Pos : Ends(z) => Recovery(H, z), RedoApply
  PROVE  /\ Recovering' /\ RecoveryState'
         /\ \A z \in Pos : Ends(z)' => Recovery(H, z)'
<1>1. CASE pc' = "failed"
  <2>1. UNCHANGED <<relVars, stmt, cur>>
    BY <1>1 DEF RedoApply
  <2> QED
    BY <1>1, <2>1, RestartQuiet
<1>2. CASE pc' # "failed"
  <2>1. PICK k : k = cur
    OBVIOUS
  <2>2. PICK p, s : p = log[k].rid[1] /\ s = log[k].rid[2]
    OBVIOUS
  <2>3. /\ pc = "redo" /\ cur \in DOMAIN log /\ RedoAdvance /\ pc' \in {stmt', "closing"}
        /\ UNCHANGED <<logDisk, logDiskPages, relDisk, relDiskPages, log, logPages, lastRec,
                       relPages, inTxn, era, goals, skipped>>
        /\ Redoable(cur) /\ RedoPage(cur) /\ NeedsRedo(cur)
    BY <1>2 DEF RedoApply, Redoable, RedoPage, diskVars, logVars, txnVars, history
  <2>4. DOMAIN rel' = DOMAIN rel
    BY <2>3 DEF RedoPage
  <2>5. ASSUME NEW z \in Pos, Ends(z)
        PROVE  RecoveryPages(H, z)' /\ RedoneTo(H, k)'
    BY <1>2, <2>1, <2>2, <2>5, AppliedTo
  <2>6. (\E z \in Pos : Ends(z)) => RedoneTo(H, k)'
    BY <2>5
  <2> QED
    BY <2>1, <2>3, <2>4, <2>5, <2>6, RedoAdvances
<1> QED
  BY <1>1, <1>2

(* Pages written during recovery.                                          *)
LEMMA RestartWrite ==
  ASSUME TypeInv, LogInv, ClosedInv, TypeInv', Recovering, RecoveryState,
         NEW H, \A z \in Pos : Ends(z) => Recovery(H, z), Write
  PROVE  /\ Recovering' /\ RecoveryState'
         /\ \A z \in Pos : Ends(z)' => Recovery(H, z)'
<1>1. UNCHANGED <<log, logPages, lastRec, rel, relPages, era, inTxn, goals, skipped, cur, undoXid,
                  stmt, pc>>
  BY DEF Write, WriteLogHdr, WriteLogPage, WriteDataPage, WritePFHeader, WriteRMHeader,
         logVars, relVars, txnVars, ctlVars, history
<1>2. relPages = relDiskPages /\ relDiskPages' = relDiskPages
  BY DEF RecoveryState, Write, WriteLogHdr, WriteLogPage, WriteDataPage, WritePFHeader, WriteRMHeader
<1>3. /\ DOMAIN rel = {p \in DOMAIN relDisk : p < relDiskPages}
      /\ \A p \in DOMAIN rel : p < relPages
  BY DEF RecoveryState, ClosedInv
<1>4. /\ {p \in DOMAIN relDisk' : p < relDiskPages} = DOMAIN rel
      /\ \A p \in DOMAIN rel : relDisk'[p] \in {relDisk[p], rel[p]}
  <2>1. CASE \E p \in 1 .. MaxPages : WriteDataPage(p)
    BY <1>2, <1>3, <2>1 DEF WriteDataPage
  <2>2. CASE ~(\E p \in 1 .. MaxPages : WriteDataPage(p))
    <3>1. relDisk' = relDisk
      BY <2>2 DEF Write, WriteLogHdr, WriteLogPage, WritePFHeader, WriteRMHeader
    <3> QED
      BY <1>3, <3>1
  <2> QED
    BY <2>1, <2>2
<1>5. logDiskPages' # 0
  BY DEF RecoveryState, Write, WriteLogHdr, WriteLogPage, WriteDataPage, WritePFHeader, WriteRMHeader
<1>6. Frozen => UNCHANGED <<logDisk, logDiskPages>>
  <2> SUFFICES ASSUME Frozen
               PROVE  UNCHANGED <<logDisk, logDiskPages>>
    OBVIOUS
  <2>1. ~WriteLogHdr /\ \A pn : ~WriteLogPage(pn)
    BY DEF Frozen, WriteLogHdr, WriteLogPage, OnPage
  <2> QED
    BY <2>1 DEF Write, WriteDataPage, WritePFHeader, WriteRMHeader
<1>7. Recovering'
  BY <1>1 DEF Recovering, LogEOF, LSN
<1>8. RecoveryState'
  <2>1. Before(cur)' <=> Before(cur)
    BY <1>1 DEF Before
  <2>2. Redoing' <=> Redoing
    BY <1>1 DEF Redoing
  <2>3. Frozen => Frozen'
    BY <1>1, <1>6 DEF Frozen, LogOnDisk, LogClean
  <2>4. (\E z \in Pos : Ends(z)) => (\E z \in Pos : Ends(z))'
    BY <1>1, EndsSame
  <2> QED
    BY <1>1, <1>2, <1>4, <1>5, <2>1, <2>2, <2>3, <2>4 DEF RecoveryState
<1>9. ASSUME NEW z \in Pos, Ends(z)'
      PROVE  Recovery(H, z)'
  <2>1. Recovery(H, z) /\ Ends(z)
    BY <1>1, <1>9, EndsSame
  <2>2. ASSUME NEW l \in UpTo(z)
        PROVE  l \in LogOnDisk' /\ logDisk'[l] = log'[l]
    <3>1. l \in LogOnDisk /\ logDisk[l] = log[l] /\ l \in DOMAIN log
      <4>1. l \in Pos /\ (Older(l, z) \/ l = z)
        BY PosOrder DEF UpTo
      <4> QED
        BY <2>1, <4>1 DEF Recovery, RecoveryChain, Ends, Before
    <3>2. CASE WriteLogHdr
      <4>1. l.pn < logPages
        BY <3>1 DEF LogInv, LogPlaced
      <4> QED
        BY <1>1, <3>1, <3>2, <4>1 DEF WriteLogHdr, LogOnDisk
    <3>3. CASE \E pn \in 0 .. logPages - 1 : WriteLogPage(pn)
      BY <1>1, <3>1, <3>3 DEF WriteLogPage, LogOnDisk, OnPage
    <3>4. CASE UNCHANGED <<logDisk, logDiskPages>>
      BY <1>1, <3>1, <3>4 DEF LogOnDisk
    <3> QED
      BY <3>2, <3>3, <3>4 DEF Write, WriteDataPage, WritePFHeader, WriteRMHeader
  <2>3. RecoveryChain(H, z)'
    BY <1>1, <2>1, <2>2 DEF Recovery, RecoveryChain, LogEOF, LSN
  <2>4. RecoveryPages(H, z)'
    <3>1. \A j : /\ AtRest(H, z, rel[j], j)' <=> AtRest(H, z, rel[j], j)
                 /\ relDisk'[j] = relDisk[j]
                      => (AtRest(H, z, relDisk[j], j)' <=> AtRest(H, z, relDisk[j], j))
                 /\ relDisk'[j] = rel[j]
                      => (AtRest(H, z, relDisk[j], j)' <=> AtRest(H, z, rel[j], j))
      BY <1>1 DEF AtRest, LogEOF, LSN
    <3> QED
      BY <1>1, <1>4, <2>1, <3>1 DEF Recovery, RecoveryPages, LogEOF, LSN
  <2>5. RecoveryRedo(H, z)'
    BY <1>1, <2>1 DEF Recovery, RecoveryRedo, Redoing, LogEOF, LSN
  <2>6. RecoveryUndo(H, z)' /\ RecoveryDone(H, z)'
    <3>1. Contents' = Contents
      BY <1>1 DEF Contents, ContentsOf
    <3> QED
      BY <1>1, <2>1, <3>1 DEF Recovery, RecoveryUndo, RecoveryDone, Undoing, Follows, LogEOF, LSN
  <2> QED
    BY <2>3, <2>4, <2>5, <2>6 DEF Recovery
<1> QED
  BY <1>7, <1>8, <1>9

(* A crash during recovery, or after it, leaves the log it found to be     *)
(* found again: what recovery has logged since has no link from the old    *)
(* log.                                                                    *)
LEMMA RestartCrash ==
  ASSUME TypeInv, LogInv, Recovering, RecoveryState,
         NEW H, \A z \in Pos : Ends(z) => Recovery(H, z), Crash
  PROVE  /\ Recovering' /\ RecoveryState'
         /\ \A z \in Pos : Ends(z)' => Recovery(H, z)'
<1>1. /\ log' = [l \in {l \in DOMAIN logDisk : l.pn < logDiskPages} |-> logDisk[l]]
      /\ rel' = [p \in {p \in DOMAIN relDisk : p < relDiskPages} |-> relDisk[p]]
      /\ relPages' = relDiskPages /\ logPages' = logDiskPages
      /\ lastRec' = LogEOF /\ ~inTxn' /\ logDiskPages # 0
      /\ pc' = "redo" /\ stmt' = "redo" /\ cur' = ZeroLSN
      /\ UNCHANGED <<logDisk, logDiskPages, relDisk, relDiskPages, goals, skipped, era>>
  BY DEF Crash, diskVars, RecoveryState
<1>2. /\ DOMAIN rel' = {p \in DOMAIN relDisk : p < relDiskPages} /\ DOMAIN rel' = DOMAIN rel
      /\ \A p \in DOMAIN rel' : p \in DOMAIN relDisk /\ rel'[p] = relDisk[p]
  BY <1>1 DEF RecoveryState
<1>3. DOMAIN log' = LogOnDisk /\ \A l \in LogOnDisk : log'[l] = logDisk[l]
  BY <1>1 DEF LogOnDisk
<1>4. Recovering'
  BY <1>1 DEF Recovering
<1>5. RecoveryState'
  <2>1. Before(cur)'
    BY <1>1, PosOrder DEF Before
  <2>2. Frozen'
    BY <1>1 DEF Frozen, LogOnDisk, LogClean
  <2> QED
    BY <1>1, <1>2, <2>1, <2>2 DEF RecoveryState
<1>6. ASSUME NEW z \in Pos, Ends(z)'
      PROVE  Recovery(H, z)'
  <2>1. Ends(z)
    <3>1. CASE stmt = "redo"
      <4>1. Frozen
        BY <3>1 DEF RecoveryState
      <4>2. DOMAIN log = LogOnDisk /\ \A l \in DOMAIN log : log[l] = logDisk[l]
        BY <4>1 DEF Frozen, LogClean, LogOnDisk, LogInv, LogPlaced
      <4>3. DOMAIN log' = DOMAIN log /\ \A l \in DOMAIN log : log'[l] = log[l]
        BY <1>3, <4>2
      <4> QED
        BY <1>6, <4>3 DEF Ends, Before, LogEOF, LSN
    <3>2. CASE stmt # "redo"
      <4>1. PICK y \in Pos : Ends(y) /\ RecoveryChain(H, y)
        BY <3>2 DEF RecoveryState, Recovery
      <4>2. \A l \in Pos : l = y \/ Older(l, y) => l \in DOMAIN log' /\ log'[l] = log[l]
        BY <1>3, <4>1, PosOrder DEF RecoveryChain, UpTo
      <4>3. Ends(y)'
        BY <4>1, <4>2 DEF Ends, Before, LogEOF, LSN
      <4>4. \A k, l : Ends(k)' /\ Ends(l)' => ~Older(k, l)
        BY SuccessorOrder DEF Ends, Before
      <4>5. z = y
        BY <1>6, <4>3, <4>4, PosOrder
      <4> QED
        BY <4>1, <4>5
    <3> QED
      BY <3>1, <3>2
  <2>2. Recovery(H, z) /\ RecoveryChain(H, z) /\ RecoveryPages(H, z)
    BY <2>1 DEF Recovery
  <2>3. ASSUME NEW l \in UpTo(z)
        PROVE  /\ l \in Pos /\ l \in DOMAIN log /\ ~Older(z, l)
               /\ l \in DOMAIN log' /\ log'[l] = log[l]
               /\ l \in LogOnDisk' /\ logDisk'[l] = log'[l]
    <3>1. l \in Pos /\ (Older(l, z) \/ l = z) /\ ~Older(z, l)
      BY PosOrder DEF UpTo
    <3>2. l \in LogOnDisk /\ logDisk[l] = log[l]
      BY <2>2 DEF RecoveryChain
    <3> QED
      BY <1>1, <1>3, <2>1, <3>1, <3>2 DEF Ends, Before, LogOnDisk
  <2>4. ASSUME NEW l \in UpTo(z)
        PROVE  Means(log', H, l) /\ LinksBack(log', l)
    <3>1. Means(log, H, l) /\ LinksBack(log, l) /\ log'[l] = log[l] /\ RecordOK(l, log[l])
      BY <2>2, <2>3 DEF RecoveryChain, TypeInv, LogOK
    <3>2. \A k \in BackFrom(l) : k # LogEOF => k \in UpTo(z)
      BY <2>3, PosOrder DEF BackFrom, UpTo
    <3>3. \A k \in {log[l].prev, log[l].undonext} :
            k # LogEOF => log'[k].type = log[k].type /\ log'[k].xid = log[k].xid
      BY <2>3, <3>1, <3>2 DEF RecordOK
    <3>4. SameRecord(log'[l], log[l])
      BY <3>1 DEF SameRecord
    <3>5. Means(log', H, l)
      BY <3>1, <3>3, <3>4, MeansSame
    <3> QED
      BY <3>1, <3>5 DEF LinksBack
  <2>5. RecoveryChain(H, z)'
    BY <1>1, <2>2, <2>3, <2>4 DEF RecoveryChain, LogEOF, LSN
  <2>6. \A x \in Rid : x[1] \notin DOMAIN rel' => After(H, LogEOF)[x] = Empty
    BY <1>2, <2>2 DEF RecoveryPages
  <2>7. RecoveryPages(H, z)'
    <3>1. \A p \in DOMAIN rel : AtRest(H, z, relDisk[p], p)
      BY <2>2 DEF RecoveryPages
    <3> QED
      BY <1>1, <1>2, <2>6, <3>1 DEF RecoveryPages, AtRest, LogEOF, LSN
  <2>8. log'[cur'].prev = LogEOF
    <3>1. ZeroLSN \in UpTo(z)
      BY PosOrder DEF UpTo
    <3> QED
      BY <1>1, <2>4, <3>1, FirstOfChain
  <2>9. \A p \in DOMAIN rel' : rel'[p].era = era => ~Older(rel'[p].lsn, ZeroLSN)
    BY <1>2, PosOrder DEF LogInv, StampLogged, TypeInv, LogOK, RecordOK
  <2>10. RecoveryRedo(H, z)'
    BY <1>1, <2>6, <2>8, <2>9 DEF RecoveryRedo, LogEOF, LSN
  <2>11. RecoveryUndo(H, z)' /\ RecoveryDone(H, z)'
    BY <1>1 DEF RecoveryUndo, RecoveryDone, Undoing
  <2> QED
    BY <2>5, <2>7, <2>10, <2>11 DEF Recovery
<1> QED
  BY <1>4, <1>5, <1>6

(* A step of recovery, or one after it that logs nothing. *)
(* What can happen while recovery runs and has not been followed by a       *)
(* transaction.                                                            *)
LEMMA RestartActions ==
  ASSUME TypeInv, ChainInv, ClosedInv, Recovering, RecoveryState, [Next]_vars, ~NewLog, fresh'
  PROVE  \/ Write \/ Crash
         \/ CloseDone \/ CheckpointBreaks \/ RedoUnreadable \/ UNCHANGED vars
         \/ UndoSkip \/ UndoEndRecover \/ UndoChange
         \/ RedoControl \/ RedoPass \/ RedoApply
<1>1. ~inTxn /\ logPages # 0
  BY DEF RecoveryState
<1>2. pc \notin {"open", "committing", "aborting", "ending"}
  BY <1>1 DEF ClosedInv
<1>3. ~BeginT /\ \A k \in Kinds : ~StartStatement(k)
  <2>1. pc = "idle" => OnRecoveredLog
    BY <1>1 DEF OnRecoveredLog, Recovering, ChainInv, PhaseKnown
  <2> QED
    BY <1>1, <2>1 DEF BeginT, StartStatement, BeginXact
<1>4. /\ \A v \in Val : ~InsertRec(v)
      /\ \A r \in Records : ~DeleteRec(r) /\ \A v \in Val : ~UpdateRec(r, v)
  BY <1>2 DEF InsertRec, DeleteRec, UpdateRec
<1>5. ~(CloseFile \/ CommitT \/ AbortT \/ AbortForced \/ CommitDone \/ EndDone \/ UndoEndAbort)
  BY <1>1, <1>2 DEF CloseFile, CommitT, AbortT, AbortForced, CommitDone, EndDone, UndoEndAbort
<1>6. ~CloseDb /\ (Checkpoint => CheckpointBreaks)
  BY DEF CloseDb, Checkpoint, CheckpointResets
<1> QED
  BY <1>3, <1>4, <1>5, <1>6 DEF Next, Request, Continue

LEMMA RestartStep ==
  ASSUME TypeInv, LogInv, ChainInv, ClosedInv, TypeInv', LogInv', ClosedInv',
         Recovering, RecoveryState, [Next]_vars, ~NewLog, fresh',
         NEW H, \A z \in Pos : Ends(z) => Recovery(H, z)
  PROVE  /\ Recovering' /\ RecoveryState'
         /\ \A z \in Pos : Ends(z)' => Recovery(H, z)'
<1>1. CASE Write
  BY <1>1, RestartWrite
<1>2. CASE Crash
  BY <1>2, RestartCrash
<1>3. CASE CloseDone \/ CheckpointBreaks \/ RedoUnreadable \/ UNCHANGED vars
  BY <1>3, RestartQuiet
<1>4. CASE UndoSkip
  BY <1>4, RestartUndoSkip
<1>5. CASE UndoEndRecover
  BY <1>5, RestartUndoEnd
<1>6. CASE UndoChange
  BY <1>6, RestartUndoChange
<1>7. CASE RedoControl \/ RedoPass
  BY <1>7, RestartRedoPass
<1>8. CASE RedoApply
  BY <1>8, RestartRedoApply
<1> QED
  BY <1>1, <1>2, <1>3, <1>4, <1>5, <1>6, <1>7, <1>8, RestartActions

-------------------------------------------------------------------------------
(* Both, step by step. *)

(* An empty log and an empty relation.                                     *)
LEMMA InitAtomic == Init => ClosedInv /\ GoalsOK /\ AtomicInv
<1> SUFFICES ASSUME Init
             PROVE  ClosedInv /\ GoalsOK /\ AtomicInv
  OBVIOUS
<1>1. /\ DOMAIN log = {} /\ DOMAIN logDisk = {} /\ lastRec = LogEOF /\ logPages = 0
      /\ DOMAIN rel = {} /\ DOMAIN relDisk = {} /\ ~inTxn /\ goals = {Contents}
      /\ pc = "idle" /\ stmt = "none"
  BY DEF Init, EmptyLog
<1>2. ClosedInv
  BY ClosedInit
<1>3. PagesOK
  BY <1>1 DEF PagesOK, Init
<1>4. Contents \in [Rid -> Cell] /\ \A x \in Rid : Contents[x] = Empty
  BY <1>1, <1>2, <1>3, ContentsAt
<1>5. PICK c : c = Contents
  OBVIOUS
<1>6. PICK X : X = Blank(c)
  OBVIOUS
<1>7. After(X, LogEOF) = c /\ Open(X, LogEOF) = {} /\ Base(X, LogEOF) = c
  BY <1>6 DEF Blank, After, Open, Base, Lsns
<1>8. NormalChain
  BY <1>1 DEF NormalChain
<1>9. NormalHistory(X)
  BY <1>1, <1>5, <1>7 DEF NormalHistory, StartMeans, Settled
<1>10. NormalGoals(X, LogEOF)
  BY <1>1, <1>5, <1>7 DEF NormalGoals, Durable, Ended
<1>11. NormalPages(X)
  BY <1>1, <1>4, <1>5, <1>7 DEF NormalPages
<1>12. NormalUndo(X)
  BY <1>1 DEF NormalUndo, Undoing
<1>13. ~Recovering
  BY <1>1 DEF Recovering
<1>14. Normal(X, LogEOF)
  BY <1>8, <1>9, <1>10, <1>11, <1>12 DEF Normal
<1> HIDE DEF Normal
<1>15. AtomicInv
  BY <1>13, <1>14 DEF AtomicInv
<1>16. GoalsOK
  BY <1>1, <1>4 DEF GoalsOK
<1> QED
  BY <1>2, <1>15, <1>16

(* Only a new log makes a log fresh.                                       *)
LEMMA FreshKept ==
  ASSUME TypeInv, [Next]_vars, ~NewLog, fresh', ~leftover'
  PROVE  fresh /\ ~leftover
<1>1. CASE Request
  <2>1. CASE BeginT \/ \E k \in Kinds : StartStatement(k)
    BY <2>1 DEF BeginT, StartStatement, BeginXact, history
  <2>2. CASE ~(BeginT \/ \E k \in Kinds : StartStatement(k))
    <3>1. UNCHANGED <<fresh, leftover>>
      BY <1>1, <2>2 DEF Request, InsertRec, DeleteRec, UpdateRec, CloseFile, CommitT, AbortT,
                        Checkpoint, CheckpointResets, CheckpointBreaks, CloseDb, history
    <3> QED
      BY <3>1
  <2> QED
    BY <2>1, <2>2
<1>2. CASE Continue
  <2>1. UNCHANGED <<fresh, leftover>>
    BY <1>2 DEF Continue, CloseDone, CommitT, CommitDone, AbortForced, EndDone, UndoChange,
                UndoSkip, UndoEndAbort, UndoEndRecover, RedoUnreadable, RedoControl, RedoPass,
                RedoApply, history
  <2> QED
    BY <2>1
<1>3. CASE Write
  <2>1. UNCHANGED <<fresh, leftover>>
    BY <1>3 DEF Write, WriteLogHdr, WriteLogPage, WriteDataPage, WritePFHeader, WriteRMHeader,
                history
  <2> QED
    BY <2>1
<1>4. CASE Crash
  BY <1>4 DEF Crash, TypeInv, Scalars
<1>5. CASE UNCHANGED vars
  BY <1>5 DEF vars
<1> QED
  BY <1>1, <1>2, <1>3, <1>4, <1>5 DEF Next

(* A log is created only between calls.                                    *)
LEMMA NewLogWhenIdle ==
  ASSUME ChainInv, [Next]_vars, era' # era
  PROVE  NewLog /\ pc = "idle"
<1>1. CASE Request
  BY <1>1 DEF Request, BeginT, StartStatement, BeginXact, InsertRec, DeleteRec, UpdateRec,
              CloseFile, CommitT, AbortT, Checkpoint, CheckpointResets, CheckpointBreaks,
              CloseDb, history
<1>2. CASE Continue
  BY <1>2 DEF Continue, CloseDone, CommitT, CommitDone, AbortForced, EndDone, UndoChange,
              UndoSkip, UndoEndAbort, UndoEndRecover, RedoUnreadable, RedoControl, RedoPass,
              RedoApply, history
<1>3. CASE Write
  BY <1>3 DEF Write, WriteLogHdr, WriteLogPage, WriteDataPage, WritePFHeader, WriteRMHeader,
              history
<1>4. CASE Crash \/ UNCHANGED vars
  BY <1>4 DEF Crash, vars
<1> QED
  BY <1>1, <1>2, <1>3, <1>4 DEF Next

(* Every step keeps the invariant: crashes that find a log lead from       *)
(* Normal to Recovery, a new log leads back.                               *)
LEMMA AtomicKept ==
  ASSUME TypeInv, LogInv, ChainInv, ClosedInv, GoalsOK, AtomicInv,
         TypeInv', LogInv', ClosedInv', [Next]_vars
  PROVE  AtomicInv'
<1> HIDE DEF Normal
<1> SUFFICES ASSUME fresh', ~leftover'
             PROVE  IF Recovering' THEN /\ RecoveryState'
                                        /\ \E H : \A z \in Pos : Ends(z)' => Recovery(H, z)'
                                   ELSE \E H, b : Normal(H, b)'
  BY DEF AtomicInv
<1>1. CASE NewLog
  <2>1. era' # era
    BY <1>1 DEF NewLog, TypeInv, Scalars
  <2>2. pc = "idle"
    BY <2>1, NewLogWhenIdle
  <2> QED
    BY <1>1, <2>2, NewLogNormal
<1>2. CASE ~NewLog
  <2>1. fresh /\ ~leftover
    BY <1>2, FreshKept
  <2>2. CASE Recovering
    <3>1. PICK H : \A z \in Pos : Ends(z) => Recovery(H, z)
      BY <2>1, <2>2 DEF AtomicInv
    <3>2. RecoveryState
      BY <2>1, <2>2 DEF AtomicInv
    <3>3. /\ Recovering' /\ RecoveryState'
          /\ \A z \in Pos : Ends(z)' => Recovery(H, z)'
      BY <1>2, <2>2, <3>1, <3>2, RestartStep
    <3> QED
      BY <3>3
  <2>3. CASE ~Recovering
    <3>1. PICK H, b : Normal(H, b)
      BY <2>1, <2>3 DEF AtomicInv
    <3>2. CASE Crash /\ logDiskPages = 0
      BY <3>1, <3>2, EmptyCrash
    <3>3. CASE Crash /\ logDiskPages # 0
      <4>1. /\ Recovering' /\ RecoveryState'
            /\ \A z \in Pos : Ends(z)' => Recovery(H, z)'
        BY <3>1, <3>3, NormalCrash
      <4> QED
        BY <4>1
    <3>4. CASE ~Crash
      <4>1. ~Recovering'
        BY <2>3, <3>4, NormalStays
      <4>2. \E X, c : Normal(X, c)'
        BY <1>2, <2>3, <3>1, <3>4, NormalStep
      <4> QED
        BY <4>1, <4>2
    <3> QED
      BY <3>2, <3>3, <3>4
  <2> QED
    BY <2>2, <2>3
<1> QED
  BY <1>1, <1>2

(* A history that explains the log, the relation in memory and the         *)
(* relation on disk exists in every state of a log that was created empty  *)
(* and that no transaction has run on since it was recovered from,         *)
(* whatever was stolen, flushed or lost in crashes, those that interrupt   *)
(* recovery included.                                                      *)
THEOREM AtomicInvHolds == Spec => [](ClosedInv /\ GoalsOK /\ AtomicInv)
<1>1. /\ TypeInv /\ LogInv /\ ChainInv /\ ClosedInv /\ GoalsOK /\ AtomicInv /\ [Next]_vars
      /\ TypeInv' /\ LogInv'
      => (ClosedInv /\ GoalsOK /\ AtomicInv)'
  BY ClosedKept, GoalsKept, AtomicKept
<1> QED
  BY <1>1, InitAtomic, TypeInvHolds, LogInvHolds, ChainInvHolds, PTL DEF Spec

(* Between transactions that history gives the goal.                       *)
LEMMA AtomicMeans ==
  TypeInv /\ LogInv /\ ChainInv /\ ClosedInv /\ GoalsOK /\ AtomicInv => AtomicAndDurable
<1> HIDE DEF Normal
<1> SUFFICES ASSUME TypeInv, LogInv, ChainInv, ClosedInv, GoalsOK, AtomicInv,
                    fresh, ~leftover, pc = "idle", ~inTxn
             PROVE  \E g \in goals : \A r \in Rid \ skipped : Contents[r] \in {g[r], Garbage}
  BY DEF AtomicAndDurable
<1>1. CASE Recovering
  <2>1. PICK H : \A z \in Pos : Ends(z) => Recovery(H, z)
    BY <1>1 DEF AtomicInv
  <2>2. stmt \notin {"undo", "redo"}
    BY DEF ChainInv, PhaseKnown
  <2>3. PICK z \in Pos : Ends(z)
    BY <1>1, <2>2 DEF AtomicInv, RecoveryState
  <2>4. Base(H, z) \in goals /\ RecoveryDone(H, z)
    BY <2>1, <2>3 DEF Recovery, RecoveryChain
  <2> QED
    BY <2>2, <2>4 DEF RecoveryDone, Like
<1>2. CASE ~Recovering
  <2>1. PICK H, b : Normal(H, b)
    BY <1>2 DEF AtomicInv
  <2>2. NormalGoals(H, b)
    BY <2>1 DEF Normal
  <2>3. Ended /\ b = lastRec
    BY <2>2 DEF NormalGoals
  <2>4. Base(H, lastRec) = Contents
    BY <2>1, <2>3, EndedSettled
  <2>5. Contents \in goals
    <3>1. b \in DOMAIN log \cup {LogEOF} /\ \A l \in DOMAIN log \cup {LogEOF} :
                                               ~Older(l, b) => Base(H, l) \in goals
      BY <2>2 DEF NormalGoals
    <3>2. ~Older(b, b)
      BY <3>1, PosOrder DEF TypeInv, LogOK, RecordOK
    <3> QED
      BY <2>3, <2>4, <3>1, <3>2
  <2> QED
    BY <2>5
<1> QED
  BY <1>1, <1>2

(* Atomicity and durability: between transactions the relation holds what  *)
(* was committed (or what the commit that a crash interrupted would have   *)
(* left), and nothing of a transaction rolled back by AbortT or cut short  *)
(* by a crash, for every number of pages, slots, records per log page,     *)
(* transactions, crashes and crashes during recovery.                      *)
THEOREM AtomicHolds == Spec => []AtomicAndDurable
BY AtomicMeans, AtomicInvHolds, TypeInvHolds, LogInvHolds, ChainInvHolds, PTL

(* Checkpoint and CloseDb destroy the log only when the relation is on     *)
(* disk in full and, unless CloseDb is called inside a transaction, the    *)
-------------------------------------------------------------------------------
(* The steps, by what they do to the log and the pages. *)

(* The change a statement logs.                                            *)
Edit(k) == IF k = "load" THEN "insert" ELSE k

(* What a call that logs a record does: it changes no contents but those   *)
(* the record tells of.                                                    *)
Origin(body) ==
  \/ body.type \in {"commit", "abort", "end"}
  \/ body.type \in Changes /\ pc = "open" /\ stmt \in Kinds /\ body.type = Edit(stmt)
  \/ /\ body.type = "clr" /\ pc = "undo" /\ cur \in DOMAIN log /\ log[cur].type \in Changes
     /\ body.rid = log[cur].rid

Logs(body) ==
  /\ InsertLogRec(body) /\ Origin(body)
  /\ UNCHANGED <<diskVars, torn, leftover, era, skipped, inTxn, currXID>>
  /\ goals \subseteq goals'
  /\ stmt' = stmt \/ pc = "undo"
  /\ DOMAIN rel \subseteq DOMAIN rel'
  /\ \A q \in DOMAIN rel' : (q \in DOMAIN rel /\ rel'[q].era = rel[q].era) \/ rel'[q].era = era
  /\ body.type \in Changes => \/ body.rid[1] \in DOMAIN rel' /\ rel'[body.rid[1]].era = era
                              \/ body.type = "insert" /\ body.rid = NoRid
  /\ \A x \in Rid : Contents'[x] = Contents[x]
                      \/ (body.type \in Changes \cup {"clr"} /\ x = body.rid)

LEMMA EditLogs ==
  ASSUME PagesOK, ClosedInv, PagesOK', ClosedInv', NEW p \in DOMAIN rel, NEW s \in Slots, NEW v,
         NEW body, InsertLogRec(body), body.rid = <<p, s>>, body.type \in Changes \cup {"clr"},
         Origin(body), Edits(p, s, v),
         UNCHANGED <<diskVars, torn, leftover, era, skipped, inTxn, currXID, goals, stmt>>
  PROVE  Logs(body)
<1>1. PICK r : r = <<p, s>>
  OBVIOUS
<1>2. /\ r \in Rid /\ r = body.rid /\ r[1] = p
      /\ \A x \in Rid : Contents'[x] = IF x = r THEN v ELSE Contents[x]
  BY <1>1, EditedContents
<1>3. /\ DOMAIN rel' = DOMAIN rel
      /\ \A q \in DOMAIN rel' : rel'[q].era = rel[q].era \/ rel'[q].era = era
      /\ rel'[p].era = era
  BY DEF Edits
<1> QED
  BY <1>2, <1>3 DEF Logs

LEMMA SameContents ==
  ASSUME UNCHANGED relVars
  PROVE  Contents' = Contents /\ UNCHANGED <<rel, relPages, relFirst>>
BY DEF Contents, ContentsOf, relVars

LEMMA EditKinds ==
  /\ \A k \in Kinds : Edit(k) \in Changes
  /\ "clr" \notin Changes /\ "none" \notin Kinds /\ "undo" \notin Kinds
  /\ {"commit", "abort", "end"} \cap (Changes \cup {"clr"}) = {}
BY LogAssumption DEF Edit, Changes

LEMMA InsertLogs ==
  ASSUME TypeInv, LogInv, ChainInv, ClosedInv, TypeInv', ClosedInv',
         NEW v \in Val, InsertRec(v), ~InsertInLostPage
  PROVE  \E body : Logs(body)
<1>1. /\ pc = "open" /\ stmt \in Kinds /\ Edit(stmt) = "insert"
      /\ UNCHANGED <<diskVars, torn, leftover, era, skipped, inTxn, currXID, goals, stmt>>
      /\ PagesOK /\ PagesOK'
  BY DEF InsertRec, history, txnVars, TypeInv, Scalars, Edit, ChainInv, PhaseKnown
<1>2. \A r, u : /\ Origin(Body("insert", r, u, v)) /\ Body("insert", r, u, v).rid = r
                /\ Body("insert", r, u, v).type = "insert"
                /\ "insert" \in Changes
  BY <1>1 DEF Origin, Body, Changes
<1>3. CASE InsertInNewPage(v)
  <2>1. PICK r : r = <<relPages, 0>>
    OBVIOUS
  <2>2. /\ InsertLogRec(Body("insert", r, Empty, v))
        /\ relPages \in 1 .. MaxPages /\ r[1] = relPages
        /\ DOMAIN rel' = DOMAIN rel \cup {relPages}
        /\ \A q \in DOMAIN rel' : q # relPages => rel'[q] = rel[q]
        /\ rel'[relPages] = Stamp(InsertInto(BlankPage, 0, v))
    BY <1>3, <2>1 DEF InsertInNewPage, TypeInv, Scalars
  <2>3. 0 \in Slots
    BY PageAssumption DEF Slots
  <2>4. \A q \in DOMAIN rel : q # relPages
    BY DEF ClosedInv, TypeInv, PagesOK, Scalars
  <2>5. /\ \A s \in Slots : rel'[relPages].rec[s] = IF s = 0 THEN v ELSE Empty
        /\ rel'[relPages].era = era
    <3>1. \A s \in Slots : BlankPage.rec[s] = Empty
      BY DEF BlankPage
    <3> QED
      BY <2>2, <2>3, <3>1, BlankOK, EditedSlots
  <2>6. ASSUME NEW x \in Rid, x # r
        PROVE  Contents'[x] = Contents[x]
    <3>1. x = <<x[1], x[2]>> /\ x[2] \in Slots
      BY <1>1, ContentsAt
    <3>2. CASE x[1] = relPages
      <4>1. x[2] # 0
        BY <2>1, <2>6, <3>1, <3>2
      <4>2. Contents'[x] = Empty
        BY <1>1, <2>2, <2>5, <3>1, <3>2, <4>1, ContentsAtNext
      <4> QED
        BY <1>1, <2>4, <3>2, <4>2, ContentsAt
    <3>3. CASE x[1] # relPages /\ x[1] \in DOMAIN rel
      <4>1. Contents'[x] = rel'[x[1]].rec[x[2]]
        BY <1>1, <2>2, <3>3, ContentsAtNext
      <4> QED
        BY <1>1, <2>2, <3>3, <4>1, ContentsAt
    <3>4. CASE x[1] # relPages /\ x[1] \notin DOMAIN rel
      <4>1. Contents'[x] = Empty
        BY <1>1, <2>2, <3>4, ContentsAtNext
      <4> QED
        BY <1>1, <3>4, <4>1, ContentsAt
    <3> QED
      BY <3>2, <3>3, <3>4
  <2>7. PICK body : body = Body("insert", r, Empty, v)
    OBVIOUS
  <2>8. \A x \in Rid : Contents'[x] = Contents[x] \/ x = body.rid
    BY <1>2, <2>6, <2>7
  <2>9. Logs(body)
    BY <1>1, <1>2, <2>2, <2>4, <2>5, <2>7, <2>8 DEF Logs
  <2> QED
    BY <2>9
<1>4. CASE InsertInFreePage(v)
  <2>1. PICK p, s : p = relFirst /\ s = FindAvailableSlot(rel[relFirst])
    OBVIOUS
  <2>2. PICK body : body = Body("insert", <<p, s>>, Empty, v)
    OBVIOUS
  <2>3. /\ InsertLogRec(body) /\ p \in DOMAIN rel /\ HasRoom(rel[p])
        /\ rel' = [rel EXCEPT ![p] = Stamp(InsertInto(rel[p], s, v))]
    BY <1>4, <2>1, <2>2 DEF InsertInFreePage, Readable
  <2>4. s \in Slots
    <3>1. s = FindAvailableSlot(rel[p])
      BY <2>1
    <3> QED
      BY <2>3, <3>1, FreeSlotFound
  <2>5. Edits(p, s, v)
    <3>1. PageOK(rel[p])
      BY <1>1, <2>3, NoneHeld
    <3> QED
      BY <2>3, <2>4, <3>1, EditedSlots DEF Edits
  <2>6. /\ body.rid = <<p, s>> /\ body.type \in Changes \cup {"clr"} /\ Origin(body)
    BY <1>2, <2>2
  <2>7. Logs(body)
    BY <1>1, <2>3, <2>4, <2>5, <2>6, EditLogs
  <2> QED
    BY <2>7
<1>5. CASE InsertInFullPage(v)
  <2>1. PICK body : body = Body("insert", NoRid, Empty, v)
    OBVIOUS
  <2>2. InsertLogRec(body)
    BY <1>5, <2>1 DEF InsertInFullPage
  <2>3. Origin(body) /\ body.rid = NoRid /\ body.type = "insert"
    BY <1>2, <2>1
  <2>4. /\ DOMAIN rel' = DOMAIN rel /\ \A q \in DOMAIN rel : rel'[q].era = rel[q].era
        /\ \A x \in Rid : Contents'[x] = Contents[x]
    BY <1>5, CountedContents
  <2>5. Logs(body)
    BY <1>1, <2>2, <2>3, <2>4 DEF Logs
  <2> QED
    BY <2>5
<1> QED
  BY <1>3, <1>4, <1>5 DEF InsertRec

LEMMA DeleteOrUpdateLogs ==
  ASSUME TypeInv, LogInv, ChainInv, ClosedInv, TypeInv', ClosedInv', NEW r \in Records,
         DeleteRec(r) \/ \E v \in Val : UpdateRec(r, v)
  PROVE  \E body : Logs(body)
<1>1. /\ r \in Rid /\ r[1] \in DOMAIN rel /\ r[2] \in Slots /\ r = <<r[1], r[2]>>
      /\ PageOK(rel[r[1]]) /\ Contents[r] # Empty
  BY RecordPlace, ContentsAt, NoneHeld DEF TypeInv, DeleteRec, UpdateRec
<1>2. PICK p \in DOMAIN rel, s \in Slots : r = <<p, s>> /\ r[1] = p /\ r[2] = s
  BY <1>1
<1>3. /\ pc = "open" /\ stmt \in Kinds /\ PagesOK /\ PagesOK'
      /\ UNCHANGED <<diskVars, torn, leftover, era, skipped, inTxn, currXID, goals, stmt>>
  BY DEF DeleteRec, UpdateRec, ctlVars, txnVars, history, TypeInv, Scalars, ChainInv, PhaseKnown
<1>4. CASE DeleteRec(r)
  <2>1. PICK body : body = Body("delete", r, Contents[r], Empty)
    OBVIOUS
  <2>2. /\ InsertLogRec(body) /\ stmt = "delete"
        /\ rel' = [rel EXCEPT ![p] = Stamp(DeleteFrom(rel[p], s, relFirst))]
    BY <1>2, <1>4, <2>1 DEF DeleteRec
  <2>3. Edits(p, s, Empty)
    BY <1>1, <1>2, <2>2, EditedSlots DEF Edits
  <2>4. /\ body.rid = <<p, s>> /\ body.type \in Changes \cup {"clr"}
        /\ Origin(body)
    BY <1>2, <1>3, <2>1, <2>2 DEF Body, Changes, Origin, Edit
  <2>5. Logs(body)
    BY <1>3, <2>2, <2>3, <2>4, EditLogs
  <2> QED
    BY <2>5
<1>5. ASSUME NEW w \in Val, UpdateRec(r, w)
      PROVE  \E body : Logs(body)
  <2>1. PICK body : body = Body("update", r, Contents[r], w)
    OBVIOUS
  <2>2. /\ InsertLogRec(body) /\ stmt = "update"
        /\ rel' = [rel EXCEPT ![p] = Stamp(PutAt(rel[p], s, w))]
    BY <1>2, <1>5, <2>1 DEF UpdateRec
  <2>3. Edits(p, s, w)
    BY <1>1, <1>2, <2>2, EditedSlots DEF Edits
  <2>4. /\ body.rid = <<p, s>> /\ body.type \in Changes \cup {"clr"}
        /\ Origin(body)
    BY <1>1, <1>2, <1>3, <2>1, <2>2 DEF Body, Changes, Origin, Edit
  <2>5. Logs(body)
    BY <1>3, <2>2, <2>3, <2>4, EditLogs
  <2> QED
    BY <2>5
<1> QED
  BY <1>4, <1>5

LEMMA ControlLogs ==
  ASSUME CommitT \/ AbortT \/ UndoEndAbort
  PROVE  \E body : Logs(body)
<1>1. /\ UNCHANGED <<diskVars, torn, leftover, era, skipped, inTxn, currXID, relVars>>
      /\ goals \subseteq goals'
      /\ stmt' = stmt \/ pc = "undo"
  BY DEF CommitT, AbortT, UndoEndAbort, txnVars, history
<1>2. PICK t \in {"commit", "abort", "end"} : InsertLogRec(Control(t))
  BY DEF CommitT, AbortT, UndoEndAbort
<1>3. PICK body : body = Control(t)
  OBVIOUS
<1>4. body.type = t /\ Origin(body) /\ body.type \notin Changes
  BY <1>3 DEF Control, Body, Origin, Changes
<1>5. Logs(body)
  BY <1>1, <1>2, <1>3, <1>4, SameContents DEF Logs
<1> QED
  BY <1>5

(* Undo stamps the page of a record it does not find.                      *)
LEMMA StampedOnly ==
  ASSUME TypeInv, pc # "wedged", NEW p, StampOnly(p)
  PROVE  /\ UNCHANGED relPages /\ DOMAIN rel' = DOMAIN rel
         /\ \A q \in DOMAIN rel : /\ rel'[q].rec = rel[q].rec
                                  /\ rel'[q] = rel[q] \/ rel'[q].era = era
         /\ Contents' = Contents
<1>1. /\ rel' = IF Readable(p) THEN [rel EXCEPT ![p] = Stamp(rel[p])] ELSE rel
      /\ UNCHANGED relPages
  BY DEF StampOnly
<1>2. ASSUME NEW q \in DOMAIN rel
      PROVE  Stamp(rel[q]).rec = rel[q].rec /\ Stamp(rel[q]).era = era
  <2>1. PICK pg : pg = rel[q]
    OBVIOUS
  <2>2. pg \in Page
    BY <2>1 DEF TypeInv, PagesOK
  <2>3. Stamp(pg).rec = pg.rec /\ Stamp(pg).era = era
    BY <2>2 DEF Page, Stamp
  <2> QED
    BY <2>1, <2>3
<1>3. /\ DOMAIN rel' = DOMAIN rel
      /\ \A q \in DOMAIN rel : /\ rel'[q].rec = rel[q].rec
                               /\ rel'[q] = rel[q] \/ rel'[q].era = era
  BY <1>1, <1>2
<1>4. Contents' = Contents
  <2>1. ASSUME NEW x \in Rid
        PROVE  /\ x[1] \in DOMAIN rel' <=> x[1] \in DOMAIN rel
               /\ x[1] \in DOMAIN rel => rel'[x[1]].rec[x[2]] = rel[x[1]].rec[x[2]]
    <3>1. PICK q : q = x[1]
      OBVIOUS
    <3>2. q \in DOMAIN rel => rel'[q].rec = rel[q].rec
      BY <1>3
    <3> QED
      BY <1>3, <3>1, <3>2
  <2>2. \A x \in Rid : Contents'[x] = Contents[x]
    BY <1>1, <2>1 DEF Contents, ContentsOf
  <2> QED
    BY <2>2 DEF Contents, ContentsOf
<1> QED
  BY <1>1, <1>3, <1>4

(* Undo puts back something when it takes back a delete or an update.      *)
LEMMA UndoLogs ==
  ASSUME TypeInv, LogInv, ChainInv, ClosedInv, TypeInv', ClosedInv', UndoChange,
         NEW body, body = CLR(cur), NEW r, r = log[cur].rid,
         NEW w, w = IF log[cur].type = "insert" THEN Empty ELSE log[cur].old
  PROVE  /\ Logs(body) /\ cur \in DOMAIN log /\ log[cur].type \in Changes
         /\ log[cur].type # "insert" => w # Empty
         /\ CanUndo(cur) => /\ r \in Rid /\ r[1] \in DOMAIN rel
                            /\ \E s \in Slots : r = <<r[1], s>> /\ Edits(r[1], s, w)
                            /\ \A x \in Rid : Contents'[x] = IF x = r THEN w ELSE Contents[x]
                            /\ cur' = log[cur].prev
         /\ ~CanUndo(cur) => /\ UNCHANGED <<relPages, cur>> /\ DOMAIN rel' = DOMAIN rel
                             /\ \A q \in DOMAIN rel : /\ rel'[q].rec = rel[q].rec
                                                      /\ rel'[q] = rel[q] \/ rel'[q].era = era
                             /\ Contents' = Contents
<1>1. /\ pc = "undo" /\ cur # LogEOF /\ log[cur].type \in Changes
      /\ InsertLogRec(body)
      /\ UNCHANGED <<diskVars, torn, leftover, era, skipped, inTxn, currXID, goals, stmt>>
  BY DEF UndoChange, UndoStops, txnVars, history
<1>2. cur \in DOMAIN log /\ RecordOK(cur, log[cur])
  BY <1>1, UndoAtRecord
<1>3. log[cur].type # "insert" => w # Empty
  BY <1>1, <1>2 DEF RecordOK, Imaged, Changes
<1>4. /\ body.rid = r /\ body.type = "clr" /\ Origin(body)
  BY <1>1, <1>2 DEF CLR, Origin, Changes
<1>5. CASE ~CanUndo(cur)
  <2>1. StampOnly(log[cur].rid[1]) /\ UNCHANGED cur
    BY <1>5 DEF UndoChange
  <2>2. /\ UNCHANGED relPages /\ DOMAIN rel' = DOMAIN rel
        /\ \A q \in DOMAIN rel : /\ rel'[q].rec = rel[q].rec
                                 /\ rel'[q] = rel[q] \/ rel'[q].era = era
        /\ Contents' = Contents
    BY <1>1, <2>1, StampedOnly
  <2>3. Logs(body)
    BY <1>1, <1>4, <2>2, EditKinds DEF Logs
  <2> QED
    BY <1>1, <1>2, <1>3, <1>5, <2>1, <2>2, <2>3
<1>6. CASE CanUndo(cur)
  <2>1. UndoPage(cur) /\ cur' = log[cur].prev
    BY <1>6 DEF UndoChange
  <2>2. r \in Rid /\ r[1] \in DOMAIN rel
    BY <1>2, <1>6, RecordPlace DEF CanUndo, TypeInv, RecordOK, LogRec
  <2>3. PICK p \in DOMAIN rel, s \in Slots : r = <<p, s>> /\ r[1] = p /\ r[2] = s
    BY <2>2, ContentsAt DEF TypeInv
  <2>4. PageOK(rel[p]) /\ PagesOK /\ PagesOK'
    BY <1>1, NoneHeld DEF TypeInv
  <2>5. Edits(p, s, w)
    <3>1. CASE log[cur].type = "insert"
      <4>1. rel' = [rel EXCEPT ![p] = Stamp(DeleteFrom(rel[p], s, relFirst))]
        BY <2>1, <2>3, <3>1 DEF UndoPage
      <4> QED
        BY <2>4, <3>1, <4>1, EditedSlots DEF Edits
    <3>2. CASE log[cur].type # "insert"
      <4>1. rel' = [rel EXCEPT ![p] = Stamp(PutAt(rel[p], s, w))]
        BY <2>1, <2>3, <3>2 DEF UndoPage
      <4> QED
        BY <2>4, <4>1, EditedSlots DEF Edits
    <3> QED
      BY <3>1, <3>2
  <2>6. \A x \in Rid : Contents'[x] = IF x = r THEN w ELSE Contents[x]
    BY <2>3, <2>4, <2>5, EditedContents
  <2>7. Logs(body)
    <3>1. body.rid = <<p, s>> /\ body.type \in Changes \cup {"clr"}
      BY <1>4, <2>3
    <3> QED
      BY <1>1, <1>4, <2>4, <2>5, <3>1, EditLogs
  <2> QED
    BY <1>1, <1>2, <1>3, <1>6, <2>1, <2>2, <2>3, <2>5, <2>6, <2>7
<1> QED
  BY <1>5, <1>6

-------------------------------------------------------------------------------
(* Every step keeps the log and the relation intact, unless a crash finds  *)

(* A call that does nothing to them: it passes to another statement only   *)
(* when the relation is on disk.                                           *)
Quiet ==
  /\ UNCHANGED <<log, logDisk, logPages, lastRec, rel, relDisk, relPages, relDiskPages,
                 torn, leftover, era>>
  /\ stmt' = stmt \/ RelForced
  /\ skipped' \in {skipped, {}} \/ RedoPass
  /\ inTxn' => goals' = {Contents} \/ UNCHANGED <<inTxn, currXID, goals>>

LEMMA StepKinds ==
  ASSUME TypeInv, LogInv, ChainInv, ClosedInv, TypeInv', ClosedInv', [Next]_vars
  PROVE  \/ Crash \/ Write
         \/ NewLog /\ pc = "idle"
         \/ \E body : Logs(body)
         \/ RedoApply /\ pc' # "failed"
         \/ UndoEndRecover
         \/ Quiet
<1>1. ASSUME NEW v \in Val, InsertRec(v)
      PROVE  Quiet \/ \E body : Logs(body)
  <2>1. CASE InsertInLostPage
    <3>1. UNCHANGED <<log, logDisk, logPages, lastRec, rel, relDisk, relPages, relDiskPages,
                      torn, leftover, era, stmt, skipped, inTxn, currXID, goals>>
      BY <1>1, <2>1 DEF InsertRec, InsertInLostPage, diskVars, logVars, relVars, txnVars, history
    <3> QED
      BY <3>1 DEF Quiet
  <2>2. CASE ~InsertInLostPage
    BY <1>1, <2>2, InsertLogs
  <2> QED
    BY <2>1, <2>2
<1>2. ASSUME NEW r \in Records, DeleteRec(r) \/ \E v \in Val : UpdateRec(r, v)
      PROVE  \E body : Logs(body)
  BY <1>2, DeleteOrUpdateLogs
<1>3. CASE CommitT \/ AbortT \/ UndoEndAbort
  BY <1>3, ControlLogs
<1>4. CASE UndoChange
  BY <1>4, UndoLogs
<1>5. CASE BeginT \/ \E k \in Kinds : StartStatement(k)
  <2>1. pc = "idle"
    BY <1>5 DEF BeginT, StartStatement
  <2>2. RelForced
    BY <2>1 DEF ClosedInv, ForcedWhenClosed
  <2>3. /\ UNCHANGED <<log, logDisk, logPages, lastRec, rel, relDisk, relPages, relDiskPages,
                       torn, leftover, era>>
        /\ skipped' \in {skipped, {}}
        /\ goals' = {Contents} \/ UNCHANGED <<inTxn, currXID, goals>>
    BY <1>5 DEF BeginT, StartStatement, BeginXact, diskVars, logVars, relVars, history
  <2> QED
    BY <2>2, <2>3 DEF Quiet
<1>6. CASE CommitDone \/ AbortForced \/ EndDone
  <2>1. /\ UNCHANGED <<log, logDisk, logPages, lastRec, rel, relDisk, relPages, relDiskPages,
                       torn, leftover, era, skipped>>
        /\ inTxn' => UNCHANGED <<inTxn, currXID, goals>>
    BY <1>6 DEF CommitDone, AbortForced, EndDone, diskVars, logVars, relVars, txnVars, history
  <2>2. stmt' = stmt \/ RelForced
    BY <1>6 DEF CommitDone, AbortForced, EndDone, ClosedInv, ForcedWhenClosed
  <2> QED
    BY <2>1, <2>2 DEF Quiet
<1>7. CASE RedoControl \/ RedoPass
  <2>1. UNCHANGED <<log, logDisk, logPages, lastRec, rel, relDisk, relPages, relDiskPages,
                    torn, leftover, era, inTxn, currXID, goals>>
    BY <1>7 DEF RedoControl, RedoPass, diskVars, logVars, relVars, txnVars, history
  <2>2. RelForced
    BY <1>7 DEF RedoControl, RedoPass, ClosedInv, ForcedWhenClosed
  <2>3. skipped' = skipped \/ RedoPass
    BY <1>7 DEF RedoControl, history
  <2> QED
    BY <2>1, <2>2, <2>3 DEF Quiet
<1>8. CASE \/ CloseFile \/ CloseDone \/ CheckpointBreaks \/ UndoSkip \/ RedoUnreadable
           \/ UNCHANGED vars
  <2>1. UNCHANGED <<log, logDisk, logPages, lastRec, rel, relDisk, relPages, relDiskPages,
                    torn, leftover, era, skipped, inTxn, currXID, goals>>
    BY <1>8 DEF CloseFile, CloseDone, CheckpointBreaks, UndoSkip, RedoUnreadable, vars,
                diskVars, logVars, relVars, txnVars, history
  <2>2. stmt' = stmt \/ RelForced
    BY <1>8 DEF CloseFile, CloseDone, CheckpointBreaks, UndoSkip, RedoUnreadable, vars
  <2> QED
    BY <2>1, <2>2 DEF Quiet
<1>9. CASE RedoApply /\ pc' = "failed"
  <2>1. UNCHANGED <<log, logDisk, logPages, lastRec, rel, relDisk, relPages, relDiskPages,
                    torn, leftover, era, skipped, stmt, inTxn, currXID, goals>>
    BY <1>9 DEF RedoApply, diskVars, logVars, relVars, txnVars, history, RedoAdvance
  <2> QED
    BY <2>1 DEF Quiet
<1>10. ASSUME Checkpoint \/ CloseDb, ~CheckpointBreaks
       PROVE  NewLog /\ pc = "idle"
  BY <1>10 DEF Checkpoint, CheckpointResets, CloseDb
<1> QED
  BY <1>1, <1>2, <1>3, <1>4, <1>5, <1>6, <1>7, <1>8, <1>9, <1>10 DEF Next, Request, Continue

(* What the open transaction has changed, it has logged.                   *)
OpenOnly ==
  inTxn => \E g \in goals : \A r \in Rid : Contents[r] # g[r] => r \in TouchedByOpen

LEMMA OpenOnlyKept ==
  ASSUME TypeInv, LogInv, ChainInv, ClosedInv, TypeInv', ClosedInv', [Next]_vars, OpenOnly
  PROVE  OpenOnly'
<1>1. CASE Crash \/ NewLog \/ UndoEndRecover
  BY <1>1 DEF Crash, NewLog, UndoEndRecover, OpenOnly
<1>2. CASE RedoApply
  <2>1. ~inTxn'
    BY <1>2 DEF RedoApply, txnVars, ChainInv, PhaseKnown, ClosedInv
  <2> QED
    BY <2>1 DEF OpenOnly
<1>3. CASE Write
  <2>1. UNCHANGED <<log, rel, relPages, inTxn, currXID, goals>>
    BY <1>3 DEF Write, WriteLogHdr, WriteLogPage, WriteDataPage, WritePFHeader, WriteRMHeader,
                logVars, relVars, txnVars, history
  <2> QED
    BY <2>1 DEF OpenOnly, TouchedByOpen, Contents, ContentsOf
<1>4. ASSUME NEW body, Logs(body)
      PROVE  OpenOnly'
  <2> SUFFICES ASSUME inTxn'
               PROVE  \E g \in goals' : \A r \in Rid : Contents'[r] # g[r] => r \in TouchedByOpen'
    BY DEF OpenOnly
  <2>1. /\ InsertLogRec(body) /\ UNCHANGED <<inTxn, currXID>> /\ goals \subseteq goals'
        /\ \A x \in Rid : Contents'[x] = Contents[x] \/ x = body.rid
    BY <1>4 DEF Logs
  <2>2. PICK g \in goals : \A r \in Rid : Contents[r] # g[r] => r \in TouchedByOpen
    BY <2>1 DEF OpenOnly
  <2>3. PICK n : n = NextLSN
    OBVIOUS
  <2>4. /\ DOMAIN log' = DOMAIN log \cup {n} /\ log'[n].rid = body.rid /\ log'[n].xid = currXID
        /\ \A k \in DOMAIN log : SameRecord(log'[k], log[k])
    BY <2>1, <2>3, AppendedLog
  <2>5. ASSUME NEW r \in Rid, Contents'[r] # g[r]
        PROVE  r \in TouchedByOpen'
    <3>1. CASE r = body.rid
      BY <2>1, <2>4, <3>1 DEF TouchedByOpen
    <3>2. CASE r # body.rid
      <4>1. r \in TouchedByOpen
        BY <2>1, <2>2, <2>5, <3>2
      <4> QED
        BY <2>1, <2>4, <4>1 DEF TouchedByOpen, SameRecord
    <3> QED
      BY <3>1, <3>2
  <2> QED
    BY <2>1, <2>5
<1>5. CASE Quiet
  <2>1. Contents' = Contents
    BY <1>5 DEF Quiet, Contents, ContentsOf
  <2>2. UNCHANGED log /\ (inTxn' => goals' = {Contents} \/ UNCHANGED <<inTxn, currXID, goals>>)
    BY <1>5 DEF Quiet
  <2>3. CASE inTxn' /\ goals' = {Contents}
    BY <2>1, <2>3 DEF OpenOnly
  <2>4. CASE inTxn' /\ UNCHANGED <<inTxn, currXID, goals>>
    <3>1. TouchedByOpen' = TouchedByOpen
      BY <2>2, <2>4 DEF TouchedByOpen
    <3> QED
      BY <2>1, <2>4, <3>1 DEF OpenOnly
  <2> QED
    BY <2>2, <2>3, <2>4 DEF OpenOnly
<1> QED
  BY <1>1, <1>2, <1>3, <1>4, <1>5, StepKinds

THEOREM OpenOnlyHolds == Spec => []OpenOnly
<1>1. Init => OpenOnly
  BY DEF Init, OpenOnly
<1>2. /\ TypeInv /\ LogInv /\ ChainInv /\ ClosedInv /\ TypeInv' /\ ClosedInv'
      /\ [Next]_vars /\ OpenOnly
      => OpenOnly'
  BY OpenOnlyKept
<1> QED
  BY <1>1, <1>2, AtomicInvHolds, TypeInvHolds, LogInvHolds, ChainInvHolds, PTL DEF Spec

(* Checkpoint and CloseDb destroy the log only when the relation is on     *)
(* disk in full; on a log not recovered from before, the disk alone then   *)
(* holds what was committed, but for what a transaction that CloseDb finds *)
(* open has logged a change of.                                            *)
THEOREM CheckpointHolds == Spec => CheckpointSafe
<1>1. ASSUME TypeInv, LogInv, ChainInv, ClosedInv, GoalsOK, AtomicInv, OpenOnly, [Next]_vars,
             era' # era
      PROVE  /\ RelForced
             /\ fresh /\ ~leftover =>
                  \E g \in goals : \A r \in Rid \ (skipped \cup TouchedByOpen) :
                    ContentsOf(relDisk, relDiskPages)[r] \in {g[r], Garbage}
  <2>1. pc = "idle"
    BY <1>1, NewLogWhenIdle
  <2>2. RelForced
    BY <1>1, <2>1 DEF ClosedInv, ForcedWhenClosed
  <2>3. ASSUME fresh, ~leftover
        PROVE  \E g \in goals : \A r \in Rid \ (skipped \cup TouchedByOpen) :
                 ContentsOf(relDisk, relDiskPages)[r] \in {g[r], Garbage}
    <3>1. PICK g \in goals : \A r \in Rid \ (skipped \cup TouchedByOpen) :
                              Contents[r] \in {g[r], Garbage}
      <4>1. CASE inTxn
        BY <1>1, <4>1 DEF OpenOnly
      <4>2. CASE ~inTxn
        BY <1>1, <2>1, <2>3, <4>2, AtomicMeans DEF AtomicAndDurable
      <4> QED
        BY <4>1, <4>2
    <3>2. \A p \in DOMAIN relDisk : p < relDiskPages => p \in DOMAIN rel
      <4>1. CASE Recovering
        BY <1>1, <2>3, <4>1 DEF AtomicInv, RecoveryState
      <4>2. CASE ~Recovering
        <5>1. PICK H, b : Normal(H, b)
          BY <1>1, <2>3, <4>2 DEF AtomicInv
        <5>2. DOMAIN relDisk \subseteq DOMAIN rel
          BY <5>1 DEF Normal, NormalPages
        <5> QED
          BY <5>2
      <4> QED
        BY <4>1, <4>2
    <3>3. \A p \in DOMAIN rel : p \in DOMAIN relDisk /\ relDisk[p] = rel[p]
      BY <2>2 DEF RelForced, RelClean
    <3>4. relDiskPages = relPages
      BY <2>2 DEF RelForced
    <3>5. \A r \in Rid : ContentsOf(relDisk, relDiskPages)[r] = Contents[r]
      BY <3>2, <3>3, <3>4 DEF Contents, ContentsOf
    <3> QED
      BY <3>1, <3>5
  <2> QED
    BY <2>2, <2>3
<1>2. TypeInv /\ LogInv /\ ChainInv /\ ClosedInv /\ GoalsOK /\ AtomicInv /\ OpenOnly /\ [Next]_vars
      => [era' # era =>
            /\ RelForced
            /\ fresh /\ ~leftover =>
                 \E g \in goals : \A r \in Rid \ (skipped \cup TouchedByOpen) :
                   ContentsOf(relDisk, relDiskPages)[r] \in {g[r], Garbage}]_vars
  BY <1>1
<1> QED
  BY <1>2, OpenOnlyHolds, AtomicInvHolds, TypeInvHolds, LogInvHolds, ChainInvHolds, PTL
     DEF Spec, CheckpointSafe

(* The free list. On a log that no transaction has used after a recovery,  *)
(* whatever the free list leads to, in memory or on disk, is a page that   *)
(* exists there or one whose loss recovery will notice.                    *)

(* A page the disk holds and the file's header counts. *)
OnDisk(q) == q \in DOMAIN relDisk /\ q < relDiskPages

(* A record of the log L whose repetition needs page q. *)
Names(L, l, q) == L[l].type \in Changes /\ L[l].rid[1] = q

(* The log on disk leads Redo to such a record. *)
Saved(q) == \E l \in DOMAIN log : Durable(l) /\ Names(log, l, q) /\ Names(logDisk, l, q)

(* Pages that are not lost unnoticed. *)
Kept == {q \in 1 .. MaxPages : OnDisk(q) \/ Saved(q)}

(* The list that first and the pages thread goes through S only; a page    *)
(* is off the list for being full only when its count says so.             *)
NextIn(pg, S) == pg.next \in S \cup {ListEnd} \/ (pg.next = PageFull /\ pg.num >= RecordsPerPage)

Threaded(pages, first, S) ==
  first \in S \cup {ListEnd} /\ \A p \in DOMAIN pages : NextIn(pages[p], S)

(* The log of a run of the process is one chain that fills its pages. *)
ChainDense ==
  IF lastRec = LogEOF
    THEN DOMAIN log = {}
    ELSE /\ lastRec \in Pos /\ DOMAIN log = UpTo(lastRec)
         /\ \A l \in DOMAIN log : l # lastRec => log[l].next = Successor(l)

(* Between restarts the list in memory is sound, and what is on disk of it *)
(* leads to pages on disk or to pages the log on disk tells of.            *)
NormalFree ==
  /\ ChainDense
  /\ Threaded(rel, relFirst, DOMAIN rel)
  /\ DOMAIN relDisk \subseteq DOMAIN rel /\ relDiskPages <= relPages
  /\ \A q \in DOMAIN rel : OnDisk(q) \/ \E l \in DOMAIN log : Names(log, l, q)
  /\ DOMAIN relDisk \subseteq Kept
  /\ Threaded(relDisk, relDiskFirst, Kept)

(* After a crash either no page of the list is missing, *)
Whole ==
  /\ DOMAIN relDisk = DOMAIN rel
  /\ Threaded(rel, relFirst, DOMAIN rel)
  /\ Threaded(relDisk, relDiskFirst, DOMAIN rel)

(* or Redo comes to a record of a page it cannot read, every time.         *)
Doomed ==
  /\ stmt = "redo" /\ pc \in {"redo", "closing", "failed"}
  /\ Frozen
  /\ \E l \in DOMAIN log : /\ Before(l)
                           /\ log[l].type \in Changes
                           /\ ~Readable(log[l].rid[1])
                           /\ Redoing => ~Older(l, cur)

RestoredFree ==
  /\ ~inTxn /\ logPages # 0
  /\ relPages = relDiskPages
  /\ DOMAIN rel = {p \in DOMAIN relDisk : p < relDiskPages}
  /\ Whole \/ Doomed

FreeInv == ~reused => fresh /\ IF Recovering THEN RestoredFree ELSE NormalFree

-------------------------------------------------------------------------------
(* What the edits of a page do to the list it is threaded on. *)
LEMMA PutThreads ==
  ASSUME NEW pg, PageOK(pg), NEW S, NextIn(pg, S), NEW s, NEW v, NEW l, NEW e
  PROVE  NextIn([PutAt(pg, s, v) EXCEPT !.lsn = l, !.era = e], S)
BY DEF PageOK, Page, NextIn, PutAt

LEMMA DeleteThreads ==
  ASSUME NEW pg, PageOK(pg), NEW S, NextIn(pg, S), NEW s, NEW l, NEW e, NEW p \in S,
         NEW ff \in S \cup {ListEnd}
  PROVE  /\ NextIn([DeleteFrom(pg, s, ff) EXCEPT !.lsn = l, !.era = e], S)
         /\ FirstFreeAfterDelete(pg, p, ff) \in S \cup {ListEnd}
<1> DEFINE q == [DeleteFrom(pg, s, ff) EXCEPT !.lsn = l, !.era = e]
<1>1. q.next = IF pg.num = RecordsPerPage THEN ff ELSE pg.next
  BY DEF PageOK, Page, DeleteFrom
<1>2. pg.num <= RecordsPerPage /\ pg.num \in Int
  <2>1. UsedSlots(pg) \in SUBSET Slots
    BY DEF UsedSlots
  <2>2. /\ Cardinality(UsedSlots(pg)) <= RecordsPerPage
        /\ Cardinality(UsedSlots(pg)) \in Nat
    BY <2>1, SlotsFinite, FS_Subset
  <2>3. pg.num \in Int /\ pg.num <= Cardinality(UsedSlots(pg))
    BY DEF PageOK, Page
  <2> QED
    BY <2>2, <2>3, PageAssumption
<1>3. q.next \in S \cup {ListEnd}
  BY <1>1, <1>2, PageAssumption DEF NextIn
<1> QED
  BY <1>3 DEF NextIn, FirstFreeAfterDelete

LEMMA InsertThreads ==
  ASSUME NEW pg, PageOK(pg), NEW S, NextIn(pg, S), NEW s \in Slots, pg.rec[s] = Empty,
         NEW v \in Val, NEW p \in S, NEW l, NEW e
  PROVE  /\ NextIn([InsertInto(pg, s, v) EXCEPT !.lsn = l, !.era = e], S)
         /\ FirstFreeAfterInsert(pg, p) \in S \cup {ListEnd}
<1> DEFINE q == [InsertInto(pg, s, v) EXCEPT !.lsn = l, !.era = e]
<1>1. /\ q.next = IF pg.num + 1 = RecordsPerPage THEN PageFull ELSE pg.next
      /\ q.num = pg.num + 1
  BY DEF PageOK, Page, InsertInto
<1>2. pg.num < RecordsPerPage
  <2>1. PICK X : X = UsedSlots(pg)
    OBVIOUS
  <2>2. X \subseteq Slots \ {s}
    BY <2>1 DEF UsedSlots
  <2>3. IsFiniteSet(Slots \ {s}) /\ Cardinality(Slots \ {s}) = RecordsPerPage - 1
    BY SlotsFinite, FS_RemoveElement
  <2>4. Cardinality(X) <= RecordsPerPage - 1
    BY <2>2, <2>3, FS_Subset
  <2>5. Cardinality(X) \in Nat /\ pg.num \in Int /\ pg.num <= Cardinality(X)
    BY <2>1, SlotsFinite DEF PageOK, Page
  <2> QED
    BY <2>4, <2>5, PageAssumption
<1>3. pg.next \in S \cup {ListEnd}
  BY <1>2, PageAssumption DEF NextIn, PageOK, Page
<1>4. pg.num + 1 = RecordsPerPage => q.num >= RecordsPerPage
  BY <1>1, PageAssumption
<1> QED
  BY <1>1, <1>3, <1>4 DEF NextIn, FirstFreeAfterInsert

-------------------------------------------------------------------------------
(* The chain, and what of it is on disk. *)
LEMMA DenseLogged ==
  ASSUME TypeInv, LogInv, ChainDense, lastRec = LogEOF => logPages = 0,
         NEW body, InsertLogRec(body)
  PROVE  /\ ChainDense'
         /\ \A l \in DOMAIN log : /\ l \in DOMAIN log'
                                  /\ \A q : Names(log', l, q) <=> Names(log, l, q)
         /\ \E l \in DOMAIN log' : log'[l].type = body.type /\ log'[l].rid = body.rid
<1>1. PICK n : n = NextLSN
  OBVIOUS
<1>2. /\ n \in Pos /\ n # LogEOF /\ n \notin DOMAIN log
      /\ DOMAIN log' = DOMAIN log \cup {n}
      /\ lastRec' = n
      /\ log'[n].type = body.type /\ log'[n].rid = body.rid
      /\ \A k \in DOMAIN log : /\ SameRecord(log'[k], log[k])
                               /\ log'[k].next = IF k = lastRec THEN n ELSE log[k].next
  BY <1>1, AppendedLog
<1>3. ChainDense'
  <2>1. CASE lastRec = LogEOF
    <3>1. n = ZeroLSN /\ DOMAIN log = {}
      BY <1>1, <2>1 DEF NextLSN, NeedsNewPage, ZeroLSN, ChainDense
    <3>2. UpTo(n) = {n}
      BY <1>2, <3>1, PosOrder DEF UpTo
    <3> QED
      BY <1>2, <3>1, <3>2 DEF ChainDense, LogEOF, LSN
  <2>2. CASE lastRec # LogEOF
    <3>1. /\ n = Successor(lastRec) /\ lastRec \in Pos /\ DOMAIN log = UpTo(lastRec)
          /\ \A l \in DOMAIN log : l # lastRec => log[l].next = Successor(l)
      BY <1>1, <2>2, NextPlace DEF LogInv, TypeInv, ChainDense
    <3>2. \A k \in Pos : ~Older(n, k) <=> ~Older(lastRec, k) \/ k = n
      BY <3>1, PosOrder, SuccessorOrder
    <3>3. DOMAIN log' = UpTo(n)
      BY <1>2, <3>1, <3>2 DEF UpTo
    <3>4. \A l \in DOMAIN log' : l # n => log'[l].next = Successor(l)
      BY <1>2, <3>1
    <3> QED
      BY <1>2, <3>3, <3>4 DEF ChainDense, LogEOF, LSN
  <2> QED
    BY <2>1, <2>2
<1> QED
  BY <1>2, <1>3 DEF Names, SameRecord

(* A logged record and what is on disk stay. *)
LEMMA SavedLogged ==
  ASSUME TypeInv, LogInv, ChainDense, lastRec = LogEOF => logPages = 0,
         NEW body, InsertLogRec(body), UNCHANGED <<logDisk, logDiskPages, relDisk, relDiskPages>>
  PROVE  Kept \subseteq Kept'
<1>1. \A l \in DOMAIN log : /\ l \in DOMAIN log'
                            /\ \A q : Names(log', l, q) <=> Names(log, l, q)
  BY DenseLogged
<1>2. \A l : Durable(l)' <=> Durable(l)
  BY DEF Durable, LogOnDisk
<1>3. \A l, q : Names(logDisk', l, q) <=> Names(logDisk, l, q)
  BY DEF Names
<1>4. \A q : (OnDisk(q) <=> OnDisk(q)') /\ (Saved(q) => Saved(q)')
  BY <1>1, <1>2, <1>3 DEF OnDisk, Saved
<1> QED
  BY <1>4 DEF Kept

(* When the log is forced, all of it is on disk. *)
LEMMA ForcedSaved ==
  ASSUME TypeInv, LogInv, NormalFree, LogForced
  PROVE  DOMAIN rel \subseteq Kept
<1>1. ASSUME NEW l \in DOMAIN log
      PROVE  Durable(l) /\ logDisk[l] = log[l]
  <2>1. /\ lastRec \in Pos /\ DOMAIN log = UpTo(lastRec) /\ l \in Pos /\ ~Older(lastRec, l)
        /\ \A k \in DOMAIN log : k # lastRec => log[k].next = Successor(k)
    BY DEF NormalFree, ChainDense, UpTo
  <2>2. \A k \in DOMAIN log : k \in LogOnDisk /\ logDisk[k] = log[k]
    BY DEF LogForced, LogClean, LogOnDisk, LogInv, LogPlaced
  <2>3. \A k \in UpTo(l) : k \in DOMAIN log /\ (Older(k, l) => k # lastRec)
    BY <2>1, PosOrder DEF UpTo
  <2> QED
    BY <2>1, <2>2, <2>3 DEF Durable
<1>2. ASSUME NEW q \in DOMAIN rel
      PROVE  OnDisk(q) \/ Saved(q)
  <2>1. OnDisk(q) \/ \E l \in DOMAIN log : Names(log, l, q)
    BY DEF NormalFree
  <2> QED
    BY <1>1, <2>1 DEF Saved, Names
<1>3. DOMAIN rel \subseteq 1 .. MaxPages
  BY DEF TypeInv, PagesOK
<1> QED
  BY <1>2, <1>3 DEF Kept

(* Writes take nothing back. *)
LEMMA SavedWritten ==
  ASSUME TypeInv, LogInv, ChainDense, Write, ClosedInv, relDiskPages <= relPages
  PROVE  Kept \subseteq Kept' /\ \A q : OnDisk(q) => OnDisk(q)'
<1>1. UNCHANGED log
  BY DEF Write, WriteLogHdr, WriteLogPage, WriteDataPage, WritePFHeader, WriteRMHeader, logVars
<1>2. \A q : OnDisk(q) => OnDisk(q)'
  <2>1. relDiskPages' \in {relDiskPages, relPages}
    BY DEF Write, WriteLogHdr, WriteLogPage, WriteDataPage, WritePFHeader, WriteRMHeader
  <2>2. DOMAIN relDisk \subseteq DOMAIN relDisk'
    <3>1. CASE UNCHANGED relDisk
      BY <3>1
    <3>2. ASSUME NEW p, WriteDataPage(p)
          PROVE  DOMAIN relDisk \subseteq DOMAIN relDisk'
      BY <3>2 DEF WriteDataPage
    <3> QED
      BY <3>1, <3>2 DEF Write, WriteLogHdr, WriteLogPage, WritePFHeader, WriteRMHeader
  <2>3. relDiskPages \in Int /\ relPages \in Int /\ \A q \in DOMAIN relDisk : q \in Int
    BY DEF TypeInv, Scalars, PagesOK
  <2> QED
    BY <2>1, <2>2, <2>3 DEF OnDisk
<1>3. ASSUME NEW q, Saved(q)
      PROVE  Saved(q)'
  <2>1. PICK l \in DOMAIN log : Durable(l) /\ Names(log, l, q) /\ Names(logDisk, l, q)
    BY <1>3 DEF Saved
  <2>2. /\ l \in Pos /\ l # LogEOF /\ lastRec # LogEOF
        /\ lastRec \in Pos /\ DOMAIN log = UpTo(lastRec) /\ ~Older(lastRec, l)
        /\ \A k \in DOMAIN log : k # lastRec => log[k].next = Successor(k)
    BY PosOrder DEF ChainDense, UpTo
  <2>3. \A k \in UpTo(l) : /\ k \in LogOnDisk /\ k \in DOMAIN logDisk /\ k \in DOMAIN log
                           /\ Older(k, l) => /\ logDisk[k].next = Successor(k)
                                             /\ log[k].next = Successor(k)
    BY <2>1, <2>2, PosOrder DEF Durable, UpTo, LogOnDisk
  <2>4. l \in UpTo(l)
    BY <2>2, PosOrder DEF UpTo
  <2>5. \A k \in UpTo(l) : k \in LogOnDisk' /\ logDisk'[k] \in {logDisk[k], log[k]}
    <3>1. CASE WriteLogHdr
      <4>1. logDisk' = logDisk /\ logDiskPages' = logPages
        BY <3>1 DEF WriteLogHdr
      <4> QED
        BY <2>3, <4>1 DEF LogOnDisk, LogInv, LogPlaced
    <3>2. ASSUME NEW pn \in 0 .. logPages - 1, WriteLogPage(pn)
          PROVE  \A k \in UpTo(l) : k \in LogOnDisk' /\ logDisk'[k] \in {logDisk[k], log[k]}
      <4>1. /\ logDiskPages' = logDiskPages
            /\ DOMAIN logDisk' = {k \in DOMAIN logDisk : k.pn # pn} \cup OnPage(pn)
            /\ \A k \in DOMAIN logDisk' : logDisk'[k] = IF k.pn = pn THEN log[k] ELSE logDisk[k]
        BY <3>2 DEF WriteLogPage
      <4> QED
        BY <2>3, <4>1 DEF LogOnDisk, OnPage
    <3>3. CASE UNCHANGED <<logDisk, logDiskPages>>
      BY <2>3, <3>3 DEF LogOnDisk
    <3> QED
      BY <3>1, <3>2, <3>3 DEF Write, WriteDataPage, WritePFHeader, WriteRMHeader
  <2>6. Durable(l)'
    BY <2>2, <2>3, <2>5 DEF Durable, LogEOF, LSN
  <2>7. Names(log', l, q) /\ Names(logDisk', l, q)
    BY <1>1, <2>1, <2>4, <2>5 DEF Names
  <2> QED
    BY <1>1, <2>6, <2>7 DEF Saved
<1> QED
  BY <1>2, <1>3 DEF Kept

-------------------------------------------------------------------------------
(* Steps between restarts. *)

(* A step that logs a record. *)
LEMMA FreeLogging ==
  ASSUME TypeInv, LogInv, ~Recovering, NormalFree, NEW body, InsertLogRec(body),
         UNCHANGED <<logDisk, logDiskPages, relDisk, relDiskPages, relDiskFirst>>,
         relPages' \in {relPages, relPages + 1}, Threaded(rel', relFirst', DOMAIN rel'),
         DOMAIN rel \subseteq DOMAIN rel',
         \A q \in DOMAIN rel' : q \notin DOMAIN rel => body.type \in Changes /\ body.rid[1] = q
  PROVE  NormalFree'
<1>1. lastRec = LogEOF => logPages = 0
  BY DEF Recovering
<1>2. ChainDense
  BY DEF NormalFree
<1>3. /\ ChainDense'
      /\ \A l \in DOMAIN log : /\ l \in DOMAIN log'
                               /\ \A q : Names(log', l, q) <=> Names(log, l, q)
      /\ \E l \in DOMAIN log' : log'[l].type = body.type /\ log'[l].rid = body.rid
  BY <1>1, <1>2, DenseLogged
<1>4. Kept \subseteq Kept'
  BY <1>1, <1>2, SavedLogged
<1>5. \A q : OnDisk(q) => OnDisk(q)'
  BY DEF OnDisk
<1>6. \A q \in DOMAIN rel' : OnDisk(q)' \/ \E l \in DOMAIN log' : Names(log', l, q)
  BY <1>3, <1>5 DEF NormalFree, Names
<1>7. DOMAIN relDisk' \subseteq Kept' /\ Threaded(relDisk', relDiskFirst', Kept')
  BY <1>4 DEF NormalFree, Threaded, NextIn
<1>8. relDiskPages' <= relPages'
  BY DEF NormalFree, TypeInv, Scalars
<1>9. DOMAIN relDisk' \subseteq DOMAIN rel'
  BY DEF NormalFree
<1> QED
  BY <1>3, <1>6, <1>7, <1>8, <1>9 DEF NormalFree

(* The list after an edit of one of its pages. *)
LEMMA ThreadedEdit ==
  ASSUME NEW R, NEW first, NEW S, Threaded(R, first, S), NEW p, NEW q, NextIn(q, S),
         NEW ff \in S \cup {ListEnd}
  PROVE  Threaded([R EXCEPT ![p] = q], ff, S)
BY DEF Threaded

LEMMA FreeInsert ==
  ASSUME TypeInv, LogInv, ClosedInv, ~Recovering, NormalFree, NEW v \in Val, InsertRec(v)
  PROVE  NormalFree'
<1>0. UNCHANGED <<logDisk, logDiskPages, relDisk, relDiskPages, relDiskFirst>>
  BY DEF InsertRec, diskVars
<1>1. CASE InsertInNewPage(v)
  <2> DEFINE body == Body("insert", <<relPages, 0>>, Empty, v)
             pg   == Stamp(InsertInto(BlankPage, 0, v))
  <2>1. /\ InsertLogRec(body) /\ relPages' = relPages + 1
        /\ rel' = [q \in DOMAIN rel \cup {relPages} |-> IF q = relPages THEN pg ELSE rel[q]]
        /\ relFirst' = FirstFreeAfterInsert(BlankPage, relPages)
    BY <1>1 DEF InsertInNewPage
  <2>2. PICK S : S = DOMAIN rel \cup {relPages}
    OBVIOUS
  <2>3. NextIn(BlankPage, S) /\ 0 \in Slots /\ BlankPage.rec[0] = Empty /\ PageOK(BlankPage)
    BY BlankOK, PageAssumption DEF NextIn, BlankPage, Slots
  <2>4. NextIn(pg, S) /\ relFirst' \in S \cup {ListEnd}
    BY <2>1, <2>2, <2>3, InsertThreads DEF Stamp
  <2>5. \A q \in DOMAIN rel : NextIn(rel[q], S)
    BY <2>2 DEF NormalFree, Threaded, NextIn
  <2>6. Threaded(rel', relFirst', DOMAIN rel')
    BY <2>1, <2>2, <2>4, <2>5 DEF Threaded
  <2>7. body.type \in Changes /\ body.rid[1] = relPages
    BY DEF Body, Changes
  <2> HIDE DEF body, pg
  <2> QED
    BY <1>0, <2>1, <2>6, <2>7, FreeLogging
<1>2. CASE InsertInFreePage(v)
  <2>1. PICK p, s, pg : p = relFirst /\ s = FindAvailableSlot(rel[relFirst]) /\ pg = rel[p]
    OBVIOUS
  <2>2. /\ p \in DOMAIN rel /\ HasRoom(pg)
        /\ InsertLogRec(Body("insert", <<p, s>>, Empty, v))
        /\ rel' = [rel EXCEPT ![p] = Stamp(InsertInto(pg, s, v))]
        /\ relFirst' = FirstFreeAfterInsert(pg, p) /\ relPages' = relPages
    BY <1>2, <2>1 DEF InsertInFreePage, Readable
  <2>3. s \in Slots /\ pg.rec[s] = Empty /\ PageOK(pg) /\ NextIn(pg, DOMAIN rel)
    BY <2>1, <2>2, FreeSlotFound, NoneHeld DEF InsertRec, NormalFree, Threaded
  <2>4. /\ NextIn(Stamp(InsertInto(pg, s, v)), DOMAIN rel)
        /\ relFirst' \in DOMAIN rel \cup {ListEnd}
    BY <2>2, <2>3, InsertThreads DEF Stamp
  <2>5. Threaded(rel', relFirst', DOMAIN rel') /\ DOMAIN rel' = DOMAIN rel
    BY <2>2, <2>4, ThreadedEdit DEF NormalFree
  <2> QED
    BY <1>0, <2>2, <2>5, FreeLogging
<1>3. CASE InsertInFullPage(v)
  <2>1. PICK f, pg : f = relFirst /\ pg = rel[f]
    OBVIOUS
  <2>2. /\ InsertLogRec(Body("insert", NoRid, Empty, v)) /\ relPages' = relPages
        /\ f \in DOMAIN rel /\ rel' = [rel EXCEPT ![f] = CountInsert(pg)]
        /\ relFirst' = FirstFreeAfterInsert(pg, f)
    BY <1>3, <2>1 DEF InsertInFullPage, Readable
  <2>3. pg \in Page /\ NextIn(pg, DOMAIN rel)
    BY <2>1, <2>2 DEF TypeInv, PagesOK, NormalFree, Threaded
  <2>4. NextIn(CountInsert(pg), DOMAIN rel) /\ relFirst' \in DOMAIN rel \cup {ListEnd}
    <3>1. /\ CountInsert(pg).num = pg.num + 1 /\ pg.num \in Int /\ RecordsPerPage \in Int
          /\ CountInsert(pg).next = IF pg.num + 1 = RecordsPerPage THEN PageFull ELSE pg.next
      BY <2>3, PageAssumption DEF CountInsert, Page
    <3> QED
      BY <2>2, <2>3, <3>1 DEF NextIn, FirstFreeAfterInsert
  <2>5. Threaded(rel', relFirst', DOMAIN rel') /\ DOMAIN rel' = DOMAIN rel
    BY <2>2, <2>4, ThreadedEdit DEF NormalFree
  <2> QED
    BY <1>0, <2>2, <2>5, FreeLogging
<1>4. CASE InsertInLostPage
  <2>1. FALSE
    BY <1>4 DEF InsertInLostPage, NormalFree, Threaded, Readable, ClosedInv
  <2> QED
    BY <2>1
<1> QED
  BY <1>1, <1>2, <1>3, <1>4 DEF InsertRec

LEMMA FreeDeleteOrUpdate ==
  ASSUME TypeInv, LogInv, ~Recovering, NormalFree, NEW r \in Records,
         DeleteRec(r) \/ \E v \in Val : UpdateRec(r, v)
  PROVE  NormalFree'
<1>1. UNCHANGED <<logDisk, logDiskPages, relDisk, relDiskPages, relDiskFirst, relPages>>
  BY DEF DeleteRec, UpdateRec, diskVars
<1>2. PICK p, s, pg : p = r[1] /\ s = r[2] /\ pg = rel[p]
  OBVIOUS
<1>3. p \in DOMAIN rel /\ PageOK(pg) /\ NextIn(pg, DOMAIN rel)
  BY <1>2, RecordPlace, NoneHeld DEF DeleteRec, UpdateRec, TypeInv, NormalFree, Threaded
<1>4. CASE DeleteRec(r)
  <2>1. /\ InsertLogRec(Body("delete", r, Contents[r], Empty))
        /\ rel' = [rel EXCEPT ![p] = Stamp(DeleteFrom(pg, s, relFirst))]
        /\ relFirst' = FirstFreeAfterDelete(pg, p, relFirst)
    BY <1>2, <1>4 DEF DeleteRec
  <2>2. relFirst \in DOMAIN rel \cup {ListEnd}
    BY DEF NormalFree, Threaded
  <2>3. /\ NextIn(Stamp(DeleteFrom(pg, s, relFirst)), DOMAIN rel)
        /\ relFirst' \in DOMAIN rel \cup {ListEnd}
    BY <1>3, <2>1, <2>2, DeleteThreads DEF Stamp
  <2>4. Threaded(rel', relFirst', DOMAIN rel') /\ DOMAIN rel' = DOMAIN rel
    BY <2>1, <2>3, ThreadedEdit DEF NormalFree
  <2> QED
    BY <1>1, <2>1, <2>4, FreeLogging
<1>5. ASSUME NEW v \in Val, UpdateRec(r, v)
      PROVE  NormalFree'
  <2>1. /\ InsertLogRec(Body("update", r, Contents[r], v))
        /\ rel' = [rel EXCEPT ![p] = Stamp(PutAt(pg, s, v))]
        /\ relFirst' = relFirst
    BY <1>2, <1>5 DEF UpdateRec
  <2>2. relFirst \in DOMAIN rel \cup {ListEnd}
    BY DEF NormalFree, Threaded
  <2>3. NextIn(Stamp(PutAt(pg, s, v)), DOMAIN rel)
    BY <1>3, PutThreads DEF Stamp
  <2>4. Threaded(rel', relFirst', DOMAIN rel') /\ DOMAIN rel' = DOMAIN rel
    BY <2>1, <2>2, <2>3, ThreadedEdit DEF NormalFree
  <2> QED
    BY <1>1, <2>1, <2>4, FreeLogging
<1> QED
  BY <1>4, <1>5

(* The edit of a page that takes back a record. *)
LEMMA ThreadedUndo ==
  ASSUME TypeInv, UndoPage(cur), CanUndo(cur), cur \in DOMAIN log, pc = "undo",
         Threaded(rel, relFirst, DOMAIN rel)
  PROVE  Threaded(rel', relFirst', DOMAIN rel') /\ DOMAIN rel' = DOMAIN rel
<1>1. PICK p, s, pg : p = log[cur].rid[1] /\ s = log[cur].rid[2] /\ pg = rel[p]
  OBVIOUS
<1>2. p \in DOMAIN rel /\ PageOK(pg) /\ NextIn(pg, DOMAIN rel) /\ relFirst \in DOMAIN rel \cup {ListEnd}
  BY <1>1, NoneHeld DEF CanUndo, Readable, Threaded
<1>3. CASE log[cur].type = "insert"
  <2>1. /\ rel' = [rel EXCEPT ![p] = Stamp(DeleteFrom(pg, s, relFirst))]
        /\ relFirst' = FirstFreeAfterDelete(pg, p, relFirst)
    BY <1>1, <1>3 DEF UndoPage
  <2>2. /\ NextIn(Stamp(DeleteFrom(pg, s, relFirst)), DOMAIN rel)
        /\ relFirst' \in DOMAIN rel \cup {ListEnd}
    BY <1>2, <2>1, DeleteThreads DEF Stamp
  <2> QED
    BY <2>1, <2>2, ThreadedEdit
<1>4. CASE log[cur].type # "insert"
  <2>1. rel' = [rel EXCEPT ![p] = Stamp(PutAt(pg, s, log[cur].old))] /\ relFirst' = relFirst
    BY <1>1, <1>4 DEF UndoPage
  <2>2. NextIn(Stamp(PutAt(pg, s, log[cur].old)), DOMAIN rel)
    BY <1>2, PutThreads DEF Stamp
  <2> QED
    BY <1>2, <2>1, <2>2, ThreadedEdit
<1> QED
  BY <1>3, <1>4

(* A page that was stamped and not edited. *)
LEMMA ThreadedStamp ==
  ASSUME TypeInv, NEW p, StampOnly(p), Threaded(rel, relFirst, DOMAIN rel)
  PROVE  Threaded(rel', relFirst', DOMAIN rel') /\ DOMAIN rel' = DOMAIN rel
<1>1. CASE rel' = rel
  BY <1>1 DEF StampOnly
<1>2. CASE Readable(p)
  <2>1. p \in DOMAIN rel /\ rel' = [rel EXCEPT ![p] = Stamp(rel[p])] /\ relFirst' = relFirst
    BY <1>2 DEF StampOnly, Readable
  <2>2. rel[p] \in Page
    BY <2>1 DEF TypeInv, PagesOK
  <2>3. Stamp(rel[p]).next = rel[p].next /\ Stamp(rel[p]).num = rel[p].num
    BY <2>2 DEF Stamp, Page
  <2>4. NextIn(Stamp(rel[p]), DOMAIN rel) /\ relFirst \in DOMAIN rel \cup {ListEnd}
    BY <2>1, <2>3 DEF Threaded, NextIn
  <2> QED
    BY <2>1, <2>4, ThreadedEdit
<1> QED
  BY <1>1, <1>2 DEF StampOnly

LEMMA FreeUndo ==
  ASSUME TypeInv, LogInv, ~Recovering, NormalFree, UndoChange
  PROVE  NormalFree'
<1>1. UNCHANGED <<logDisk, logDiskPages, relDisk, relDiskPages, relDiskFirst, relPages>>
  BY DEF UndoChange, UndoPage, StampOnly, diskVars, relVars
<1>2. Threaded(rel, relFirst, DOMAIN rel)
  BY DEF NormalFree
<1>3. Threaded(rel', relFirst', DOMAIN rel') /\ DOMAIN rel' = DOMAIN rel
  <2>1. CASE CanUndo(cur) /\ UndoPage(cur)
    <3>1. cur \in DOMAIN log /\ pc = "undo"
      BY UndoAtRecord DEF UndoChange, UndoStops
    <3> QED
      BY <1>2, <2>1, <3>1, ThreadedUndo
  <2>2. CASE StampOnly(log[cur].rid[1])
    BY <1>2, <2>2, ThreadedStamp
  <2> QED
    BY <2>1, <2>2 DEF UndoChange
<1>4. PICK body : body = CLR(cur)
  OBVIOUS
<1>5. InsertLogRec(body)
  BY <1>4 DEF UndoChange
<1> QED
  BY <1>1, <1>3, <1>5, FreeLogging

LEMMA FreeControl ==
  ASSUME TypeInv, LogInv, ~Recovering, NormalFree, CommitT \/ AbortT \/ UndoEndAbort
  PROVE  NormalFree'
<1>1. UNCHANGED <<logDisk, logDiskPages, relDisk, relDiskPages, relDiskFirst, rel, relPages, relFirst>>
  BY DEF CommitT, AbortT, UndoEndAbort, diskVars, relVars
<1>2. \E body : InsertLogRec(body)
  BY DEF CommitT, AbortT, UndoEndAbort
<1>3. Threaded(rel', relFirst', DOMAIN rel')
  BY <1>1 DEF NormalFree
<1> QED
  BY <1>1, <1>2, <1>3, FreeLogging

(* A step that changes neither files nor the log. *)
LEMMA FreeQuiet ==
  ASSUME NormalFree,
         UNCHANGED <<logDisk, logDiskPages, relDisk, relDiskPages, relDiskFirst,
                     log, lastRec, rel, relPages, relFirst>>
  PROVE  NormalFree'
<1>1. ChainDense'
  BY DEF NormalFree, ChainDense, LogEOF, LSN
<1>2. Kept' = Kept /\ \A q : OnDisk(q)' <=> OnDisk(q)
  <2>1. \A l : Durable(l)' <=> Durable(l)
    BY DEF Durable, LogOnDisk
  <2>2. \A q : (OnDisk(q)' <=> OnDisk(q)) /\ (Saved(q)' <=> Saved(q))
    BY <2>1 DEF OnDisk, Saved, Names
  <2> QED
    BY <2>2 DEF Kept
<1> QED
  BY <1>1, <1>2 DEF NormalFree, Threaded, NextIn, Names

LEMMA FreeWrite ==
  ASSUME TypeInv, LogInv, ClosedInv, NormalFree, Write
  PROVE  NormalFree'
<1>1. UNCHANGED <<log, lastRec, rel, relPages, relFirst>>
  BY DEF Write, WriteLogHdr, WriteLogPage, WriteDataPage, WritePFHeader, WriteRMHeader,
         logVars, relVars
<1>2. ChainDense'
  BY <1>1 DEF NormalFree, ChainDense, LogEOF, LSN
<1>3. Kept \subseteq Kept' /\ \A q : OnDisk(q) => OnDisk(q)'
  BY SavedWritten DEF NormalFree
<1>4. \A q \in DOMAIN rel' : OnDisk(q)' \/ \E l \in DOMAIN log' : Names(log', l, q)
  BY <1>1, <1>3 DEF NormalFree, Names
<1>5. relDiskPages' <= relPages'
  <2>1. relDiskPages' \in {relDiskPages, relPages}
    BY DEF Write, WriteLogHdr, WriteLogPage, WriteDataPage, WritePFHeader, WriteRMHeader
  <2> QED
    BY <1>1, <2>1 DEF NormalFree, TypeInv, Scalars
<1>6. /\ DOMAIN relDisk' \subseteq DOMAIN rel'
      /\ DOMAIN relDisk' \subseteq Kept' /\ Threaded(relDisk', relDiskFirst', Kept')
  <2>1. ASSUME NEW p, WriteDataPage(p)
        PROVE  /\ DOMAIN relDisk' \subseteq DOMAIN rel'
               /\ DOMAIN relDisk' \subseteq Kept' /\ Threaded(relDisk', relDiskFirst', Kept')
    <3>1. /\ p \in DOMAIN rel /\ LogForced /\ relDiskFirst' = relDiskFirst
          /\ relDisk' = [q \in DOMAIN relDisk \cup {p} |-> IF q = p THEN rel[p] ELSE relDisk[q]]
      BY <2>1 DEF WriteDataPage, LogFirst
    <3>2. DOMAIN rel \subseteq Kept
      BY <3>1, ForcedSaved
    <3>3. NextIn(rel[p], Kept') /\ \A q \in DOMAIN relDisk : NextIn(relDisk[q], Kept')
      BY <1>3, <3>1, <3>2 DEF NormalFree, Threaded, NextIn
    <3>4. relDiskFirst \in Kept' \cup {ListEnd} /\ DOMAIN relDisk \subseteq Kept'
      BY <1>3 DEF NormalFree, Threaded
    <3> QED
      BY <1>1, <1>3, <3>1, <3>2, <3>3, <3>4 DEF NormalFree, Threaded
  <2>2. CASE WriteRMHeader
    <3>1. LogForced /\ relDiskFirst' = relFirst /\ relDisk' = relDisk
      BY <2>2 DEF WriteRMHeader, LogFirst
    <3>2. DOMAIN rel \subseteq Kept
      BY <3>1, ForcedSaved
    <3>3. relFirst \in Kept' \cup {ListEnd}
      BY <1>3, <3>2 DEF NormalFree, Threaded
    <3> QED
      BY <1>1, <1>3, <3>1, <3>3 DEF NormalFree, Threaded, NextIn
  <2>3. CASE UNCHANGED <<relDisk, relDiskFirst>>
    BY <1>1, <1>3, <2>3 DEF NormalFree, Threaded, NextIn
  <2> QED
    BY <2>1, <2>2, <2>3 DEF Write, WriteLogHdr, WriteLogPage, WritePFHeader
<1> QED
  BY <1>1, <1>2, <1>4, <1>5, <1>6 DEF NormalFree

(* A new log, when all is on disk. *)
LEMMA FreeNewLog ==
  ASSUME TypeInv, ClosedInv, pc = "idle", NewLog,
         Threaded(rel, relFirst, DOMAIN rel), DOMAIN relDisk \subseteq DOMAIN rel
  PROVE  NormalFree'
<1>1. /\ RelForced /\ \A p \in DOMAIN rel : p < relPages
  BY DEF ClosedInv, ForcedWhenClosed
<1>2. /\ DOMAIN log' = {} /\ lastRec' = LogEOF
      /\ UNCHANGED <<relDisk, relDiskPages, relDiskFirst, rel, relPages, relFirst>>
  BY DEF NewLog, EmptyLog, relVars
<1>3. /\ relDiskPages = relPages /\ relDiskFirst = relFirst /\ relPages \in Int
      /\ \A p \in DOMAIN rel : p \in DOMAIN relDisk /\ relDisk[p] = rel[p]
  BY <1>1 DEF RelForced, RelClean, TypeInv, Scalars
<1>4. \A q \in DOMAIN rel : OnDisk(q)' /\ q \in 1 .. MaxPages
  BY <1>1, <1>2, <1>3 DEF OnDisk, TypeInv, PagesOK
<1>5. DOMAIN rel \subseteq Kept'
  BY <1>4 DEF Kept
<1>6. \A p \in DOMAIN relDisk : relDisk[p] = rel[p] /\ NextIn(rel[p], DOMAIN rel)
  BY <1>3 DEF Threaded
<1>7. Threaded(relDisk', relDiskFirst', Kept')
  BY <1>2, <1>3, <1>5, <1>6 DEF Threaded, NextIn
<1>8. ChainDense'
  BY <1>2 DEF ChainDense, LogEOF, LSN
<1> QED
  BY <1>2, <1>3, <1>4, <1>5, <1>7, <1>8 DEF NormalFree

(* A crash. *)
LEMMA FreeCrashEmpty ==
  ASSUME TypeInv, LogInv, Crash, logDiskPages = 0,
         Threaded(relDisk, relDiskFirst, Kept), DOMAIN relDisk \subseteq Kept
  PROVE  NormalFree' /\ ~Recovering'
<1>1. /\ UNCHANGED <<logDisk, logDiskPages, relDisk, relDiskPages, relDiskFirst>>
      /\ log' = [l \in {l \in DOMAIN logDisk : l.pn < logDiskPages} |-> logDisk[l]]
      /\ rel' = [p \in {p \in DOMAIN relDisk : p < relDiskPages} |-> relDisk[p]]
      /\ relPages' = relDiskPages /\ relFirst' = relDiskFirst
      /\ lastRec' = LogEOF /\ logPages' = 0 /\ stmt' = "none"
  BY DEF Crash, diskVars
<1>2. LogOnDisk = {}
  BY DEF LogOnDisk, LogInv, LogPlaced, IsLSN
<1>3. DOMAIN log' = {}
  BY <1>1, <1>2 DEF LogOnDisk
<1>4. ASSUME NEW q \in Kept
      PROVE  OnDisk(q)
  <2> SUFFICES ASSUME Saved(q)
               PROVE  FALSE
    BY DEF Kept
  <2>1. PICK l \in DOMAIN log : Durable(l)
    BY DEF Saved
  <2>2. l \in Pos /\ l # LogEOF /\ l \in UpTo(l)
    BY PosOrder DEF TypeInv, LogOK, RecordOK, UpTo
  <2> QED
    BY <1>2, <2>1, <2>2 DEF Durable
<1>5. \A q \in Kept : q \in DOMAIN rel' /\ q \in Kept'
  BY <1>1, <1>4 DEF OnDisk, Kept
<1>6. DOMAIN rel' = DOMAIN relDisk /\ \A p \in DOMAIN relDisk : rel'[p] = relDisk[p]
  BY <1>1, <1>5
<1>7. /\ Threaded(rel', relFirst', DOMAIN rel')
      /\ Threaded(relDisk', relDiskFirst', Kept')
  BY <1>1, <1>5, <1>6 DEF Threaded, NextIn
<1>8. ChainDense' /\ ~Recovering'
  BY <1>1, <1>3 DEF ChainDense, Recovering, LogEOF, LSN
<1>9. \A q \in DOMAIN rel' : OnDisk(q)'
  BY <1>1 DEF OnDisk
<1>10. relDiskPages' <= relPages'
  BY <1>1 DEF TypeInv, Scalars
<1> QED
  BY <1>1, <1>5, <1>6, <1>7, <1>8, <1>9, <1>10 DEF NormalFree

LEMMA CrashedPages ==
  ASSUME TypeInv, LogInv, Crash, logDiskPages # 0
  PROVE  /\ UNCHANGED <<logDisk, logDiskPages, relDisk, relDiskPages, relDiskFirst>>
         /\ DOMAIN log' = LogOnDisk /\ \A l \in LogOnDisk : log'[l] = logDisk[l]
         /\ \A q : q \in DOMAIN rel' <=> OnDisk(q)
         /\ \A q : Readable(q)' <=> OnDisk(q)
         /\ \A p \in DOMAIN rel' : rel'[p] = relDisk[p]
         /\ relPages' = relDiskPages /\ relFirst' = relDiskFirst
         /\ stmt' = "redo" /\ pc' = "redo" /\ cur' = ZeroLSN
         /\ Frozen' /\ Recovering'
         /\ ~inTxn' /\ logPages' # 0 /\ relPages' = relDiskPages'
         /\ DOMAIN rel' = {p \in DOMAIN relDisk' : p < relDiskPages'}
<1>1. /\ UNCHANGED <<logDisk, logDiskPages, relDisk, relDiskPages, relDiskFirst>>
      /\ log' = [l \in {l \in DOMAIN logDisk : l.pn < logDiskPages} |-> logDisk[l]]
      /\ rel' = [p \in {p \in DOMAIN relDisk : p < relDiskPages} |-> relDisk[p]]
      /\ relPages' = relDiskPages /\ relFirst' = relDiskFirst
      /\ logPages' = logDiskPages /\ ~inTxn'
      /\ stmt' = "redo" /\ pc' = "redo" /\ cur' = ZeroLSN
  BY DEF Crash, diskVars
<1>2. DOMAIN log' = LogOnDisk /\ \A l \in LogOnDisk : log'[l] = logDisk[l]
  BY <1>1 DEF LogOnDisk
<1>3. Frozen'
  BY <1>1, <1>2 DEF Frozen, LogClean, LogOnDisk
<1>4. Recovering'
  BY <1>1 DEF Recovering
<1> QED
  BY <1>1, <1>2, <1>3, <1>4 DEF OnDisk, Readable

LEMMA CrashWhole ==
  ASSUME TypeInv, LogInv, Crash, logDiskPages # 0, NEW S, \A q \in S : OnDisk(q),
         Threaded(relDisk, relDiskFirst, S), DOMAIN relDisk \subseteq S
  PROVE  RestoredFree'
<1>1. /\ UNCHANGED <<relDisk, relDiskFirst>>
      /\ \A q : q \in DOMAIN rel' <=> OnDisk(q)
      /\ \A p \in DOMAIN rel' : rel'[p] = relDisk[p]
      /\ relFirst' = relDiskFirst
  BY CrashedPages
<1>2. S \subseteq DOMAIN rel' /\ DOMAIN rel' = DOMAIN relDisk
  BY <1>1 DEF OnDisk
<1>3. Whole'
  BY <1>1, <1>2 DEF Whole, Threaded, NextIn
<1> QED
  BY <1>3, CrashedPages DEF RestoredFree

(* Either the list is on disk in full or Redo will not get by. *)
LEMMA FreeCrash ==
  ASSUME TypeInv, LogInv, NormalFree, Crash, logDiskPages # 0
  PROVE  Recovering' /\ RestoredFree'
<1>1. CASE \A q \in Kept : OnDisk(q)
  <2>1. Threaded(relDisk, relDiskFirst, Kept) /\ DOMAIN relDisk \subseteq Kept
    BY DEF NormalFree
  <2> QED
    BY <1>1, <2>1, CrashWhole, CrashedPages
<1>2. ASSUME NEW q \in Kept, ~OnDisk(q)
      PROVE  Recovering' /\ RestoredFree'
  <2>1. PICK l \in DOMAIN log : Durable(l) /\ Names(logDisk, l, q)
    BY <1>2 DEF Kept, Saved
  <2>2. l \in Pos /\ l # LogEOF /\ l \in UpTo(l)
    BY PosOrder DEF TypeInv, LogOK, RecordOK, UpTo
  <2>3. \A k \in UpTo(l) : k \in LogOnDisk /\ (Older(k, l) => logDisk[k].next = Successor(k))
    BY <2>1, <2>2 DEF Durable
  <2>4. l \in DOMAIN log' /\ log'[l] = logDisk[l]
    BY <2>2, <2>3, CrashedPages
  <2>5. Before(l)'
    <3> SUFFICES ASSUME NEW k \in Pos, Older(k, l)
                 PROVE  k \in DOMAIN log' /\ log'[k].next = Successor(k)
      BY DEF Before
    <3>1. k \in UpTo(l)
      BY <2>2, PosOrder DEF UpTo
    <3> QED
      BY <2>3, <3>1, CrashedPages
  <2>6. log'[l].type \in Changes /\ ~Readable(log[l].rid[1])'
    <3>1. log'[l].type \in Changes /\ log'[l].rid[1] = q
      BY <2>1, <2>4 DEF Names
    <3>2. ~Readable(q)'
      BY <1>2, CrashedPages
    <3> QED
      BY <3>1, <3>2 DEF Readable
  <2>7. ~Older(l, cur')
    BY <2>2, PosOrder, CrashedPages
  <2>8. Doomed'
    BY <2>4, <2>5, <2>6, <2>7, CrashedPages DEF Doomed
  <2> QED
    BY <2>8, CrashedPages DEF RestoredFree
<1> QED
  BY <1>1, <1>2

-------------------------------------------------------------------------------
(* Steps of recovery. *)

(* A step that changes no log record and no set of pages. *)
LEMMA DoomedSame ==
  ASSUME Doomed, UNCHANGED <<log, logPages, logDisk, logDiskPages, relPages>>,
         DOMAIN rel' = DOMAIN rel, stmt' = stmt, pc' \in {"redo", "closing", "failed"},
         Redoing' => Redoing /\ cur' = cur
  PROVE  Doomed'
<1>1. Frozen'
  BY DEF Doomed, Frozen, LogOnDisk, LogClean
<1>2. PICK l \in DOMAIN log : /\ Before(l)
                              /\ log[l].type \in Changes
                              /\ ~Readable(log[l].rid[1])
                              /\ Redoing => ~Older(l, cur)
  BY DEF Doomed
<1>3. Before(l)' /\ ~Readable(log[l].rid[1])'
  BY <1>2 DEF Before, Readable
<1> QED
  BY <1>1, <1>2, <1>3 DEF Doomed

LEMMA RestoredWrite ==
  ASSUME TypeInv, LogInv, ChainInv, Recovering, RestoredFree, Write
  PROVE  Recovering' /\ RestoredFree'
<1>1. UNCHANGED <<log, logPages, lastRec, rel, relPages, relFirst, inTxn, stmt, pc, cur>>
  BY DEF Write, WriteLogHdr, WriteLogPage, WriteDataPage, WritePFHeader, WriteRMHeader,
         logVars, relVars, txnVars, ctlVars
<1>2. relDiskPages' = relDiskPages
  BY DEF Write, WriteLogHdr, WriteLogPage, WriteDataPage, WritePFHeader, WriteRMHeader,
         RestoredFree
<1>3. DOMAIN relDisk' = DOMAIN relDisk
  <2>1. ASSUME NEW p, WriteDataPage(p)
        PROVE  DOMAIN relDisk' = DOMAIN relDisk
    BY <2>1 DEF WriteDataPage, RestoredFree
  <2>2. CASE UNCHANGED relDisk
    BY <2>2
  <2> QED
    BY <2>1, <2>2 DEF Write, WriteLogHdr, WriteLogPage, WritePFHeader, WriteRMHeader
<1>4. CASE Whole
  <2>1. /\ \A p \in DOMAIN relDisk' : relDisk'[p] = relDisk[p] \/ relDisk'[p] = rel[p]
        /\ relDiskFirst' \in {relDiskFirst, relFirst}
    <3>1. ASSUME NEW q, WriteDataPage(q)
          PROVE  /\ \A p \in DOMAIN relDisk' : relDisk'[p] = relDisk[p] \/ relDisk'[p] = rel[p]
                 /\ relDiskFirst' = relDiskFirst
      BY <3>1 DEF WriteDataPage
    <3>2. CASE UNCHANGED relDisk /\ relDiskFirst' \in {relDiskFirst, relFirst}
      BY <3>2
    <3> QED
      BY <3>1, <3>2 DEF Write, WriteLogHdr, WriteLogPage, WritePFHeader, WriteRMHeader
  <2>2. Whole'
    BY <1>1, <1>3, <1>4, <2>1 DEF Whole, Threaded, NextIn
  <2> QED
    BY <1>1, <1>2, <1>3, <2>2 DEF RestoredFree, Recovering, LogEOF, LSN
<1>5. CASE Doomed
  <2>1. logPages = logDiskPages /\ \A l \in DOMAIN log : LogClean(l)
    BY <1>5 DEF Doomed, Frozen
  <2>2. UNCHANGED <<logDisk, logDiskPages>>
    BY <2>1 DEF Write, WriteLogHdr, WriteLogPage, WriteDataPage, WritePFHeader, WriteRMHeader,
                OnPage
  <2>3. Redoing' => Redoing
    BY <1>1 DEF Redoing
  <2>4. pc \in {"redo", "closing", "failed"}
    BY <1>5 DEF Doomed
  <2>5. Doomed'
    BY <1>1, <1>5, <2>2, <2>3, <2>4, DoomedSame
  <2> QED
    BY <1>1, <1>2, <1>3, <2>5 DEF RestoredFree, Recovering, LogEOF, LSN
<1> QED
  BY <1>4, <1>5 DEF RestoredFree

LEMMA RestoredCrash ==
  ASSUME TypeInv, LogInv, RestoredFree, Crash
  PROVE  IF Recovering' THEN RestoredFree' ELSE NormalFree'
<1>1. CASE Whole
  <2>1. \A q \in DOMAIN rel : OnDisk(q) /\ q \in Kept
    BY DEF OnDisk, RestoredFree, Kept, TypeInv, PagesOK
  <2>2. Threaded(relDisk, relDiskFirst, DOMAIN rel) /\ DOMAIN relDisk \subseteq DOMAIN rel
    BY <1>1 DEF Whole
  <2>3. Threaded(relDisk, relDiskFirst, Kept) /\ DOMAIN relDisk \subseteq Kept
    BY <2>1, <2>2 DEF Threaded, NextIn
  <2>4. CASE logDiskPages = 0
    BY <2>3, <2>4, FreeCrashEmpty
  <2>5. CASE logDiskPages # 0
    BY <2>1, <2>2, <2>5, CrashWhole, CrashedPages
  <2> QED
    BY <2>4, <2>5
<1>2. CASE Doomed
  <2>1. PICK l \in DOMAIN log : Before(l) /\ log[l].type \in Changes /\ ~Readable(log[l].rid[1])
    BY <1>2 DEF Doomed
  <2>2. /\ logDiskPages # 0
        /\ DOMAIN log = LogOnDisk /\ \A k \in DOMAIN log : log[k] = logDisk[k]
    BY <1>2 DEF Doomed, Frozen, RestoredFree, LogClean, LogOnDisk, LogInv, LogPlaced
  <2>3. DOMAIN log' = DOMAIN log /\ \A k \in DOMAIN log : log'[k] = log[k]
    BY <2>2, CrashedPages
  <2>4. Before(l)'
    BY <2>1, <2>3 DEF Before
  <2>5. ~Readable(log[l].rid[1])'
    <3>1. \A q : Readable(q)' => Readable(q)
      BY <2>2, CrashedPages DEF OnDisk, Readable, RestoredFree
    <3> QED
      BY <2>1, <2>3, <3>1 DEF Readable
  <2>6. ~Older(l, cur')
    BY <2>2, CrashedPages, PosOrder DEF TypeInv, LogOK, RecordOK
  <2>7. Doomed'
    BY <2>1, <2>2, <2>3, <2>4, <2>5, <2>6, CrashedPages DEF Doomed
  <2> QED
    BY <2>2, <2>7, CrashedPages DEF RestoredFree
<1> QED
  BY <1>1, <1>2 DEF RestoredFree

(* A step that changes no file and leaves Redo, if it is on, where it is. *)
LEMMA RestoredQuiet ==
  ASSUME RestoredFree, Whole \/ (stmt' = stmt /\ pc' \in {"redo", "closing", "failed"}),
         Redoing' => Redoing /\ cur' = cur,
         UNCHANGED <<log, logPages, logDisk, logDiskPages, relDisk, relDiskPages, relDiskFirst,
                     rel, relPages, relFirst, inTxn>>
  PROVE  RestoredFree'
<1>1. CASE Whole
  <2>1. Whole'
    BY <1>1 DEF Whole, Threaded, NextIn
  <2> QED
    BY <2>1 DEF RestoredFree
<1>2. CASE Doomed /\ ~Whole
  <2>1. Doomed'
    BY <1>2, DoomedSame
  <2> QED
    BY <2>1 DEF RestoredFree
<1> QED
  BY <1>1, <1>2 DEF RestoredFree

(* Redo of a record before the one that dooms it. *)
LEMMA DoomedRedo ==
  ASSUME TypeInv, Doomed, pc = "redo", cur \in DOMAIN log,
         log[cur].type \notin Changes \/ Readable(log[cur].rid[1]),
         RedoAdvance, pc' \in {"redo", "closing"} \/ pc' = stmt',
         UNCHANGED <<log, logPages, logDisk, logDiskPages, relPages>>, DOMAIN rel' = DOMAIN rel
  PROVE  Doomed'
<1>1. PICK l \in DOMAIN log : /\ Before(l)
                              /\ log[l].type \in Changes
                              /\ ~Readable(log[l].rid[1])
                              /\ Redoing => ~Older(l, cur)
  BY DEF Doomed
<1>2. l \in Pos /\ cur \in Pos /\ ~Older(l, cur) /\ cur # l
  BY <1>1 DEF TypeInv, LogOK, RecordOK, Redoing
<1>3. Older(cur, l)
  BY <1>2, PosOrder
<1>4. log[cur].next = Successor(cur) /\ Successor(cur) # LogEOF
  BY <1>1, <1>2, <1>3, SuccessorOrder DEF Before
<1>5. stmt' = "redo" /\ cur' = Successor(cur)
  BY <1>4 DEF RedoAdvance
<1>6. ~Older(l, cur')
  BY <1>2, <1>3, <1>5, PosOrder, SuccessorOrder
<1>7. Before(l)' /\ ~Readable(log[l].rid[1])'
  BY <1>1 DEF Before, Readable
<1>8. Frozen'
  BY DEF Doomed, Frozen, LogOnDisk, LogClean
<1> QED
  BY <1>1, <1>5, <1>6, <1>7, <1>8 DEF Doomed

LEMMA ThreadedRedo ==
  ASSUME TypeInv, RedoPage(cur), Redoable(cur), pc = "redo", Threaded(rel, relFirst, DOMAIN rel)
  PROVE  Threaded(rel', relFirst', DOMAIN rel') /\ DOMAIN rel' = DOMAIN rel
<1>1. PICK p, s, pg : p = log[cur].rid[1] /\ s = log[cur].rid[2] /\ pg = rel[p]
  OBVIOUS
<1>2. p \in DOMAIN rel /\ PageOK(pg) /\ NextIn(pg, DOMAIN rel) /\ relFirst \in DOMAIN rel \cup {ListEnd}
  BY <1>1, NoneHeld DEF Redoable, Readable, Threaded
<1>3. CASE RedoKind(cur) = "delete"
  <2>1. /\ rel' = [rel EXCEPT ![p] = [DeleteFrom(pg, s, relFirst) EXCEPT !.lsn = cur, !.era = era]]
        /\ relFirst' = FirstFreeAfterDelete(pg, p, relFirst)
    BY <1>1, <1>3 DEF RedoPage, RedoKind
  <2>2. /\ NextIn([DeleteFrom(pg, s, relFirst) EXCEPT !.lsn = cur, !.era = era], DOMAIN rel)
        /\ relFirst' \in DOMAIN rel \cup {ListEnd}
    BY <1>2, <2>1, DeleteThreads
  <2> QED
    BY <2>1, <2>2, ThreadedEdit
<1>4. CASE RedoKind(cur) # "delete"
  <2>1. PICK v : /\ rel' = [rel EXCEPT ![p] = [PutAt(pg, s, v) EXCEPT !.lsn = cur, !.era = era]]
                 /\ relFirst' = relFirst
    <3>1. relFirst' = relFirst
      BY <1>4 DEF RedoPage
    <3>2. CASE RedoKind(cur) = "insert" \/ log[cur].type = "update"
      <4>1. rel' = [rel EXCEPT ![p] = [PutAt(pg, s, log[cur].new) EXCEPT !.lsn = cur, !.era = era]]
        BY <1>1, <1>4, <3>2 DEF RedoPage
      <4> QED
        BY <3>1, <4>1
    <3>3. CASE ~(RedoKind(cur) = "insert" \/ log[cur].type = "update")
      <4>1. rel' = [rel EXCEPT ![p] = [PutAt(pg, s, Garbage) EXCEPT !.lsn = cur, !.era = era]]
        BY <1>1, <1>4, <3>3 DEF RedoPage
      <4> QED
        BY <3>1, <4>1
    <3> QED
      BY <3>2, <3>3
  <2>2. NextIn([PutAt(pg, s, v) EXCEPT !.lsn = cur, !.era = era], DOMAIN rel)
    BY <1>2, PutThreads
  <2> QED
    BY <1>2, <2>1, <2>2, ThreadedEdit
<1> QED
  BY <1>3, <1>4

LEMMA RestoredRedo ==
  ASSUME TypeInv, ChainInv, ClosedInv, RestoredFree,
         RedoUnreadable \/ RedoControl \/ RedoPass \/ RedoApply
  PROVE  Recovering' /\ RestoredFree'
<1>1. /\ pc = "redo" /\ stmt = "redo" /\ Redoing
      /\ UNCHANGED <<log, logPages, logDisk, logDiskPages, relDisk, relDiskPages, relDiskFirst,
                     relPages, inTxn>>
  BY DEF RedoUnreadable, RedoControl, RedoPass, RedoApply, RedoPage, ChainInv, PhaseKnown, Redoing,
         diskVars, logVars, relVars, txnVars
<1>2. stmt' \in {"undo", "redo"}
  BY <1>1 DEF RedoUnreadable, RedoControl, RedoPass, RedoApply, RedoAdvance
<1>3. Recovering'
  BY <1>1, <1>2 DEF Recovering, RestoredFree
<1>4. CASE UNCHANGED <<rel, relFirst, stmt, cur>> /\ pc' = "failed"
  BY <1>1, <1>3, <1>4, RestoredQuiet DEF Redoing
<1>5. CASE /\ cur \in DOMAIN log /\ RedoAdvance /\ pc' \in {"closing", stmt'}
           /\ log[cur].type \notin Changes \/ Readable(log[cur].rid[1])
           /\ UNCHANGED <<rel, relFirst>> \/ (RedoPage(cur) /\ Redoable(cur))
  <2>1. CASE Whole
    <3>1. Threaded(rel', relFirst', DOMAIN rel') /\ DOMAIN rel' = DOMAIN rel
      <4>1. Threaded(rel, relFirst, DOMAIN rel)
        BY <2>1 DEF Whole
      <4>2. CASE UNCHANGED <<rel, relFirst>>
        BY <4>1, <4>2 DEF Threaded, NextIn
      <4>3. CASE RedoPage(cur) /\ Redoable(cur)
        BY <1>1, <4>1, <4>3, ThreadedRedo
      <4> QED
        BY <1>5, <4>2, <4>3
    <3>2. Whole'
      BY <1>1, <2>1, <3>1 DEF Whole, Threaded, NextIn
    <3> QED
      BY <1>1, <1>3, <3>1, <3>2 DEF RestoredFree
  <2>2. CASE Doomed
    <3>1. DOMAIN rel' = DOMAIN rel
      BY <1>5 DEF RedoPage
    <3>2. Doomed'
      BY <1>1, <1>5, <2>2, <3>1, DoomedRedo
    <3> QED
      BY <1>1, <1>3, <3>1, <3>2 DEF RestoredFree
  <2> QED
    BY <2>1, <2>2 DEF RestoredFree
<1>6. CASE RedoUnreadable
  BY <1>4, <1>6 DEF RedoUnreadable, relVars
<1>7. CASE RedoControl \/ RedoPass
  <2>1. cur \in DOMAIN log /\ RedoAdvance /\ pc' = stmt' /\ UNCHANGED <<rel, relFirst>>
    BY <1>7 DEF RedoControl, RedoPass, Redoable, relVars
  <2>2. log[cur].type \notin Changes \/ Readable(log[cur].rid[1])
    BY <1>7 DEF RedoControl, RedoPass, Redoable, Changes
  <2> QED
    BY <1>5, <2>1, <2>2
<1>8. CASE RedoApply
  <2>1. CASE pc' = "failed" /\ UNCHANGED <<relVars, stmt, cur>>
    BY <1>4, <2>1 DEF relVars
  <2>2. CASE RedoPage(cur) /\ RedoAdvance /\ pc' = "closing" /\ Redoable(cur)
    BY <1>5, <2>2 DEF Redoable
  <2> QED
    BY <1>8, <2>1, <2>2 DEF RedoApply
<1> QED
  BY <1>6, <1>7, <1>8 DEF RedoControl

LEMMA RestoredUndo ==
  ASSUME TypeInv, LogInv, ChainInv, RestoredFree, UndoChange
  PROVE  Recovering' /\ RestoredFree'
<1>1. /\ stmt = "undo" /\ UNCHANGED <<relDisk, relDiskPages, relDiskFirst, relPages, inTxn, stmt>>
  BY DEF UndoChange, UndoPage, StampOnly, diskVars, relVars, txnVars, ChainInv, PhaseKnown
<1>2. Recovering'
  BY <1>1 DEF Recovering, RestoredFree
<1>3. Whole
  BY <1>1 DEF RestoredFree, Doomed
<1>4. logPages' # 0
  BY DEF UndoChange, InsertLogRec, RestoredFree, LogInv, LogPlaced
<1>5. Threaded(rel', relFirst', DOMAIN rel') /\ DOMAIN rel' = DOMAIN rel
  <2>1. CASE CanUndo(cur) /\ UndoPage(cur)
    <3>1. cur \in DOMAIN log /\ pc = "undo"
      BY UndoAtRecord DEF UndoChange, UndoStops
    <3> QED
      BY <1>3, <2>1, <3>1, ThreadedUndo DEF Whole
  <2>2. CASE StampOnly(log[cur].rid[1])
    BY <1>3, <2>2, ThreadedStamp DEF Whole
  <2> QED
    BY <2>1, <2>2 DEF UndoChange
<1>6. Whole'
  BY <1>1, <1>3, <1>5 DEF Whole, Threaded, NextIn
<1> QED
  BY <1>1, <1>2, <1>4, <1>5, <1>6 DEF RestoredFree

-------------------------------------------------------------------------------
(* No transaction starts on a log recovered from while the log counts as   *)
(* not used again; and it stays fresh.                                     *)
LEMMA ReusedKept ==
  ASSUME TypeInv, ChainInv, [Next]_vars, ~reused', FreeInv
  PROVE  /\ ~reused /\ fresh /\ fresh'
         /\ Recovering => ~(BeginT \/ \E k \in Kinds : StartStatement(k))
<1>1. CASE BeginT \/ \E k \in Kinds : StartStatement(k)
  <2>1. CASE UNCHANGED history /\ inTxn
    <3>1. ~reused /\ fresh /\ fresh' /\ (Recovering => ~inTxn)
      BY <2>1 DEF history, FreeInv, RestoredFree
    <3> QED
      BY <2>1, <3>1
  <2>2. CASE BeginXact /\ pc = "idle"
    <3>1. ~reused /\ ~OnRecoveredLog
      BY <2>2 DEF BeginXact, TypeInv, Scalars
    <3>2. fresh /\ fresh'
      BY <2>2, <3>1 DEF BeginXact, FreeInv
    <3>3. ~Recovering
      BY <2>2, <3>1 DEF Recovering, OnRecoveredLog, ChainInv, PhaseKnown
    <3> QED
      BY <3>1, <3>2, <3>3
  <2> QED
    BY <1>1, <2>1, <2>2 DEF BeginT, StartStatement, TypeInv, Scalars
<1>2. CASE ~(BeginT \/ \E k \in Kinds : StartStatement(k))
  <2>1. reused' = reused /\ (fresh' = fresh \/ fresh')
    <3>1. CASE Request
      BY <1>2, <3>1 DEF Request, InsertRec, DeleteRec, UpdateRec, CloseFile, CommitT, AbortT,
                        Checkpoint, CheckpointResets, CheckpointBreaks, CloseDb, NewLog, history
    <3>2. CASE Continue
      BY <3>2 DEF Continue, CloseDone, CommitT, CommitDone, AbortForced, EndDone, UndoChange,
                  UndoSkip, UndoEndAbort, UndoEndRecover, RedoUnreadable, RedoControl, RedoPass,
                  RedoApply, history
    <3>3. CASE Write
      BY <3>3 DEF Write, WriteLogHdr, WriteLogPage, WriteDataPage, WritePFHeader, WriteRMHeader,
                  history
    <3>4. CASE Crash
      BY <3>4 DEF Crash
    <3>5. CASE UNCHANGED vars
      BY <3>5 DEF vars
    <3> QED
      BY <3>1, <3>2, <3>3, <3>4, <3>5 DEF Next
  <2>2. ~reused /\ fresh
    BY <2>1 DEF FreeInv
  <2> QED
    BY <1>2, <2>1, <2>2
<1> QED
  BY <1>1, <1>2

(* A step between restarts. *)
LEMMA FreeStep ==
  ASSUME TypeInv, LogInv, ChainInv, ClosedInv, ~Recovering, NormalFree, [Next]_vars, ~Crash
  PROVE  NormalFree'
<1>1. pc # "redo" /\ (pc = "undo" => inTxn)
  BY DEF Recovering, ChainInv, PhaseKnown, ClosedInv
<1>2. CASE Write
  BY <1>2, FreeWrite
<1>3. ASSUME NEW v \in Val, InsertRec(v)
      PROVE  NormalFree'
  BY <1>3, FreeInsert
<1>4. ASSUME NEW r \in Records, DeleteRec(r) \/ \E v \in Val : UpdateRec(r, v)
      PROVE  NormalFree'
  BY <1>4, FreeDeleteOrUpdate
<1>5. CASE CommitT \/ AbortT \/ UndoEndAbort
  BY <1>5, FreeControl
<1>6. CASE UndoChange
  BY <1>6, FreeUndo
<1>7. CASE NewLog /\ pc = "idle"
  <2>1. Threaded(rel, relFirst, DOMAIN rel) /\ DOMAIN relDisk \subseteq DOMAIN rel
    BY DEF NormalFree
  <2> QED
    BY <1>7, <2>1, FreeNewLog
<1>8. CASE \/ BeginT \/ (\E k \in Kinds : StartStatement(k)) \/ CloseFile \/ CloseDone
           \/ CommitDone \/ AbortForced \/ EndDone \/ UndoSkip \/ CheckpointBreaks
           \/ UNCHANGED vars
  <2>1. UNCHANGED <<logDisk, logDiskPages, relDisk, relDiskPages, relDiskFirst,
                    log, lastRec, rel, relPages, relFirst>>
    BY <1>8 DEF BeginT, StartStatement, CloseFile, CloseDone, CommitDone, AbortForced, EndDone,
                UndoSkip, CheckpointBreaks, diskVars, logVars, relVars, vars
  <2> QED
    BY <2>1, FreeQuiet
<1>9. ~(UndoEndRecover \/ RedoUnreadable \/ RedoControl \/ RedoPass \/ RedoApply)
  BY <1>1 DEF UndoEndRecover, RedoUnreadable, RedoControl, RedoPass, RedoApply
<1> QED
  BY <1>2, <1>3, <1>4, <1>5, <1>6, <1>7, <1>8, <1>9
     DEF Next, Request, Continue, Checkpoint, CheckpointResets, CloseDb

(* A step of recovery, or after it. *)
LEMMA RestoredStep ==
  ASSUME TypeInv, LogInv, ChainInv, ClosedInv, Recovering, RestoredFree, [Next]_vars, ~Crash,
         ~(BeginT \/ \E k \in Kinds : StartStatement(k))
  PROVE  IF Recovering' THEN RestoredFree' ELSE NormalFree'
<1>1. ~inTxn /\ logPages # 0 /\ (Whole \/ Doomed)
  BY DEF RestoredFree
<1>2. pc \notin {"open", "committing", "aborting", "ending"}
  BY <1>1 DEF ClosedInv
<1>3. CASE Write
  BY <1>3, RestoredWrite
<1>4. CASE RedoUnreadable \/ RedoControl \/ RedoPass \/ RedoApply
  BY <1>4, RestoredRedo
<1>5. CASE UndoChange
  BY <1>5, RestoredUndo
<1>6. CASE NewLog /\ pc = "idle"
  <2>1. Whole
    BY <1>1, <1>6 DEF Doomed
  <2>2. Threaded(rel, relFirst, DOMAIN rel) /\ DOMAIN relDisk \subseteq DOMAIN rel
    BY <2>1 DEF Whole
  <2>3. NormalFree'
    BY <1>6, <2>2, FreeNewLog
  <2>4. ~Recovering'
    <3>1. lastRec' = LogEOF /\ logPages' = 0 /\ stmt' = stmt
      BY <1>6 DEF NewLog, ctlVars
    <3> QED
      BY <1>6, <3>1 DEF Recovering, ChainInv, PhaseKnown
  <2> QED
    BY <2>3, <2>4
<1>7. CASE \/ CloseDone \/ UndoSkip \/ UndoEndRecover \/ (CheckpointBreaks /\ pc = "idle")
           \/ UNCHANGED vars
  <2>1. UNCHANGED <<log, logPages, logDisk, logDiskPages, relDisk, relDiskPages, relDiskFirst,
                    rel, relPages, relFirst, inTxn>>
    BY <1>7 DEF CloseDone, UndoSkip, UndoEndRecover, CheckpointBreaks,
                diskVars, logVars, relVars, txnVars, vars
  <2>2. CASE CloseDone
    <3>1. /\ pc = "closing" /\ UNCHANGED <<cur, lastRec>>
          /\ \/ stmt \in {"undo", "redo"} /\ pc' = stmt /\ stmt' = stmt
             \/ stmt \in Kinds /\ pc' \in {"tocommit", "idle"}
      BY <2>2 DEF CloseDone, logVars
    <3>2. Redoing' => Redoing
      BY <3>1, KindsKnown DEF Redoing
    <3>3. Whole \/ (stmt' = stmt /\ pc' \in {"redo", "closing", "failed"})
      BY <1>1, <3>1, KindsKnown DEF Doomed
    <3>4. RestoredFree'
      BY <2>1, <3>1, <3>2, <3>3, RestoredQuiet
    <3>5. Recovering'
      BY <1>1, <2>1, <3>1, KindsKnown DEF Recovering, LogEOF, LSN
    <3> QED
      BY <3>4, <3>5
  <2>3. CASE UndoSkip \/ UndoEndRecover
    <3>1. pc = "undo" /\ stmt = "undo" /\ ~Redoing'
      BY <2>3 DEF UndoSkip, UndoEndRecover, ChainInv, PhaseKnown, Redoing
    <3>2. Whole
      BY <1>1, <3>1 DEF Doomed
    <3>3. RestoredFree'
      BY <2>1, <3>1, <3>2, RestoredQuiet
    <3>4. Recovering'
      BY <1>1, <2>1, <2>3, <3>1 DEF Recovering, UndoSkip, UndoEndRecover, LogEOF, LSN
    <3> QED
      BY <3>3, <3>4
  <2>4. CASE CheckpointBreaks /\ pc = "idle"
    <3>1. pc' = "wedged" /\ UNCHANGED <<stmt, lastRec>>
      BY <2>4 DEF CheckpointBreaks, logVars
    <3>2. Whole /\ ~Redoing'
      BY <1>1, <2>4, <3>1 DEF Doomed, Redoing
    <3>3. RestoredFree'
      BY <2>1, <3>2, RestoredQuiet
    <3>4. Recovering'
      BY <2>1, <3>1 DEF Recovering, LogEOF, LSN
    <3> QED
      BY <3>3, <3>4
  <2>5. CASE UNCHANGED vars
    <3>1. UNCHANGED <<stmt, pc, cur, lastRec>>
      BY <2>5 DEF vars
    <3>2. Redoing' => Redoing
      BY <3>1 DEF Redoing
    <3>3. Whole \/ (stmt' = stmt /\ pc' \in {"redo", "closing", "failed"})
      BY <1>1, <3>1 DEF Doomed
    <3>4. RestoredFree'
      BY <2>1, <3>1, <3>2, <3>3, RestoredQuiet
    <3>5. Recovering'
      BY <2>1, <3>1 DEF Recovering, LogEOF, LSN
    <3> QED
      BY <3>4, <3>5
  <2> QED
    BY <1>7, <2>2, <2>3, <2>4, <2>5
<1> QED
  BY <1>1, <1>2, <1>3, <1>4, <1>5, <1>6, <1>7
     DEF Next, Request, Continue, Checkpoint, CheckpointResets, CloseDb, InsertRec, DeleteRec,
         UpdateRec, CloseFile, CommitT, AbortT, CommitDone, AbortForced, EndDone, UndoEndAbort

LEMMA InitFree == Init => FreeInv
<1> SUFFICES ASSUME Init
             PROVE  fresh /\ ~Recovering /\ NormalFree
  BY DEF FreeInv
<1>1. /\ DOMAIN log = {} /\ DOMAIN rel = {} /\ DOMAIN relDisk = {} /\ lastRec = LogEOF
      /\ relPages = 1 /\ relDiskPages = 1 /\ relFirst = ListEnd /\ relDiskFirst = ListEnd
      /\ fresh /\ stmt = "none" /\ logPages = 0
  BY DEF Init, EmptyLog
<1> QED
  BY <1>1 DEF NormalFree, ChainDense, Threaded, Recovering

LEMMA FreeKept ==
  ASSUME TypeInv, LogInv, ChainInv, ClosedInv, FreeInv, [Next]_vars
  PROVE  FreeInv'
<1> SUFFICES ASSUME ~reused'
             PROVE  fresh' /\ IF Recovering' THEN RestoredFree' ELSE NormalFree'
  BY DEF FreeInv
<1>1. /\ ~reused /\ fresh /\ fresh'
      /\ Recovering => ~(BeginT \/ \E k \in Kinds : StartStatement(k))
  BY ReusedKept
<1>2. CASE Recovering
  <2>1. RestoredFree
    BY <1>1, <1>2 DEF FreeInv
  <2> QED
    BY <1>1, <1>2, <2>1, RestoredStep, RestoredCrash
<1>3. CASE ~Recovering
  <2>1. NormalFree
    BY <1>1, <1>3 DEF FreeInv
  <2>2. CASE Crash /\ logDiskPages = 0
    <3>1. Threaded(relDisk, relDiskFirst, Kept) /\ DOMAIN relDisk \subseteq Kept
      BY <2>1 DEF NormalFree
    <3> QED
      BY <1>1, <2>2, <3>1, FreeCrashEmpty
  <2>3. CASE Crash /\ logDiskPages # 0
    BY <1>1, <2>1, <2>3, FreeCrash
  <2>4. CASE ~Crash
    BY <1>1, <1>3, <2>1, <2>4, FreeStep, NormalStays
  <2> QED
    BY <2>2, <2>3, <2>4
<1> QED
  BY <1>2, <1>3

(* As long as no transaction has run on a log that was recovered from, a   *)
(* crash either leaves the free list whole or leaves in the log a record   *)
(* of a page that is gone, which stops every recovery from that log.       *)
THEOREM FreeInvHolds == Spec => []FreeInv
<1>1. TypeInv /\ LogInv /\ ChainInv /\ ClosedInv /\ FreeInv /\ [Next]_vars => FreeInv'
  BY FreeKept
<1> QED
  BY <1>1, InitFree, AtomicInvHolds, TypeInvHolds, LogInvHolds, ChainInvHolds, PTL DEF Spec

(* InsertRec is never led to a page that GetThisPage refuses, unless a log *)
(* that was recovered from has been written to again, for every number of  *)
(* pages, slots, records per log page, transactions, logs and crashes.     *)
THEOREM FreePageHolds == Spec => []FreePageExists
<1>1. ClosedInv /\ FreeInv => FreePageExists
  BY DEF ClosedInv, FreeInv, RestoredFree, NormalFree, Threaded, FreePageExists, Readable
<1> QED
  BY <1>1, FreeInvHolds, AtomicInvHolds, PTL

-------------------------------------------------------------------------------
(* Restart. *)

(* A record of a change of x. *)
Touches(l, x) == log[l].type \in Changes \cup {"clr"} /\ log[l].rid = x

(* The records of S that change x do nothing but update it; one updates it.*)
OnlyUpdated(S, x) == \A l \in S : Touches(l, x) => RedoKind(l) = "update"
Updated(S, x)     == \E l \in S : Touches(l, x) /\ RedoKind(l) = "update"

DiskHolds(x) == ContentsOf(relDisk, relDiskPages)[x] # Empty

(* The page of a record is there, unless no page took the record.          *)
Located(l) ==
  log[l].type \in Changes \cup {"clr"} =>
    log[l].rid[1] \in DOMAIN rel \/ (log[l].type = "insert" /\ log[l].rid = NoRid)

(* A log page is written in full, so what it lacks was logged later.       *)
LogWhole ==
  \A l \in DOMAIN logDisk :
    /\ \A k \in DOMAIN log : k.pn = l.pn /\ Older(k, l) => k \in DOMAIN logDisk
    /\ logDisk[l].next.pn = l.pn => logDisk[l].next \in DOMAIN logDisk

(* A page the log tells of carries an LSN of this log in the pool; on disk *)
(* too, unless only the statement that is open changed it.                 *)
NormalStale ==
  /\ skipped = {}
  /\ \A l \in DOMAIN log : log[l].type \in Changes \cup {"clr"} =>
       LET p == log[l].rid[1]
       IN /\ p \in DOMAIN rel => rel[p].era = era
          /\ p \in DOMAIN relDisk /\ relDisk[p].era # era
               => stmt \in Kinds /\ log[l].type = Edit(stmt)

NormalRestart == NormalStale /\ (\A l \in DOMAIN log : Located(l)) /\ LogWhole

(* Redo may go by an LSN of an earlier log for x. *)
Stale(x) == \/ x \in skipped
            \/ x[1] \in DOMAIN rel /\ (rel[x[1]].era # era \/ relDisk[x[1]].era # era)

(* If it does, and the log, which ended at z, updates x, then it does      *)
(* nothing else to it, and x is there all the time.                        *)
RecoveryStale(z) ==
  \A x \in Rid : Stale(x) /\ Updated(UpTo(z), x)
                   => OnlyUpdated(UpTo(z), x) /\ Contents[x] # Empty /\ DiskHolds(x)

RecoveryLocated(z) == \A l \in UpTo(z) : Located(l)

(* x was inserted by the transaction that logged the record at z. *)
OwnInsert(z, x) ==
  \E l \in UpTo(z) : log[l].type = "insert" /\ log[l].rid = x /\ log[l].xid = log[z].xid

(* A page that recovery itself has stamped, when the log ended at z, still *)
(* has the records there were at z, but for those Undo takes away.         *)
Retains(H, z, pg, p) ==
  pg.era = era /\ Older(z, pg.lsn) =>
    \A s \in Slots : <<p, s>> \notin skipped /\ ~OwnInsert(z, <<p, s>>) /\ After(H, z)[<<p, s>>] # Empty
                       => pg.rec[s] # Empty

RetainedPages(H, z) ==
  \A p \in DOMAIN rel : Retains(H, z, rel[p], p) /\ Retains(H, z, relDisk[p], p)

(* While Undo is at cur, so has the relation, and those there were at cur. *)
RetainedUndo(H, z) ==
  Undoing =>
    /\ undoXid = log[z].xid
    /\ \A x \in Rid \ skipped :
         ~OwnInsert(z, x) /\ (After(H, cur)[x] # Empty \/ After(H, z)[x] # Empty)
           => Contents[x] # Empty

Retained(H, z) == RetainedPages(H, z) /\ RetainedUndo(H, z)

(* Recovery of a log that ended at z.                                      *)
RestartAt(z) ==
  /\ Ends(z) /\ RecoveryStale(z) /\ RecoveryLocated(z)
  /\ \E H : Recovery(H, z) /\ Retained(H, z)

(* The invariant. *)
RestartInv ==
  ~torn /\ fresh /\ ~leftover =>
    IF Recovering THEN \E z \in Pos : RestartAt(z) ELSE NormalRestart

-------------------------------------------------------------------------------
LEMMA SameTouches ==
  ASSUME NEW S, \A l \in S : SameRecord(log'[l], log[l])
  PROVE  \A x : (OnlyUpdated(S, x)' <=> OnlyUpdated(S, x)) /\ (Updated(S, x)' <=> Updated(S, x))
<1>1. ASSUME NEW l \in S
      PROVE  RedoKind(l)' = RedoKind(l) /\ \A x : Touches(l, x)' <=> Touches(l, x)
  BY DEF SameRecord, RedoKind, Touches
<1> QED
  BY <1>1 DEF OnlyUpdated, Updated

LEMMA EndsUpTo ==
  ASSUME NEW z, Ends(z)
  PROVE  z \in Pos /\ z \in UpTo(z) /\ z \in DOMAIN log /\ UpTo(z) \subseteq DOMAIN log
BY PosOrder DEF Ends, Before, UpTo

(* Between restarts. *)

LEMMA ForcedFresh ==
  ASSUME RelForced, NormalStale, DOMAIN relDisk \subseteq DOMAIN rel, NEW l \in DOMAIN log,
         log[l].type \in Changes \cup {"clr"}, NEW p, p = log[l].rid[1], p \in DOMAIN relDisk
  PROVE  relDisk[p].era = era
<1>1. p \in DOMAIN rel /\ relDisk[p] = rel[p]
  BY DEF RelForced, RelClean
<1> QED
  BY <1>1 DEF NormalStale

LEMMA StaleLogged ==
  ASSUME TypeInv, LogInv, ClosedInv, TypeInv', NormalStale, DOMAIN relDisk \subseteq DOMAIN rel,
         NEW body, Logs(body)
  PROVE  NormalStale'
<1>1. /\ InsertLogRec(body) /\ Origin(body)
      /\ UNCHANGED <<relDisk, era, skipped>>
      /\ stmt' = stmt \/ pc = "undo"
      /\ DOMAIN rel \subseteq DOMAIN rel'
      /\ \A q \in DOMAIN rel' : (q \in DOMAIN rel /\ rel'[q].era = rel[q].era) \/ rel'[q].era = era
      /\ body.type \in Changes => \/ body.rid[1] \in DOMAIN rel' /\ rel'[body.rid[1]].era = era
                                  \/ body.type = "insert" /\ body.rid = NoRid
  BY DEF Logs, diskVars
<1>2. PICK n : n = NextLSN
  OBVIOUS
<1>3. /\ DOMAIN log' = DOMAIN log \cup {n}
      /\ log'[n].type = body.type /\ log'[n].rid = body.rid
      /\ \A l \in DOMAIN log : SameRecord(log'[l], log[l])
  BY <1>1, <1>2, AppendedLog
<1>4. pc = "undo" => RelForced
  BY DEF ClosedInv, ForcedWhenClosed
<1>6. 0 \notin DOMAIN rel' /\ 0 \notin DOMAIN relDisk
  BY DEF TypeInv, PagesOK
<1>7. ASSUME NEW l \in DOMAIN log, log[l].type \in Changes \cup {"clr"}, NEW p, p = log[l].rid[1]
      PROVE  /\ p \in DOMAIN rel' => rel'[p].era = era
             /\ p \in DOMAIN relDisk /\ relDisk[p].era # era
                  => ~RelForced /\ stmt' \in Kinds /\ log[l].type = Edit(stmt')
  <2>1. p \in DOMAIN rel => rel[p].era = era
    BY <1>7 DEF NormalStale
  <2>2. p \in DOMAIN rel' => rel'[p].era = era
    BY <1>1, <2>1
  <2>3. ASSUME p \in DOMAIN relDisk, relDisk[p].era # era
        PROVE  ~RelForced /\ stmt' \in Kinds /\ log[l].type = Edit(stmt')
    <3>1. ~RelForced
      BY <1>7, <2>3, ForcedFresh
    <3>2. stmt' = stmt
      BY <1>1, <1>4, <3>1
    <3> QED
      BY <1>7, <2>3, <3>1, <3>2 DEF NormalStale
  <2> QED
    BY <2>2, <2>3
<1>8. ASSUME body.type \in Changes \cup {"clr"}, NEW p, p = body.rid[1]
      PROVE  /\ p \in DOMAIN rel' => rel'[p].era = era
             /\ p \in DOMAIN relDisk /\ relDisk[p].era # era
                  => stmt' \in Kinds /\ body.type = Edit(stmt')
  <2>1. CASE body.type = "clr"
    <3>1. /\ pc = "undo" /\ cur \in DOMAIN log /\ log[cur].type \in Changes /\ p = log[cur].rid[1]
      BY <1>1, <1>8, <2>1, EditKinds DEF Origin
    <3> QED
      BY <1>4, <1>7, <3>1
  <2>2. CASE body.type \in Changes
    <3>1. pc = "open" /\ stmt \in Kinds /\ body.type = Edit(stmt)
      BY <1>1, <2>2, EditKinds DEF Origin
    <3>2. p = 0 \/ (p \in DOMAIN rel' /\ rel'[p].era = era)
      BY <1>1, <1>8, <2>2 DEF NoRid
    <3> QED
      BY <1>1, <1>6, <3>1, <3>2
  <2> QED
    BY <1>8, <2>1, <2>2
<1> QED
  BY <1>1, <1>3, <1>7, <1>8 DEF NormalStale, SameRecord, Edit

LEMMA StaleKept ==
  ASSUME TypeInv, LogInv, ChainInv, ClosedInv, TypeInv', ClosedInv', [Next]_vars,
         DOMAIN relDisk \subseteq DOMAIN rel, NormalStale, ~Recovering, ~Crash, ~NewLog
  PROVE  NormalStale'
<1>0. pc # "redo" /\ ~UndoEndRecover
  BY DEF Recovering, ChainInv, PhaseKnown, ClosedInv, UndoEndRecover
<1>2. CASE Write
  <2>1. UNCHANGED <<log, rel, stmt, skipped, era>>
    BY <1>2 DEF Write, WriteLogHdr, WriteLogPage, WriteDataPage, WritePFHeader, WriteRMHeader,
                logVars, relVars, ctlVars, history
  <2>2. \A p \in DOMAIN relDisk' : \/ p \in DOMAIN rel /\ relDisk'[p] = rel[p]
                                   \/ p \in DOMAIN relDisk /\ relDisk'[p] = relDisk[p]
    <3>1. CASE \E p \in 1 .. MaxPages : WriteDataPage(p)
      BY <3>1 DEF WriteDataPage
    <3>2. CASE relDisk' = relDisk
      BY <3>2
    <3> QED
      BY <1>2, <3>1, <3>2 DEF Write, WriteLogHdr, WriteLogPage, WritePFHeader, WriteRMHeader
  <2> QED
    BY <2>1, <2>2 DEF NormalStale
<1>4. CASE \E body : Logs(body)
  BY <1>4, StaleLogged
<1>5. ~RedoApply /\ ~RedoPass
  BY <1>0 DEF RedoApply, RedoPass
<1>6. CASE Quiet
  <2>1. /\ UNCHANGED <<log, rel, relDisk, era>> /\ skipped' = {}
        /\ stmt' = stmt \/ RelForced
    BY <1>5, <1>6 DEF Quiet, NormalStale
  <2> QED
    BY <2>1, ForcedFresh DEF NormalStale
<1> QED
  BY <1>0, <1>2, <1>4, <1>5, <1>6, StepKinds

LEMMA LocatedKept ==
  ASSUME TypeInv, LogInv, ChainInv, ClosedInv, TypeInv', ClosedInv', [Next]_vars,
         ~Recovering, ~Crash, ~NewLog, NEW H, NormalPages(H), \A l \in DOMAIN log : Located(l)
  PROVE  \A l \in DOMAIN log' : Located(l)'
<1>1. ~RedoApply /\ ~UndoEndRecover
  BY DEF Recovering, ChainInv, PhaseKnown, ClosedInv, UndoEndRecover, RedoApply
<1>2. CASE Write \/ Quiet
  <2>1. UNCHANGED <<log, rel>>
    BY <1>2 DEF Quiet, Write, WriteLogHdr, WriteLogPage, WriteDataPage, WritePFHeader,
                WriteRMHeader, logVars, relVars
  <2> QED
    BY <2>1 DEF Located
<1>3. ASSUME NEW body, Logs(body)
      PROVE  \A l \in DOMAIN log' : Located(l)'
  <2>1. /\ InsertLogRec(body) /\ Origin(body) /\ DOMAIN rel \subseteq DOMAIN rel'
        /\ body.type \in Changes => \/ body.rid[1] \in DOMAIN rel'
                                    \/ body.type = "insert" /\ body.rid = NoRid
    BY <1>3 DEF Logs
  <2>2. PICK n : n = NextLSN
    OBVIOUS
  <2>3. /\ DOMAIN log' = DOMAIN log \cup {n}
        /\ log'[n].type = body.type /\ log'[n].rid = body.rid
        /\ \A l \in DOMAIN log : SameRecord(log'[l], log[l])
    BY <2>1, <2>2, AppendedLog
  <2>4. \A l \in DOMAIN log : Located(l)'
    BY <2>1, <2>3 DEF Located, SameRecord
  <2>5. body.type = "clr" => body.rid[1] \in DOMAIN rel
    <3>1. body.type = "clr" => pc = "undo" /\ cur \in DOMAIN log /\ log[cur].type \in Changes
                               /\ body.rid = log[cur].rid
      BY <2>1, EditKinds DEF Origin
    <3> QED
      BY <3>1 DEF NormalPages
  <2>6. Located(n)'
    BY <2>1, <2>3, <2>5 DEF Located
  <2> QED
    BY <2>3, <2>4, <2>6
<1> QED
  BY <1>1, <1>2, <1>3, StepKinds

LEMMA WholeKept ==
  ASSUME TypeInv, LogInv, ChainInv, ClosedInv, TypeInv', ClosedInv', [Next]_vars,
         ~Recovering, ~Crash, ~NewLog, NormalChain, LogWhole
  PROVE  LogWhole'
<1>1. ~RedoApply /\ ~UndoEndRecover
  BY DEF Recovering, ChainInv, PhaseKnown, ClosedInv, UndoEndRecover, RedoApply
<1>2. CASE UNCHANGED <<log, logDisk>>
  BY <1>2 DEF LogWhole
<1>3. ASSUME NEW pn, WriteLogPage(pn)
      PROVE  LogWhole'
  <2>1. /\ DOMAIN logDisk' = {k \in DOMAIN logDisk : k.pn # pn} \cup OnPage(pn)
        /\ \A l \in DOMAIN logDisk' : logDisk'[l] = IF l.pn = pn THEN log[l] ELSE logDisk[l]
        /\ UNCHANGED log
    BY <1>3 DEF WriteLogPage, logVars
  <2>2. ASSUME NEW l \in DOMAIN logDisk', l.pn = pn
        PROVE  /\ \A k \in DOMAIN log : k.pn = pn => k \in DOMAIN logDisk'
               /\ logDisk'[l].next.pn = pn => logDisk'[l].next \in DOMAIN logDisk'
    <3>1. \A k \in DOMAIN log : k.pn = pn => k \in DOMAIN logDisk'
      BY <2>1 DEF OnPage
    <3>2. l \in DOMAIN log /\ logDisk'[l] = log[l]
      BY <2>1, <2>2 DEF OnPage
    <3>3. l \in Pos /\ l.pn \in Nat
      BY <3>2 DEF TypeInv, LogOK, RecordOK, Pos
    <3>4. CASE l = lastRec /\ log[l].next = LogEOF
      BY <2>2, <3>1, <3>2, <3>3, <3>4 DEF LogEOF, LSN
    <3>5. CASE l # lastRec /\ log[l].next = Successor(l)
      <4>1. lastRec \in Pos /\ DOMAIN log = UpTo(lastRec)
        BY <3>2 DEF NormalChain
      <4>2. Older(l, lastRec)
        BY <3>2, <3>3, <3>5, <4>1, PosOrder DEF UpTo
      <4>3. Successor(l) \in UpTo(lastRec)
        BY <3>3, <4>1, <4>2, SuccessorOrder DEF UpTo
      <4> QED
        BY <3>1, <3>2, <3>5, <4>1, <4>3
    <3> QED
      BY <3>2, <3>4, <3>5 DEF NormalChain, LinksOn
  <2>3. ASSUME NEW l \in DOMAIN logDisk', l.pn # pn
        PROVE  /\ \A k \in DOMAIN log : k.pn = l.pn /\ Older(k, l) => k \in DOMAIN logDisk'
               /\ logDisk'[l].next.pn = l.pn => logDisk'[l].next \in DOMAIN logDisk'
    <3>1. l \in DOMAIN logDisk /\ logDisk'[l] = logDisk[l]
      BY <2>1, <2>3 DEF OnPage
    <3> QED
      BY <2>1, <2>3, <3>1 DEF LogWhole
  <2> QED
    BY <2>1, <2>2, <2>3 DEF LogWhole
<1>4. ASSUME NEW body, Logs(body)
      PROVE  LogWhole'
  <2>1. InsertLogRec(body) /\ UNCHANGED logDisk
    BY <1>4 DEF Logs, diskVars
  <2>2. PICK n : n = NextLSN
    OBVIOUS
  <2>3. /\ DOMAIN log' = DOMAIN log \cup {n} /\ n \in Pos
        /\ \A k \in DOMAIN log : k \in Pos /\ Older(k, n)
    BY <2>1, <2>2, AppendedLog
  <2>4. \A l \in DOMAIN logDisk : l \in DOMAIN log /\ ~Older(n, l)
    BY <2>3, PosOrder DEF NormalChain
  <2> QED
    BY <2>1, <2>3, <2>4 DEF LogWhole
<1>5. CASE Write
  <2>1. (\E pn \in 0 .. logPages - 1 : WriteLogPage(pn)) \/ UNCHANGED <<log, logDisk>>
    BY <1>5 DEF Write, WriteLogHdr, WriteDataPage, WritePFHeader, WriteRMHeader, logVars
  <2> QED
    BY <1>2, <1>3, <2>1
<1> QED
  BY <1>1, <1>2, <1>4, <1>5, StepKinds DEF Quiet

LEMMA NormalRestartKept ==
  ASSUME TypeInv, LogInv, ChainInv, ClosedInv, TypeInv', ClosedInv', [Next]_vars, ~Recovering,
         ~NewLog, ~Crash \/ logDiskPages = 0, ~leftover',
         NEW H, NEW b, Normal(H, b), NormalRestart
  PROVE  NormalRestart'
<1>1. NormalChain /\ NormalPages(H) /\ DOMAIN relDisk \subseteq DOMAIN rel
  BY DEF Normal, NormalPages
<1>2. CASE ~Crash
  BY <1>1, <1>2, StaleKept, LocatedKept, WholeKept DEF NormalRestart
<1>3. CASE Crash
  <2>1. DOMAIN logDisk' = {} /\ skipped' = {}
    BY <1>3 DEF Crash, diskVars, NormalRestart, NormalStale
  <2>2. DOMAIN log' = {}
    BY <1>3, <2>1 DEF Crash, diskVars
  <2> QED
    BY <2>1, <2>2 DEF NormalRestart, NormalStale, LogWhole
<1> QED
  BY <1>2, <1>3

LEMMA NewLogRestart ==
  ASSUME NewLog
  PROVE  NormalRestart'
<1>1. DOMAIN log' = {} /\ DOMAIN logDisk' = {} /\ skipped' = {}
  BY DEF NewLog, EmptyLog
<1> QED
  BY <1>1 DEF NormalRestart, NormalStale, LogWhole

-------------------------------------------------------------------------------
(* A crash between restarts, when every page of the files is on disk in    *)
(* some version.                                                           *)

LEMMA OldestLSN ==
  ASSUME NEW S, S \subseteq Pos, S # {}
  PROVE  \E z \in S : \A l \in S : ~Older(l, z)
<1>1. \A l \in Pos : l.pn \in Nat /\ l.off \in Nat
  BY LogAssumption DEF Pos
<1>2. PICK T : T = {l.pn : l \in S}
  OBVIOUS
<1>3. T \subseteq Nat /\ T # {}
  BY <1>1, <1>2
<1>4. PICK n \in T : \A m \in T : n <= m
  BY <1>3, LeastNatural
<1>5. PICK U : U = {l.off : l \in {k \in S : k.pn = n}}
  OBVIOUS
<1>6. U \subseteq Nat /\ U # {}
  BY <1>1, <1>2, <1>4, <1>5
<1>7. PICK o \in U : \A m \in U : o <= m
  BY <1>6, LeastNatural
<1>8. PICK z \in S : z.pn = n /\ z.off = o
  BY <1>5, <1>7
<1>9. ASSUME NEW l \in S
      PROVE  ~Older(l, z)
  <2>1. l.pn \in Nat /\ l.off \in Nat /\ z.pn \in Nat /\ z.off \in Nat
    BY <1>1
  <2>2. z.pn <= l.pn
    BY <1>2, <1>4, <1>8
  <2>3. l.pn = z.pn => z.off <= l.off
    BY <1>5, <1>7, <1>8
  <2> QED
    BY <2>1, <2>2, <2>3 DEF Older
<1> QED
  BY <1>9

(* Of a position inside a log page there is one before it on that page.    *)
LEMMA InPage ==
  ASSUME NEW z \in Pos, z.off # 0
  PROVE  \E y \in Pos : Older(y, z) /\ Successor(y) = z /\ y.pn = z.pn
<1>1. z = [pn |-> z.pn, off |-> z.off] /\ z.pn \in Nat /\ z.off \in Nat /\ z.off < LogPageCap
  BY LogAssumption DEF Pos
<1>2. PICK y : y = [pn |-> z.pn, off |-> z.off - 1]
  OBVIOUS
<1>3. y \in Pos /\ y.pn = z.pn /\ y.off = z.off - 1
  BY <1>1, <1>2, LogAssumption DEF Pos
<1>4. Successor(y) = z
  BY <1>1, <1>3 DEF Successor, LSN
<1>5. Older(y, z)
  BY <1>1, <1>3 DEF Older
<1> QED
  BY <1>3, <1>4, <1>5

(* The log that is found is a chain which ends at some record: where the   *)
(* first one is that is missing, or that was written before its link.      *)
LEMMA CrashEnds ==
  ASSUME TypeInv, LogInv, ClosedInv, LogWhole, NormalChain, ~Recovering, Crash, ~torn',
         logDiskPages # 0
  PROVE  \E z \in Pos : Ends(z)'
<1>1. /\ log' = [l \in {l \in DOMAIN logDisk : l.pn < logDiskPages} |-> logDisk[l]]
      /\ logDiskPages = logPages
      /\ \A pn \in 0 .. logPages - 1 : \E l \in DOMAIN logDisk : l.pn = pn
  BY DEF Crash, Growing
<1>2. \A l \in DOMAIN log : l \in Pos /\ l.pn \in 0 .. logPages - 1 /\ l.pn < logPages
  BY DEF TypeInv, LogOK, RecordOK, LogInv, LogPlaced, IsLSN, Pos
<1>3. /\ DOMAIN log' = DOMAIN logDisk /\ DOMAIN logDisk \subseteq DOMAIN log
      /\ \A l \in DOMAIN logDisk : log'[l] = logDisk[l] /\ logDisk[l].next \in {LogEOF, log[l].next}
  <2>1. DOMAIN logDisk \subseteq DOMAIN log
    BY DEF NormalChain
  <2>2. \A l \in DOMAIN logDisk : l.pn < logDiskPages
    BY <1>1, <1>2, <2>1
  <2> QED
    BY <1>1, <2>1, <2>2 DEF NormalChain
<1>4. lastRec # LogEOF
  BY <1>1 DEF Recovering
<1>5. /\ lastRec \in Pos /\ DOMAIN log = UpTo(lastRec) /\ lastRec \in DOMAIN log
      /\ \A l \in DOMAIN log : LinksOn(log, lastRec, l)
  BY <1>4, PosOrder DEF NormalChain, UpTo
<1>6. PICK S : S = {l \in DOMAIN log : l \notin DOMAIN logDisk \/ logDisk[l].next = LogEOF}
  OBVIOUS
<1>7. S \subseteq Pos /\ S # {}
  <2>1. lastRec \in S
    <3>1. log[lastRec].next = LogEOF
      BY <1>5 DEF LinksOn
    <3> QED
      BY <1>3, <1>5, <1>6, <3>1
  <2> QED
    BY <1>2, <1>6, <2>1
<1>8. PICK z \in S : \A l \in S : ~Older(l, z)
  BY <1>7, OldestLSN
<1>9. z \in Pos /\ z \in DOMAIN log
  BY <1>6, <1>7
<1>10. ASSUME NEW l \in Pos, Older(l, z)
       PROVE  l \in DOMAIN logDisk /\ logDisk[l].next = Successor(l)
  <2>1. ~Older(lastRec, z)
    BY <1>5, <1>9 DEF UpTo
  <2>2. ~Older(lastRec, l)
    BY <1>5, <1>9, <1>10, <2>1, PosOrder
  <2>3. l \in DOMAIN log
    BY <1>5, <2>2 DEF UpTo
  <2>4. l \notin S
    BY <1>8, <1>10
  <2>5. l \in DOMAIN logDisk /\ logDisk[l].next = log[l].next /\ log[l].next # LogEOF
    BY <1>3, <1>6, <2>3, <2>4
  <2> QED
    BY <1>5, <2>3, <2>5 DEF LinksOn
<1>11. z \in DOMAIN logDisk
  <2>1. CASE z.off = 0
    <3>1. PICK l \in DOMAIN logDisk : l.pn = z.pn
      BY <1>1, <1>2, <1>9
    <3>2. l \in Pos
      BY <1>2, <1>3
    <3>3. ~Older(l, z)
      BY <1>9, <2>1, <3>1, <3>2, LogAssumption DEF Older, Pos
    <3>4. CASE Older(z, l)
      BY <1>9, <3>1, <3>4 DEF LogWhole
    <3> QED
      BY <1>9, <3>2, <3>3, <3>4, PosOrder
  <2>2. CASE z.off # 0
    <3>1. PICK y \in Pos : Older(y, z) /\ Successor(y) = z /\ y.pn = z.pn
      BY <1>9, <2>2, InPage
    <3>2. y \in DOMAIN logDisk /\ logDisk[y].next = z
      BY <1>10, <3>1
    <3> QED
      BY <3>1, <3>2 DEF LogWhole
  <2> QED
    BY <2>1, <2>2
<1>12. logDisk[z].next = LogEOF
  BY <1>6, <1>11
<1>13. \A l \in Pos : Older(l, z) => l \in DOMAIN log' /\ log'[l].next = Successor(l)
  BY <1>3, <1>10
<1>14. z \in DOMAIN log' /\ log'[z].next = LogEOF
  BY <1>3, <1>11, <1>12
<1>15. Ends(z)'
  BY <1>9, <1>13, <1>14 DEF Ends, Before, LogEOF, LSN
<1> QED
  BY <1>9, <1>15

(* What the log changes for the first time it finds as it was before.      *)
LEMMA FirstTouch ==
  ASSUME TypeInv, NEW H, NormalChain, NormalHistory(H), NEW x \in Rid, NEW l \in DOMAIN log,
         \A k \in DOMAIN log : Older(k, l) => ~Touches(k, x)
  PROVE  After(H, log[l].prev)[x] = After(H, LogEOF)[x]
<1>1. \A k \in DOMAIN log : /\ k \in Pos /\ log[k] \in LogRec /\ Means(log, H, k)
                            /\ log[k].prev \in DOMAIN log \cup {LogEOF}
                            /\ log[k].prev # LogEOF => Older(log[k].prev, k)
  <2>1. \A k \in DOMAIN log : log[k].prev \in BackFrom(k) /\ log[k] \in LogRec
    BY DEF TypeInv, LogOK, RecordOK
  <2> QED
    BY <2>1, References DEF NormalHistory, BackFrom
<1>2. PICK B : B = {k \in DOMAIN log : Older(k, l) /\ After(H, k)[x] # After(H, LogEOF)[x]}
  OBVIOUS
<1>3. B = {}
  <2> SUFFICES ASSUME B # {}
               PROVE  FALSE
    OBVIOUS
  <2>1. B \subseteq Pos
    BY <1>1, <1>2
  <2>2. PICK k \in B : \A j \in B : ~Older(j, k)
    BY <2>1, OldestLSN
  <2>3. k \in DOMAIN log /\ Older(k, l) /\ After(H, k)[x] # After(H, LogEOF)[x]
    BY <1>2, <2>2
  <2>4. PICK q : q = log[k].prev
    OBVIOUS
  <2>5. After(H, q)[x] = After(H, LogEOF)[x]
    <3>1. CASE q = LogEOF
      BY <3>1
    <3>2. CASE q # LogEOF
      <4>1. q \in DOMAIN log /\ Older(q, k)
        BY <1>1, <2>3, <2>4, <3>2
      <4>2. Older(q, l) /\ q \notin B
        BY <1>1, <2>2, <2>3, <4>1, PosOrder
      <4> QED
        BY <1>2, <4>1, <4>2
    <3> QED
      BY <3>1, <3>2
  <2>6. ~Touches(k, x) /\ Means(log, H, k) /\ log[k].type \in LogTypes
    BY <1>1, <2>3 DEF LogRec
  <2>7. After(H, k)[x] = After(H, q)[x]
    <3>1. CASE log[k].type \in Changes
      BY <2>4, <2>6, <3>1 DEF Means, ChangeMeans, Touches
    <3>2. CASE log[k].type = "clr"
      BY <2>4, <2>6, <3>2 DEF Means, ClrMeans, Touches
    <3>3. CASE log[k].type \in {"abort", "commit", "end"}
      BY <2>4, <2>6, <3>3 DEF Means, AbortMeans, EndMeans
    <3> QED
      BY <2>6, <3>1, <3>2, <3>3 DEF LogTypes
  <2> QED
    BY <2>3, <2>5, <2>7
<1>4. log[l].prev = LogEOF \/ (log[l].prev \in DOMAIN log /\ Older(log[l].prev, l))
  BY <1>1
<1> QED
  BY <1>2, <1>3, <1>4

(* So what the log only updates was there before it.                       *)
LEMMA OnlyUpdatedThere ==
  ASSUME TypeInv, NEW H, NormalChain, NormalHistory(H), NEW x \in Rid,
         \A k \in DOMAIN log : Touches(k, x) => log[k].type = "update",
         NEW k \in DOMAIN log, Touches(k, x)
  PROVE  After(H, LogEOF)[x] # Empty
<1>1. PICK S : S = {l \in DOMAIN log : Touches(l, x)}
  OBVIOUS
<1>2. S \subseteq Pos /\ S # {}
  BY <1>1 DEF TypeInv, LogOK, RecordOK
<1>3. PICK l \in S : \A j \in S : ~Older(j, l)
  BY <1>2, OldestLSN
<1>4. l \in DOMAIN log /\ log[l].type = "update" /\ log[l].rid = x
  BY <1>1, <1>3 DEF Touches
<1>5. After(H, log[l].prev)[x] = After(H, LogEOF)[x]
  BY <1>1, <1>3, <1>4, FirstTouch
<1>6. log[l].old # Empty
  BY <1>4 DEF TypeInv, LogOK, RecordOK, Imaged
<1>7. log[l].old = After(H, log[l].prev)[x]
  BY <1>4 DEF NormalHistory, Means, ChangeMeans, Changes
<1> QED
  BY <1>5, <1>6, <1>7

LEMMA RestartBegins ==
  ASSUME TypeInv, LogInv, ClosedInv, TypeInv', ClosedInv', ~Recovering, Crash, ~torn',
         logDiskPages # 0, NEW H, NEW b, Normal(H, b), NormalRestart
  PROVE  Recovering' /\ \E z \in Pos : RestartAt(z)'
<1> HIDE DEF Recovery, Retained
<1>1. NormalChain /\ NormalHistory(H) /\ NormalPages(H) /\ NormalStale /\ LogWhole
  BY DEF Normal, NormalRestart
<1>2. PICK z \in Pos : Ends(z)'
  BY <1>1, CrashEnds
<1>3. Recovering' /\ Recovery(H, z)'
  BY <1>2, NormalCrash
<1>4. /\ log' = [l \in {l \in DOMAIN logDisk : l.pn < logDiskPages} |-> logDisk[l]]
      /\ rel' = [p \in {p \in DOMAIN relDisk : p < relDiskPages} |-> relDisk[p]]
      /\ UNCHANGED <<relDisk, relDiskPages, era, skipped>> /\ pc' = "redo"
      /\ relPages' = relDiskPages /\ relDiskPages = relPages
      /\ \A p \in DOMAIN rel : p \in DOMAIN relDisk
  BY DEF Crash, diskVars, Growing
<1>5. /\ z \in UpTo(z) /\ UpTo(z) \subseteq DOMAIN log' /\ DOMAIN log' \subseteq DOMAIN log
      /\ \A l \in UpTo(z) : l \in DOMAIN log /\ SameRecord(log'[l], log[l])
  <2>1. z \in UpTo(z) /\ UpTo(z) \subseteq DOMAIN log'
    BY <1>2, PosOrder DEF Ends, Before, UpTo
  <2>2. \A l \in DOMAIN log' : l \in DOMAIN log /\ SameRecord(log'[l], log[l])
    BY <1>1, <1>4 DEF NormalChain
  <2> QED
    BY <2>1, <2>2
<1>6. Retained(H, z)'
  <2>2. ASSUME NEW p \in DOMAIN relDisk, relDisk[p].era = era
        PROVE  ~Older(z, relDisk[p].lsn)
    <3>1. PICK y : y = relDisk[p].lsn
      OBVIOUS
    <3>2. y \in Pos /\ Durable(y)
      BY <1>1, <2>2, <3>1 DEF NormalPages, StampOf, LogInv, StampLogged, TypeInv, LogOK, RecordOK
    <3> QED
      BY <1>1, <1>2, <1>4, <3>1, <3>2, DurableSurvives
  <2>3. RetainedPages(H, z)'
    <3>1. \A p \in DOMAIN rel' : p \in DOMAIN relDisk /\ rel'[p] = relDisk[p]
      BY <1>4
    <3> QED
      BY <1>4, <2>2, <3>1 DEF RetainedPages, Retains
  <2>4. ~Undoing'
    BY <1>4 DEF Undoing
  <2> QED
    BY <2>3, <2>4 DEF Retained, RetainedUndo
<1>7. RecoveryLocated(z)'
  <2>1. \A p \in DOMAIN rel : p \in DOMAIN rel'
    BY <1>4 DEF ClosedInv
  <2>2. ASSUME NEW l \in UpTo(z)
        PROVE  Located(l)'
    <3>1. l \in DOMAIN log /\ SameRecord(log'[l], log[l]) /\ Located(l)
      BY <1>5 DEF NormalRestart
    <3> QED
      BY <2>1, <3>1 DEF Located, SameRecord
  <2> QED
    BY <2>2 DEF RecoveryLocated
<1>8. RecoveryStale(z)'
  <2>1. ASSUME NEW x \in Rid, Stale(x)', Updated(UpTo(z), x)
        PROVE  OnlyUpdated(UpTo(z), x) /\ Contents'[x] # Empty /\ DiskHolds(x)'
    <3>1. PICK p : p = x[1]
      OBVIOUS
    <3>2. /\ p \in DOMAIN relDisk /\ p < relDiskPages /\ relDisk[p].era # era
          /\ p \in DOMAIN rel' /\ rel'[p] = relDisk[p]
      BY <1>1, <1>4, <2>1, <3>1 DEF Stale, NormalStale
    <3>3. \A l \in DOMAIN log : Touches(l, x) => stmt \in Kinds /\ log[l].type = Edit(stmt)
      BY <1>1, <3>1, <3>2 DEF NormalStale, Touches
    <3>4. PICK l \in UpTo(z) : Touches(l, x) /\ RedoKind(l) = "update"
      BY <2>1 DEF Updated
    <3>5. l \in DOMAIN log /\ log[l].type = "update" /\ Edit(stmt) = "update"
      BY <1>5, <3>3, <3>4, EditKinds DEF RedoKind
    <3>6. \A k \in DOMAIN log : Touches(k, x) => log[k].type = "update"
      BY <3>3, <3>5
    <3>7. OnlyUpdated(UpTo(z), x)
      BY <1>5, <3>6 DEF OnlyUpdated, RedoKind
    <3>8. After(H, LogEOF)[x] # Empty
      BY <1>1, <3>4, <3>5, <3>6, OnlyUpdatedThere
    <3>9. x = <<p, x[2]>> /\ x[2] \in Slots
      BY <3>1, ContentsAt DEF TypeInv
    <3>10. relDisk[p].rec[x[2]] = After(H, LogEOF)[x]
      <4>1. Was(H, StampOf(relDisk[p]), relDisk[p], p) /\ StampOf(relDisk[p]) = LogEOF
        BY <1>1, <3>2 DEF NormalPages, StampOf
      <4> QED
        BY <3>9, <4>1 DEF Was
    <3>11. Contents'[x] = relDisk[p].rec[x[2]]
      BY <3>1, <3>2, ContentsAtNext DEF TypeInv
    <3>12. DiskHolds(x)'
      BY <1>4, <3>1, <3>2, <3>8, <3>10 DEF DiskHolds, ContentsOf
    <3> QED
      BY <3>7, <3>8, <3>10, <3>11, <3>12
  <2>2. \A x \in Rid : /\ OnlyUpdated(UpTo(z), x)' <=> OnlyUpdated(UpTo(z), x)
                       /\ Updated(UpTo(z), x)' <=> Updated(UpTo(z), x)
    BY <1>5, SameTouches
  <2> QED
    BY <2>1, <2>2 DEF RecoveryStale
<1> QED
  BY <1>2, <1>3, <1>6, <1>7, <1>8 DEF RestartAt

-------------------------------------------------------------------------------
(* Steps of recovery. *)

(* Redo puts the image of an update, or garbage, where a record is.        *)
LEMMA RedoneCell ==
  ASSUME TypeInv, Redoable(cur), RedoPage(cur), NEW k, k = cur,
         NEW p, p = log[k].rid[1], NEW s, s = log[k].rid[2]
  PROVE  /\ p \in DOMAIN rel /\ s \in Slots /\ <<p, s>> = log[k].rid /\ <<p, s>> \in Rid
         /\ DOMAIN rel' = DOMAIN rel
         /\ \A q \in DOMAIN rel \ {p} : rel'[q] = rel[q]
         /\ \A t \in Slots \ {s} : rel'[p].rec[t] = rel[p].rec[t]
         /\ RedoKind(k) = "update" => rel'[p].rec[s] # Empty
         /\ rel'[p].era = era /\ rel'[p].lsn = k
<1>1. /\ k \in DOMAIN log /\ log[k].type \in Changes \cup {"clr"} /\ Readable(log[k].rid[1])
      /\ log[k].rid \in Rid \cup {NoRid} /\ Imaged(log[k])
  BY DEF Redoable, TypeInv, LogOK, RecordOK, LogRec
<1>2. log[k].rid \in Rid /\ p \in DOMAIN rel /\ s \in Slots
  BY <1>1, RecordPlace DEF TypeInv
<1>3. <<p, s>> = log[k].rid
  BY <1>2 DEF Rid
<1>4. PICK pg : pg = rel[p]
  OBVIOUS
<1>5. pg \in Page /\ DOMAIN pg = {"num", "next", "lsn", "era", "rec"} /\ pg.rec \in [Slots -> Cell]
  BY <1>2, <1>4 DEF TypeInv, PagesOK, PageOK, Page
<1>6. PICK w, e : /\ (e = DeleteFrom(pg, s, relFirst) /\ w = Empty) \/ e = PutAt(pg, s, w)
                  /\ rel' = [rel EXCEPT ![p] = [e EXCEPT !.lsn = k, !.era = era]]
                  /\ RedoKind(k) = "update" => w # Empty
  <2>1. CASE RedoKind(k) = "delete"
    <3>1. PICK e : e = DeleteFrom(pg, s, relFirst)
      OBVIOUS
    <3>2. rel' = [rel EXCEPT ![p] = [e EXCEPT !.lsn = k, !.era = era]]
      <4>1. RedoKind(cur) = "delete" /\ log[cur].rid[1] = p /\ log[cur].rid[2] = s
        BY <2>1
      <4>2. rel' = [rel EXCEPT ![p] = [DeleteFrom(rel[p], s, relFirst) EXCEPT !.lsn = cur, !.era = era]]
        BY <4>1 DEF RedoPage, RedoKind
      <4> QED
        BY <1>4, <3>1, <4>2
    <3> QED
      BY <2>1, <3>1, <3>2
  <2>2. CASE RedoKind(k) # "delete" /\ (RedoKind(k) = "insert" \/ log[k].type = "update")
    <3>1. PICK w, e : w = log[k].new /\ e = PutAt(pg, s, w)
      OBVIOUS
    <3>2. rel' = [rel EXCEPT ![p] = [e EXCEPT !.lsn = k, !.era = era]]
      BY <1>4, <2>2, <3>1 DEF RedoPage
    <3>3. RedoKind(k) = "update" => w # Empty
      BY <1>1, <2>2, <3>1 DEF Imaged
    <3> QED
      BY <3>1, <3>2, <3>3
  <2>3. CASE RedoKind(k) # "delete" /\ ~(RedoKind(k) = "insert" \/ log[k].type = "update")
    <3>1. PICK w, e : w = Garbage /\ e = PutAt(pg, s, w)
      OBVIOUS
    <3>2. rel' = [rel EXCEPT ![p] = [e EXCEPT !.lsn = k, !.era = era]]
      BY <1>4, <2>3, <3>1 DEF RedoPage
    <3> QED
      BY <3>1, <3>2, LogAssumption
  <2> QED
    BY <2>1, <2>2, <2>3
<1>7. /\ DOMAIN e = DOMAIN pg
      /\ \A t \in Slots : e.rec[t] = IF t = s THEN w ELSE pg.rec[t]
  <2>1. CASE e = DeleteFrom(pg, s, relFirst) /\ w = Empty
    BY <1>5, <2>1 DEF DeleteFrom
  <2>2. CASE e = PutAt(pg, s, w)
    BY <1>5, <2>2 DEF PutAt
  <2> QED
    BY <1>6, <2>1, <2>2
<1>8. rel'[p] = [e EXCEPT !.lsn = k, !.era = era]
  BY <1>2, <1>6
<1>9. rel'[p].rec = e.rec /\ rel'[p].era = era /\ rel'[p].lsn = k
  BY <1>5, <1>7, <1>8
<1>10. DOMAIN rel' = DOMAIN rel /\ \A q \in DOMAIN rel \ {p} : rel'[q] = rel[q]
  BY <1>6
<1> QED
  BY <1>2, <1>3, <1>4, <1>6, <1>7, <1>9, <1>10


LEMMA OtherContents ==
  ASSUME PagesOK, ClosedInv, PagesOK', ClosedInv', NEW p \in DOMAIN rel, NEW s,
         DOMAIN rel' = DOMAIN rel,
         \A q \in DOMAIN rel \ {p} : rel'[q] = rel[q],
         \A t \in Slots \ {s} : rel'[p].rec[t] = rel[p].rec[t],
         NEW x \in Rid, x # <<p, s>>
  PROVE  Contents'[x] = Contents[x]
<1>1. x = <<x[1], x[2]>> /\ x[2] \in Slots
  BY ContentsAt
<1>2. CASE x[1] \notin DOMAIN rel
  BY <1>2, ContentsAt, ContentsAtNext
<1>3. CASE x[1] \in DOMAIN rel
  <2>1. Contents[x] = rel[x[1]].rec[x[2]] /\ Contents'[x] = rel'[x[1]].rec[x[2]]
    BY <1>3, ContentsAt, ContentsAtNext
  <2>2. ~(x[1] = p /\ x[2] = s)
    BY <1>1
  <2>3. rel'[x[1]].rec[x[2]] = rel[x[1]].rec[x[2]]
    BY <1>1, <1>3, <2>2
  <2> QED
    BY <2>1, <2>3
<1> QED
  BY <1>2, <1>3

(* The log is found to end where it did. *)
LEMMA RestartEnds ==
  ASSUME TypeInv, LogInv, ChainInv, ClosedInv, TypeInv', ClosedInv', Recovering, RecoveryState,
         [Next]_vars, ~NewLog, NEW H, NEW z \in Pos, Ends(z), Recovery(H, z)
  PROVE  Ends(z)' /\ \A l \in UpTo(z) : log'[l] = log[l]
<1>1. /\ UpTo(z) \subseteq DOMAIN log
      /\ \A l \in Pos : Older(l, z) \/ l = z => l \in DOMAIN log /\ l \in UpTo(z)
  BY PosOrder DEF Ends, Before, UpTo
<1>2. SUFFICES \A l \in UpTo(z) : l \in DOMAIN log' /\ log'[l] = log[l]
  <2>1. ASSUME \A l \in UpTo(z) : l \in DOMAIN log' /\ log'[l] = log[l]
        PROVE  Ends(z)'
    BY <1>1, <2>1 DEF Ends, Before, LogEOF, LSN
  <2> QED
    BY <2>1
<1>3. CASE \E body : Logs(body)
  <2>1. \A l \in UpTo(z) : l # lastRec /\ l # LogEOF
    BY PosOrder DEF Recovery, RecoveryChain, UpTo
  <2>2. \A l \in DOMAIN log : l \in DOMAIN log' /\ (l # lastRec => log'[l] = log[l])
    BY <1>3, AppendedLog DEF Logs
  <2> QED
    BY <1>1, <2>1, <2>2
<1>4. CASE Crash
  <2>1. log' = [l \in {l \in DOMAIN logDisk : l.pn < logDiskPages} |-> logDisk[l]]
    BY <1>4 DEF Crash
  <2>2. \A l \in UpTo(z) : l \in LogOnDisk /\ logDisk[l] = log[l]
    BY DEF Recovery, RecoveryChain
  <2> QED
    BY <2>1, <2>2 DEF LogOnDisk
<1>5. CASE Write \/ RedoApply \/ UndoEndRecover \/ Quiet
  <2>1. log' = log
    BY <1>5 DEF Write, WriteLogHdr, WriteLogPage, WriteDataPage, WritePFHeader, WriteRMHeader,
                RedoApply, UndoEndRecover, Quiet, logVars
  <2> QED
    BY <1>1, <2>1
<1> QED
  BY <1>3, <1>4, <1>5, StepKinds

LEMMA OwnInsertSame ==
  ASSUME NEW z \in Pos, \A l \in UpTo(z) : log'[l] = log[l]
  PROVE  \A x : OwnInsert(z, x)' <=> OwnInsert(z, x)
<1>1. z \in UpTo(z)
  BY PosOrder DEF UpTo
<1> QED
  BY <1>1 DEF OwnInsert

(* A step that makes no page stale and takes away nothing that is only     *)
(* updated.                                                                *)
LEMMA StaleSame ==
  ASSUME NEW z \in Pos, \A l \in UpTo(z) : log'[l] = log[l],
         RecoveryStale(z), RecoveryLocated(z), DOMAIN rel' = DOMAIN rel,
         \A x \in Rid : Stale(x)' => Stale(x),
         \A x \in Rid : OnlyUpdated(UpTo(z), x) /\ Contents[x] # Empty /\ DiskHolds(x)
                          => Contents'[x] # Empty /\ DiskHolds(x)'
  PROVE  RecoveryStale(z)' /\ RecoveryLocated(z)'
<1>1. \A l \in UpTo(z) : SameRecord(log'[l], log[l])
  BY DEF SameRecord
<1>2. \A x : /\ OnlyUpdated(UpTo(z), x)' <=> OnlyUpdated(UpTo(z), x)
             /\ Updated(UpTo(z), x)' <=> Updated(UpTo(z), x)
  BY <1>1, SameTouches
<1>3. RecoveryStale(z)'
  BY <1>2 DEF RecoveryStale
<1>4. RecoveryLocated(z)'
  BY DEF RecoveryLocated, Located
<1> QED
  BY <1>3, <1>4

LEMMA StaleStep ==
  ASSUME TypeInv, LogInv, ChainInv, ClosedInv, TypeInv', ClosedInv', Recovering, RecoveryState,
         [Next]_vars, ~NewLog, fresh', NEW H, NEW z \in Pos, Ends(z), Recovery(H, z),
         \A l \in UpTo(z) : log'[l] = log[l], RecoveryStale(z), RecoveryLocated(z)
  PROVE  RecoveryStale(z)' /\ RecoveryLocated(z)'
<1>1. /\ relPages = relDiskPages /\ DOMAIN rel = {p \in DOMAIN relDisk : p < relDiskPages}
      /\ PagesOK /\ PagesOK' /\ relPages \in Nat
  BY DEF RecoveryState, TypeInv, Scalars
<1>2. CASE Write
  <2>1. UNCHANGED <<log, rel, relPages, relDiskPages, skipped, era>>
    BY <1>1, <1>2 DEF Write, WriteLogHdr, WriteLogPage, WriteDataPage, WritePFHeader, WriteRMHeader,
                logVars, relVars, history
  <2>2. /\ DOMAIN relDisk' = DOMAIN relDisk
        /\ \A p \in DOMAIN relDisk : \/ p \in DOMAIN rel /\ relDisk'[p] = rel[p]
                                     \/ relDisk'[p] = relDisk[p]
    <3>1. CASE \E p \in 1 .. MaxPages : WriteDataPage(p)
      BY <1>1, <3>1 DEF WriteDataPage
    <3>2. CASE relDisk' = relDisk
      BY <3>2
    <3> QED
      BY <1>2, <3>1, <3>2 DEF Write, WriteLogHdr, WriteLogPage, WritePFHeader, WriteRMHeader
  <2>3. \A x \in Rid : Stale(x)' => Stale(x)
    BY <1>1, <2>1, <2>2 DEF Stale
  <2>4. Contents' = Contents
    BY <2>1 DEF Contents, ContentsOf
  <2>5. ASSUME NEW x \in Rid, Contents[x] # Empty, DiskHolds(x)
        PROVE  DiskHolds(x)'
    <3>1. PICK p, s : p = x[1] /\ s = x[2]
      OBVIOUS
    <3>2. p \in DOMAIN relDisk /\ p < relDiskPages /\ relDisk[p].rec[s] # Empty
      BY <2>5, <3>1 DEF DiskHolds, ContentsOf
    <3>3. p \in DOMAIN rel /\ rel[p].rec[s] # Empty
      BY <1>1, <2>5, <3>1, <3>2, ContentsAt
    <3>4. relDisk'[p].rec[s] # Empty
      BY <2>2, <3>2, <3>3
    <3> QED
      BY <2>1, <2>2, <3>1, <3>2, <3>4 DEF DiskHolds, ContentsOf
  <2> QED
    BY <2>1, <2>3, <2>4, <2>5, StaleSame
<1>3. CASE Crash
  <2>1. /\ rel' = [p \in {p \in DOMAIN relDisk : p < relDiskPages} |-> relDisk[p]]
        /\ UNCHANGED <<relDisk, relDiskPages, era, skipped>> /\ relPages' = relDiskPages
    BY <1>3 DEF Crash, diskVars
  <2>2. DOMAIN rel' = DOMAIN rel /\ \A p \in DOMAIN rel' : rel'[p] = relDisk[p]
    BY <1>1, <2>1
  <2>3. \A x \in Rid : Stale(x)' => Stale(x)
    BY <2>1, <2>2 DEF Stale
  <2>4. ASSUME NEW x \in Rid, DiskHolds(x)
        PROVE  Contents'[x] # Empty /\ DiskHolds(x)'
    <3>1. PICK p, s : p = x[1] /\ s = x[2]
      OBVIOUS
    <3>2. p \in DOMAIN relDisk /\ p < relDiskPages /\ relDisk[p].rec[s] # Empty
      BY <2>4, <3>1 DEF DiskHolds, ContentsOf
    <3>3. Contents'[x] # Empty
      BY <1>1, <2>1, <3>1, <3>2, ContentsAtNext
    <3>4. DiskHolds(x)'
      BY <2>1, <2>4 DEF DiskHolds, ContentsOf
    <3> QED
      BY <3>3, <3>4
  <2> QED
    BY <2>2, <2>3, <2>4, StaleSame
<1>4. CASE \/ CloseDone \/ CheckpointBreaks \/ RedoUnreadable \/ UNCHANGED vars
           \/ UndoSkip \/ UndoEndRecover \/ RedoControl \/ RedoPass
           \/ RedoApply /\ pc' = "failed"
  <2>1. UNCHANGED <<rel, relPages, relDisk, relDiskPages, era>>
    BY <1>4 DEF CloseDone, CheckpointBreaks, RedoUnreadable, UndoSkip, UndoEndRecover, RedoControl,
                RedoPass, RedoApply, RedoAdvance, diskVars, relVars, history, vars
  <2>2. \A x \in skipped' : Stale(x)
    <3>1. CASE RedoPass
      <4>1. \A x \in skipped' : x \in skipped \/ (x = log[cur].rid /\ rel[x[1]].era # era)
        BY <3>1 DEF RedoPass
      <4>2. log[cur].rid[1] \in DOMAIN rel
        BY <3>1 DEF RedoPass, Redoable, Readable
      <4> QED
        BY <4>1, <4>2 DEF Stale
    <3>2. CASE ~RedoPass
      <4>1. skipped' = skipped
        BY <1>4, <3>2 DEF CloseDone, CheckpointBreaks, RedoUnreadable, UndoSkip, UndoEndRecover,
                          RedoControl, RedoApply, history, vars
      <4> QED
        BY <4>1 DEF Stale
    <3> QED
      BY <3>1, <3>2
  <2>3. \A x \in Rid : Stale(x)' => Stale(x)
    BY <2>1, <2>2 DEF Stale
  <2>4. Contents' = Contents /\ \A x : DiskHolds(x)' <=> DiskHolds(x)
    BY <2>1 DEF Contents, ContentsOf, DiskHolds
  <2> QED
    BY <2>1, <2>3, <2>4, StaleSame
<1>5. CASE UndoChange
  <2>1. PICK body, r, w : /\ body = CLR(cur) /\ r = log[cur].rid
                          /\ w = IF log[cur].type = "insert" THEN Empty ELSE log[cur].old
    OBVIOUS
  <2>2. /\ Logs(body) /\ log[cur].type \in Changes
        /\ log[cur].type # "insert" => w # Empty
        /\ CanUndo(cur) => /\ r[1] \in DOMAIN rel
                           /\ \E s \in Slots : Edits(r[1], s, w)
                           /\ \A x \in Rid : Contents'[x] = IF x = r THEN w ELSE Contents[x]
        /\ ~CanUndo(cur) => DOMAIN rel' = DOMAIN rel /\ Contents' = Contents
    BY <1>5, <2>1, UndoLogs
  <2>3. DOMAIN rel' = DOMAIN rel
    BY <2>2 DEF Edits
  <2>4. /\ UNCHANGED <<relDisk, relDiskPages, skipped, era>>
        /\ \A q \in DOMAIN rel' : (q \in DOMAIN rel /\ rel'[q].era = rel[q].era) \/ rel'[q].era = era
    BY <2>2 DEF Logs, diskVars
  <2>5. \A x \in Rid : Stale(x)' => Stale(x)
    BY <2>3, <2>4 DEF Stale
  <2>6. cur \in UpTo(z)
    BY <1>5, RestartUndoAt DEF UndoChange
  <2>7. ASSUME NEW x \in Rid, OnlyUpdated(UpTo(z), x), Contents[x] # Empty
        PROVE  Contents'[x] # Empty
    <3>1. x = r => log[cur].type # "insert"
      BY <2>1, <2>2, <2>6, <2>7 DEF OnlyUpdated, Touches, RedoKind, Changes
    <3> QED
      BY <2>2, <2>7, <3>1
  <2>8. \A x : DiskHolds(x)' <=> DiskHolds(x)
    BY <2>4 DEF ContentsOf, DiskHolds
  <2> QED
    BY <2>3, <2>5, <2>7, <2>8, StaleSame
<1>6. CASE RedoApply /\ pc' # "failed"
  <2>1. /\ Redoable(cur) /\ RedoPage(cur) /\ UNCHANGED <<relDisk, relDiskPages, skipped, era>>
        /\ pc = "redo"
    BY <1>6 DEF RedoApply, diskVars, history
  <2>2. PICK k : k = cur
    OBVIOUS
  <2>8. PICK p, s : p = log[k].rid[1] /\ s = log[k].rid[2]
    OBVIOUS
  <2>3. /\ p \in DOMAIN rel /\ s \in Slots /\ <<p, s>> = log[k].rid /\ <<p, s>> \in Rid
        /\ DOMAIN rel' = DOMAIN rel
        /\ \A q \in DOMAIN rel \ {p} : rel'[q] = rel[q]
        /\ \A t \in Slots \ {s} : rel'[p].rec[t] = rel[p].rec[t]
        /\ RedoKind(k) = "update" => rel'[p].rec[s] # Empty
        /\ rel'[p].era = era /\ rel'[p].lsn = k
    BY <2>1, <2>2, <2>8, RedoneCell
  <2>4. \A x \in Rid : Stale(x)' => Stale(x)
    BY <2>1, <2>3 DEF Stale
  <2>5. k \in UpTo(z) /\ log[k].type \in Changes \cup {"clr"}
    BY <2>1, <2>2, RedoAt DEF Redoable, Redoing
  <2>6. ASSUME NEW x \in Rid, OnlyUpdated(UpTo(z), x), Contents[x] # Empty
        PROVE  Contents'[x] # Empty
    <3>1. CASE x # <<p, s>>
      BY <1>1, <2>3, <2>6, <3>1, OtherContents
    <3>2. CASE x = <<p, s>>
      <4>1. RedoKind(k) = "update"
        BY <2>3, <2>5, <2>6, <3>2 DEF OnlyUpdated, Touches
      <4>2. Contents'[<<p, s>>] = rel'[p].rec[s]
        BY <1>1, <2>3, ContentsAtNext
      <4> QED
        BY <2>3, <3>2, <4>1, <4>2
    <3> QED
      BY <3>1, <3>2
  <2>7. \A x : DiskHolds(x)' <=> DiskHolds(x)
    BY <2>1 DEF ContentsOf, DiskHolds
  <2> QED
    BY <2>3, <2>4, <2>6, <2>7, StaleSame
<1> QED
  BY <1>2, <1>3, <1>4, <1>5, <1>6, RestartActions

-------------------------------------------------------------------------------
(* What is retained. *)


LEMMA RetainsSame ==
  ASSUME NEW H, NEW z, NEW p, UNCHANGED era, skipped \subseteq skipped',
         \A x : OwnInsert(z, x) => OwnInsert(z, x)',
         Retains(H, z, rel[p], p), Retains(H, z, relDisk[p], p)
  PROVE  /\ rel'[p] \in {rel[p], relDisk[p]} => Retains(H, z, rel[p], p)'
         /\ relDisk'[p] \in {rel[p], relDisk[p]} => Retains(H, z, relDisk[p], p)'
<1>1. ASSUME NEW pg \in {rel[p], relDisk[p]}, pg.era = era', Older(z, pg.lsn), NEW s \in Slots,
             <<p, s>> \notin skipped', ~OwnInsert(z, <<p, s>>)', After(H, z)[<<p, s>>] # Empty
      PROVE  pg.rec[s] # Empty
  <2>1. PICK x : x = <<p, s>>
    OBVIOUS
  <2>2. x \notin skipped /\ ~OwnInsert(z, x) /\ After(H, z)[x] # Empty
    BY <1>1, <2>1
  <2>3. Retains(H, z, pg, p)
    BY <1>1
  <2> QED
    BY <1>1, <2>1, <2>2, <2>3 DEF Retains
<1>2. ASSUME rel'[p] \in {rel[p], relDisk[p]}
      PROVE  Retains(H, z, rel[p], p)'
  <2>1. PICK pg : pg = rel'[p]
    OBVIOUS
  <2> QED
    BY <1>1, <1>2, <2>1 DEF Retains
<1>3. ASSUME relDisk'[p] \in {rel[p], relDisk[p]}
      PROVE  Retains(H, z, relDisk[p], p)'
  <2>1. PICK pg : pg = relDisk'[p]
    OBVIOUS
  <2> QED
    BY <1>1, <1>3, <2>1 DEF Retains
<1> QED
  BY <1>2, <1>3

LEMMA RetainedQuiet ==
  ASSUME NEW H, NEW z, Retained(H, z), UNCHANGED <<log, rel, relDisk, relPages, era>>,
         skipped \subseteq skipped',
         Undoing' => Undoing /\ UNCHANGED <<cur, undoXid>>
  PROVE  Retained(H, z)'
<1>1. \A x : OwnInsert(z, x)' <=> OwnInsert(z, x)
  BY DEF OwnInsert
<1>2. RetainedPages(H, z)'
  <2>1. ASSUME NEW p \in DOMAIN rel
        PROVE  Retains(H, z, rel[p], p)' /\ Retains(H, z, relDisk[p], p)'
    <3>1. Retains(H, z, rel[p], p) /\ Retains(H, z, relDisk[p], p)
      BY DEF Retained, RetainedPages
    <3> QED
      BY <1>1, <3>1, RetainsSame
  <2> QED
    BY <2>1 DEF RetainedPages
<1>3. Contents' = Contents
  BY DEF Contents, ContentsOf
<1>4. RetainedUndo(H, z)'
  BY <1>1, <1>3 DEF Retained, RetainedUndo
<1> QED
  BY <1>2, <1>4 DEF Retained

LEMMA RetainedWrite ==
  ASSUME NEW H, NEW z, Retained(H, z), Write, DOMAIN rel \subseteq DOMAIN relDisk
  PROVE  Retained(H, z)'
<1>1. UNCHANGED <<log, rel, relPages, era, skipped, cur, undoXid, stmt, pc>>
  BY DEF Write, WriteLogHdr, WriteLogPage, WriteDataPage, WritePFHeader, WriteRMHeader,
         logVars, relVars, ctlVars, history
<1>2. \A p \in DOMAIN rel : relDisk'[p] \in {relDisk[p], rel[p]}
  <2>1. CASE \E p \in 1 .. MaxPages : WriteDataPage(p)
    BY <2>1 DEF WriteDataPage
  <2>2. CASE relDisk' = relDisk
    BY <2>2
  <2> QED
    BY <2>1, <2>2 DEF Write, WriteLogHdr, WriteLogPage, WritePFHeader, WriteRMHeader
<1>3. \A x : OwnInsert(z, x)' <=> OwnInsert(z, x)
  BY <1>1 DEF OwnInsert
<1>4. ASSUME NEW p \in DOMAIN rel
      PROVE  Retains(H, z, rel[p], p)' /\ Retains(H, z, relDisk[p], p)'
  <2>1. Retains(H, z, rel[p], p) /\ Retains(H, z, relDisk[p], p)
    BY DEF Retained, RetainedPages
  <2> QED
    BY <1>1, <1>2, <1>3, <2>1, RetainsSame
<1>5. RetainedPages(H, z)'
  BY <1>1, <1>4 DEF RetainedPages
<1>6. Contents' = Contents /\ (Undoing' <=> Undoing)
  BY <1>1 DEF Contents, ContentsOf, Undoing
<1>7. RetainedUndo(H, z)'
  BY <1>1, <1>3, <1>6 DEF Retained, RetainedUndo
<1> QED
  BY <1>5, <1>7 DEF Retained

LEMMA RetainedCrash ==
  ASSUME Crash, RecoveryState, NEW H, NEW z \in Pos, \A l \in UpTo(z) : log'[l] = log[l],
         Retained(H, z)
  PROVE  Retained(H, z)'
<1>1. /\ rel' = [p \in {p \in DOMAIN relDisk : p < relDiskPages} |-> relDisk[p]]
      /\ UNCHANGED <<relDisk, era, skipped>> /\ pc' = "redo"
  BY DEF Crash, diskVars, RecoveryState
<1>2. DOMAIN rel' = DOMAIN rel /\ \A p \in DOMAIN rel' : rel'[p] = relDisk[p]
  BY <1>1 DEF RecoveryState
<1>3. \A x : OwnInsert(z, x)' <=> OwnInsert(z, x)
  BY OwnInsertSame
<1>4. ASSUME NEW p \in DOMAIN rel
      PROVE  Retains(H, z, rel[p], p)' /\ Retains(H, z, relDisk[p], p)'
  <2>1. Retains(H, z, rel[p], p) /\ Retains(H, z, relDisk[p], p)
    BY DEF Retained, RetainedPages
  <2> QED
    BY <1>1, <1>2, <1>3, <2>1, RetainsSame
<1>5. RetainedPages(H, z)'
  BY <1>2, <1>4 DEF RetainedPages
<1> QED
  BY <1>1, <1>5 DEF Retained, RetainedUndo, Undoing

LEMMA RetainedSkip ==
  ASSUME TypeInv, ChainInv, NEW H, NEW z, Ends(z), Recovery(H, z), Retained(H, z), UndoSkip
  PROVE  Retained(H, z)'
<1>1. /\ UNCHANGED <<log, rel, relDisk, relPages, era, skipped, undoXid, stmt, pc>>
      /\ pc = "undo" /\ ~UndoStops(cur) /\ log[cur].type \in {"abort", "clr"}
      /\ cur' = IF log[cur].type = "clr" THEN log[cur].undonext ELSE log[cur].prev
  BY DEF UndoSkip, diskVars, logVars, relVars, txnVars, history
<1>2. \A x : OwnInsert(z, x)' <=> OwnInsert(z, x)
  BY <1>1 DEF OwnInsert
<1>3. RetainedPages(H, z)'
  BY <1>1, <1>2 DEF Retained, RetainedPages, Retains
<1>4. Contents' = Contents
  BY <1>1 DEF Contents, ContentsOf
<1>5. Means(log, H, cur)
  BY <1>1, RestartUndoAt
<1>6. PICK q : q = cur'
  OBVIOUS
<1>7. \A x \in Rid : After(H, q)[x] = After(H, cur)[x]
  BY <1>1, <1>5, <1>6 DEF Means, ClrMeans, AbortMeans
<1>8. RetainedUndo(H, z)'
  BY <1>1, <1>2, <1>4, <1>6, <1>7 DEF Retained, RetainedUndo, Undoing
<1> QED
  BY <1>3, <1>8 DEF Retained

LEMMA RetainedUndone ==
  ASSUME TypeInv, LogInv, ChainInv, ClosedInv, TypeInv', ClosedInv', RecoveryState,
         NEW H, NEW z \in Pos, Ends(z), Recovery(H, z), Retained(H, z), UndoChange
  PROVE  Retained(H, z)'
<1>1. /\ UNCHANGED <<logDisk, logDiskPages, relDisk, era, inTxn, goals, skipped, undoXid, stmt>>
      /\ pc = "undo" /\ ~UndoStops(cur) /\ log[cur].type \in Changes
      /\ stmt = "undo" /\ ~inTxn /\ InsertLogRec(CLR(cur))
  BY DEF UndoChange, diskVars, txnVars, history, ChainInv, PhaseKnown, RecoveryState
<1>2. PICK body, r, w : /\ body = CLR(cur) /\ r = log[cur].rid
                        /\ w = IF log[cur].type = "insert" THEN Empty ELSE log[cur].old
  OBVIOUS
<1>3. /\ cur \in DOMAIN log
      /\ log[cur].type # "insert" => w # Empty
      /\ CanUndo(cur) => /\ r \in Rid /\ r[1] \in DOMAIN rel
                         /\ \E s \in Slots : r = <<r[1], s>> /\ Edits(r[1], s, w)
                         /\ \A x \in Rid : Contents'[x] = IF x = r THEN w ELSE Contents[x]
                         /\ cur' = log[cur].prev
      /\ ~CanUndo(cur) => DOMAIN rel' = DOMAIN rel /\ Contents' = Contents
  BY <1>2, UndoLogs
<1>4. \A l \in UpTo(z) : log'[l] = log[l]
  BY <1>1, LoggedPastEnd DEF Recovery
<1>5. z \in UpTo(z) /\ z \in DOMAIN log
  BY EndsUpTo
<1>6. \A x : OwnInsert(z, x)' <=> OwnInsert(z, x)
  BY <1>4, OwnInsertSame
<1>7. /\ undoXid = log[z].xid
      /\ \A x \in Rid \ skipped :
           ~OwnInsert(z, x) /\ (After(H, cur)[x] # Empty \/ After(H, z)[x] # Empty)
             => Contents[x] # Empty
  BY <1>1 DEF Retained, RetainedUndo, Undoing
<1>8. Means(log, H, cur) /\ log[cur].xid = undoXid /\ cur \in UpTo(z)
  BY <1>1, RestartUndoAt
<1>9. log[cur].type = "insert" => OwnInsert(z, r)
  BY <1>2, <1>7, <1>8 DEF OwnInsert
<1>10. PICK q : q = log[cur].prev
  OBVIOUS
<1>11. ASSUME NEW x \in Rid, x \notin skipped, ~OwnInsert(z, x),
              (CanUndo(cur) /\ After(H, q)[x] # Empty) \/ After(H, z)[x] # Empty
       PROVE  Contents'[x] # Empty
  <2>1. CASE ~CanUndo(cur)
    BY <1>3, <1>7, <1>11, <2>1
  <2>2. CASE CanUndo(cur) /\ x = r
    BY <1>3, <1>9, <1>11, <2>2
  <2>3. CASE CanUndo(cur) /\ x # r
    <3>1. After(H, cur)[x] = After(H, q)[x]
      BY <1>1, <1>2, <1>8, <1>10, <1>11, <2>3 DEF Means, ChangeMeans
    <3>2. Contents'[x] = Contents[x]
      BY <1>3, <1>11, <2>3
    <3> QED
      BY <1>7, <1>11, <3>1, <3>2
  <2> QED
    BY <2>1, <2>2, <2>3
<1>12. RetainedUndo(H, z)'
  <2>1. CASE ~CanUndo(cur)
    <3>1. ~Undoing'
      BY <1>1, <2>1 DEF UndoChange, GiveUp, Undoing
    <3> QED
      BY <3>1 DEF RetainedUndo
  <2>2. CASE CanUndo(cur)
    <3>1. undoXid' = log'[z].xid /\ cur' = q
      BY <1>1, <1>3, <1>4, <1>5, <1>7, <1>10, <2>2
    <3> QED
      BY <1>1, <1>6, <1>11, <2>2, <3>1 DEF RetainedUndo
  <2> QED
    BY <2>1, <2>2
<1>13. DOMAIN rel' = DOMAIN rel
  BY <1>3 DEF Edits
<1>14. ASSUME NEW p \in DOMAIN rel
       PROVE  Retains(H, z, rel[p], p)' /\ Retains(H, z, relDisk[p], p)'
  <2>1. Retains(H, z, rel[p], p) /\ Retains(H, z, relDisk[p], p)
    BY DEF Retained, RetainedPages
  <2>2. Retains(H, z, relDisk[p], p)'
    BY <1>1, <1>6, <2>1, RetainsSame
  <2>3. \A t \in Slots : <<p, t>> \in Rid /\ Contents'[<<p, t>>] = rel'[p].rec[t]
    BY <1>13, ContentsAtNext DEF TypeInv
  <2>4. ASSUME NEW t \in Slots, <<p, t>> \notin skipped, ~OwnInsert(z, <<p, t>>),
               After(H, z)[<<p, t>>] # Empty
        PROVE  rel'[p].rec[t] # Empty
    <3>1. PICK x : x = <<p, t>>
      OBVIOUS
    <3>2. x \in Rid /\ Contents'[x] = rel'[p].rec[t]
      BY <2>3, <3>1
    <3>3. Contents'[x] # Empty
      BY <1>11, <2>4, <3>1, <3>2
    <3> QED
      BY <3>2, <3>3
  <2>5. PICK pg : pg = rel'[p]
    OBVIOUS
  <2>6. \A t \in Slots : <<p, t>> \notin skipped' /\ ~OwnInsert(z, <<p, t>>)'
                             /\ After(H, z)[<<p, t>>] # Empty => pg.rec[t] # Empty
    BY <1>1, <1>6, <2>4, <2>5
  <2>7. Retains(H, z, rel[p], p)'
    BY <2>5, <2>6 DEF Retains
  <2> QED
    BY <2>2, <2>7
<1>15. RetainedPages(H, z)'
  BY <1>13, <1>14 DEF RetainedPages
<1> QED
  BY <1>12, <1>15 DEF Retained

(* When Redo is done every record there was at the end of the log is there,*)
(* but for those that Undo takes away.                                     *)
LEMMA RetainedAll ==
  ASSUME PagesOK', ClosedInv', NEW H, NEW z, RecoveryPages(H, z)', RetainedPages(H, z)',
         RedoneTo(H, z)', NEW x \in Rid, x \notin skipped', ~OwnInsert(z, x)', After(H, z)[x] # Empty
  PROVE  Contents'[x] # Empty
<1>1. x = <<x[1], x[2]>> /\ x[2] \in Slots
  BY ContentsAtNext
<1>2. x[1] \in DOMAIN rel'
  BY DEF RedoneTo
<1>3. PICK p, s, pg : p = x[1] /\ s = x[2] /\ pg = rel'[p]
  OBVIOUS
<1>4. x = <<p, s>> /\ s \in Slots /\ p \in DOMAIN rel' /\ Contents'[x] = pg.rec[s]
  BY <1>1, <1>2, <1>3, ContentsAtNext
<1>5. AtRest(H, z, rel[p], p)' /\ Retains(H, z, rel[p], p)'
  BY <1>4 DEF RecoveryPages, RetainedPages
<1>6. /\ pg.era # era' => pg.rec[s] = After(H, LogEOF)[x]
      /\ pg.era = era' /\ ~Older(z, pg.lsn) => Like(pg.rec[s], After(H, pg.lsn)[x])
      /\ pg.era = era' /\ Older(z, pg.lsn) => pg.rec[s] # Empty
  BY <1>3, <1>4, <1>5 DEF AtRest, Retains, LogEOF, LSN
<1>7. /\ pg.era # era' => After(H, z)[x] = After(H, LogEOF)[x]
      /\ pg.era = era' /\ ~Older(z, pg.lsn) => After(H, z)[x] = After(H, pg.lsn)[x]
  BY <1>3, <1>4 DEF RedoneTo, LogEOF, LSN
<1> QED
  BY <1>4, <1>6, <1>7, LogAssumption DEF Like

LEMMA RetainedRedone ==
  ASSUME TypeInv, LogInv, ChainInv, ClosedInv, TypeInv', LogInv', ClosedInv', Recovering, RecoveryState,
         NEW H, NEW z \in Pos, Ends(z), Recovery(H, z), Retained(H, z),
         RedoControl \/ RedoPass \/ (RedoApply /\ pc' # "failed"),
         RecoveryPages(H, z)'
  PROVE  Retained(H, z)'
<1>1. /\ pc = "redo" /\ cur \in DOMAIN log /\ RedoAdvance
      /\ UNCHANGED <<log, relDisk, era>> /\ skipped \subseteq skipped'
      /\ pc' \in {stmt', "closing"}
  BY DEF RedoControl, RedoPass, RedoApply, Redoable, diskVars, logVars, history
<1>2. Redoing /\ stmt = "redo"
  BY <1>1 DEF Redoing, ChainInv, PhaseKnown
<1>3. PICK k : k = cur
  OBVIOUS
<1>4. k \in UpTo(z) /\ k \in Pos /\ (log[k].next = LogEOF => k = z)
  BY <1>1, <1>2, <1>3, RedoAt
<1>5. \A x : OwnInsert(z, x)' <=> OwnInsert(z, x)
  BY <1>1 DEF OwnInsert
<1>6. RetainedPages(H, z)'
  <2>1. CASE RedoControl \/ RedoPass
    <3>1. UNCHANGED rel
      BY <2>1 DEF RedoControl, RedoPass, relVars
    <3>2. ASSUME NEW j \in DOMAIN rel
          PROVE  Retains(H, z, rel[j], j)' /\ Retains(H, z, relDisk[j], j)'
      <4>1. Retains(H, z, rel[j], j) /\ Retains(H, z, relDisk[j], j)
        BY DEF Retained, RetainedPages
      <4> QED
        BY <1>1, <1>5, <3>1, <4>1, RetainsSame
    <3> QED
      BY <3>1, <3>2 DEF RetainedPages
  <2>2. CASE RedoApply /\ pc' # "failed"
    <3>1. Redoable(cur) /\ RedoPage(cur)
      BY <2>2 DEF RedoApply
    <3>2. PICK p, s : p = log[k].rid[1] /\ s = log[k].rid[2]
      OBVIOUS
    <3>3. /\ p \in DOMAIN rel /\ s \in Slots /\ <<p, s>> = log[k].rid /\ <<p, s>> \in Rid
          /\ DOMAIN rel' = DOMAIN rel
          /\ \A q \in DOMAIN rel \ {p} : rel'[q] = rel[q]
          /\ rel'[p].era = era /\ rel'[p].lsn = k
      BY <1>3, <3>1, <3>2, RedoneCell
    <3>4. ~Older(z, rel'[p].lsn)
      BY <1>4, <3>3 DEF UpTo
    <3>5. ASSUME NEW j \in DOMAIN rel
          PROVE  Retains(H, z, relDisk[j], j)' /\ (j # p => Retains(H, z, rel[j], j)')
      <4>1. Retains(H, z, rel[j], j) /\ Retains(H, z, relDisk[j], j)
        BY DEF Retained, RetainedPages
      <4>2. UNCHANGED <<era, relDisk>> /\ (j # p => rel'[j] = rel[j])
        BY <1>1, <3>3
      <4> QED
        BY <1>1, <1>5, <4>1, <4>2, RetainsSame
    <3>6. Retains(H, z, rel[p], p)'
      BY <3>4 DEF Retains
    <3> QED
      BY <3>3, <3>5, <3>6 DEF RetainedPages
  <2> QED
    BY <2>1, <2>2
<1>7. RedoneTo(H, k)'
  <2>1. CASE RedoControl \/ RedoPass
    BY <1>3, <2>1, PassedTo
  <2>2. CASE RedoApply /\ pc' # "failed"
    <3>1. PICK p, s : p = log[k].rid[1] /\ s = log[k].rid[2]
      OBVIOUS
    <3> QED
      BY <1>3, <2>2, <3>1, AppliedTo
  <2> QED
    BY <2>1, <2>2
<1>8. RetainedUndo(H, z)'
  <2>1. CASE log[k].next # LogEOF
    <3>1. stmt' = "redo"
      BY <1>1, <1>3, <2>1 DEF RedoAdvance
    <3> QED
      BY <1>1, <3>1 DEF RetainedUndo, Undoing
  <2>2. CASE log[k].next = LogEOF
    <3>1. k = z /\ cur' = z /\ undoXid' = log'[z].xid
      BY <1>1, <1>3, <1>4, <2>2 DEF RedoAdvance
    <3>2. \A x \in Rid \ skipped' : ~OwnInsert(z, x)' /\ After(H, z)[x] # Empty => Contents'[x] # Empty
      BY <1>6, <1>7, <3>1, RetainedAll DEF TypeInv
    <3> QED
      BY <3>1, <3>2 DEF RetainedUndo
  <2> QED
    BY <2>1, <2>2
<1> QED
  BY <1>6, <1>8 DEF Retained

(* Recovery fails only when an RID that is not one, or an update of a      *)
(* record its own transaction inserted, is in the log.                     *)

LEMMA UnreadableLogged ==
  ASSUME TypeInv, ClosedInv, RecoveryState, NEW z \in Pos, Ends(z), RecoveryLocated(z),
         RedoUnreadable
  PROVE  InvalidRidLogged
<1>1. Redoing /\ cur \in Pos /\ Before(cur)
  BY DEF RedoUnreadable, Redoing, TypeInv, RedoReached, RecoveryState
<1>2. ~Older(z, cur)
  <2> SUFFICES ASSUME Older(z, cur)
               PROVE  FALSE
    OBVIOUS
  <2>1. log[z].next = Successor(z)
    BY <1>1 DEF Before
  <2> QED
    BY <1>1, <2>1, SuccessorOrder DEF Ends
<1>3. cur \in UpTo(z) /\ cur \in DOMAIN log
  BY <1>1, <1>2, EndsUpTo DEF UpTo
<1>4. log[cur].type \in Changes \cup {"clr"} /\ ~Readable(log[cur].rid[1])
  BY <1>3 DEF RedoUnreadable
<1>5. Located(cur)
  BY <1>3 DEF RecoveryLocated
<1> QED
  BY <1>3, <1>4, <1>5 DEF InvalidRidLogged, Located, ClosedInv, Readable

LEMMA StalePresent ==
  ASSUME NEW z \in Pos, RecoveryStale(z), NEW l \in UpTo(z), NEW x \in Rid, Touches(l, x),
         RedoKind(l) = "update", Contents[x] = Empty
  PROVE  ~Stale(x)
<1>1. Updated(UpTo(z), x)
  BY DEF Updated
<1> QED
  BY <1>1 DEF RecoveryStale

LEMMA RedoCan ==
  ASSUME TypeInv, LogInv, ClosedInv, RecoveryState, NEW H, NEW z \in Pos, RecoveryStale(z),
         Ends(z), Recovery(H, z), RedoApply
  PROVE  pc' # "failed"
<1> SUFFICES ASSUME pc' = "failed"
             PROVE  FALSE
  OBVIOUS
<1>1. PICK k, r, p, s : k = cur /\ r = log[k].rid /\ p = r[1] /\ s = r[2]
  OBVIOUS
<1>2. /\ pc = "redo" /\ k \in DOMAIN log /\ log[k].type \in Changes \cup {"clr"}
      /\ Readable(p) /\ Older(rel[p].lsn, k)
      /\ RedoKind(k) = "update" /\ Contents[r] = Empty
  BY <1>1 DEF RedoApply, Redoable, NeedsRedo, CanRedo
<1>3. RecordOK(k, log[k]) /\ Redoing
  BY <1>2 DEF TypeInv, LogOK, Redoing
<1>4. r \in Rid /\ p \in DOMAIN rel
  BY <1>1, <1>2, <1>3, RecordPlace DEF RecordOK, LogRec, Readable, TypeInv
<1>5. r = <<p, s>> /\ s \in Slots /\ Contents[r] = rel[p].rec[s]
  BY <1>1, <1>2, <1>4, ContentsAt DEF TypeInv, ClosedInv
<1>6. ~Stale(r)
  <2>1. Touches(k, r) /\ k \in UpTo(z)
    BY <1>1, <1>2, <1>3, RedoAt DEF Touches
  <2> QED
    BY <1>2, <1>4, <2>1, StalePresent
<1>7. r \notin skipped /\ rel[p].era = era
  BY <1>1, <1>4, <1>6 DEF Stale
<1>8. k \in Pos /\ k \in UpTo(z) /\ z \in Pos /\ Means(log, H, k)
  BY <1>1, <1>2, <1>3, RedoAt DEF Recovery, RecoveryChain
<1>9. rel[p].lsn \in Pos
  BY <1>4, <1>7 DEF LogInv, StampLogged, TypeInv, LogOK, RecordOK
<1>10. ~Older(z, rel[p].lsn)
  BY <1>2, <1>8, <1>9, PosOrder DEF UpTo
<1>11. After(H, log[k].prev)[r] = After(H, rel[p].lsn)[r]
  BY <1>1, <1>2, <1>3, <1>4, <1>7 DEF Recovery, RecoveryRedo
<1>12. Like(rel[p].rec[s], After(H, rel[p].lsn)[r])
  BY <1>4, <1>5, <1>7, <1>10 DEF Recovery, RecoveryPages, AtRest
<1>13. After(H, log[k].prev)[r] = Empty
  BY <1>2, <1>5, <1>11, <1>12, CellFacts DEF Like
<1>14. log[k].type = "update" \/ (log[k].type = "clr" /\ log[k].undo = "update")
  BY <1>2 DEF RedoKind
<1>15. CASE log[k].type = "update"
  <2>1. log[k].old # Empty
    BY <1>3, <1>15 DEF RecordOK, Imaged
  <2> QED
    BY <1>1, <1>4, <1>8, <1>13, <1>15, <2>1 DEF Means, ChangeMeans, Changes
<1>16. CASE log[k].type = "clr" /\ log[k].undo = "update"
  BY <1>1, <1>4, <1>8, <1>13, <1>16 DEF Means, ClrMeans
<1> QED
  BY <1>14, <1>15, <1>16

LEMMA UndoCannot ==
  ASSUME TypeInv, LogInv, ChainInv, ClosedInv, RecoveryState, NEW H, NEW z \in Pos,
         RecoveryStale(z), RecoveryLocated(z), Ends(z), Recovery(H, z), Retained(H, z),
         UndoChange, pc' = "failed"
  PROVE  InvalidRidLogged' \/ UpdateOfOwnInsert'
<1>1. PICK k, r : k = cur /\ r = log[k].rid
  OBVIOUS
<1>2. /\ pc = "undo" /\ ~UndoStops(k) /\ log[k].type \in Changes
      /\ InsertLogRec(CLR(k)) /\ ~CanUndo(k)
  BY <1>1 DEF UndoChange
<1>3. /\ DOMAIN log \subseteq DOMAIN log'
      /\ \A l \in DOMAIN log : SameRecord(log'[l], log[l])
  BY <1>2, AppendedLog
<1>4. /\ InvalidRidLogged => InvalidRidLogged'
      /\ UpdateOfOwnInsert => UpdateOfOwnInsert'
  BY <1>3 DEF InvalidRidLogged, UpdateOfOwnInsert, SameRecord
<1>5. k \in DOMAIN log /\ log[k].xid = undoXid /\ Means(log, H, k) /\ k \in UpTo(z)
  BY <1>1, <1>2, RestartUndoAt
<1>6. RecordOK(k, log[k])
  BY <1>5 DEF TypeInv, LogOK
<1>7. CASE ~Readable(r[1])
  <2>1. Located(k)
    BY <1>5 DEF RecoveryLocated
  <2>2. InvalidRidLogged
    BY <1>1, <1>2, <1>5, <1>7, <2>1 DEF InvalidRidLogged, Located, ClosedInv, Readable
  <2> QED
    BY <1>4, <2>2
<1>8. CASE Readable(r[1])
  <2>1. log[k].type = "update" /\ Contents[r] = Empty
    BY <1>1, <1>2, <1>8 DEF CanUndo
  <2>2. r \in Rid
    BY <1>1, <1>6, <1>8, RecordPlace DEF RecordOK, LogRec, Readable, TypeInv
  <2>3. Touches(k, r) /\ RedoKind(k) = "update"
    BY <1>1, <1>2, <2>1 DEF Touches, RedoKind
  <2>4. r \notin skipped
    BY <1>5, <2>1, <2>2, <2>3, StalePresent DEF Stale
  <2>5. After(H, k)[r] # Empty
    BY <1>1, <1>2, <1>5, <1>6, <2>1, <2>2 DEF Means, ChangeMeans, RecordOK, Imaged
  <2>6. undoXid = log[z].xid /\ OwnInsert(z, r)
    BY <1>1, <1>2, <2>1, <2>2, <2>4, <2>5 DEF Retained, RetainedUndo, Undoing
  <2>7. UpdateOfOwnInsert
    BY <1>1, <1>5, <2>1, <2>6, EndsUpTo DEF OwnInsert, UpdateOfOwnInsert
  <2> QED
    BY <1>4, <2>7
<1> QED
  BY <1>7, <1>8

LEMMA RetainedStep ==
  ASSUME TypeInv, LogInv, ChainInv, ClosedInv, TypeInv', LogInv', ClosedInv',
         Recovering, RecoveryState, [Next]_vars, ~NewLog, fresh',
         NEW H, NEW z \in Pos, Ends(z), Recovery(H, z), Retained(H, z), Recovery(H, z)',
         \A l \in UpTo(z) : log'[l] = log[l]
  PROVE  Retained(H, z)'
<1>1. DOMAIN rel \subseteq DOMAIN relDisk
  BY DEF RecoveryState
<1>2. CASE Write
  BY <1>1, <1>2, RetainedWrite
<1>3. CASE Crash
  BY <1>3, RetainedCrash
<1>4. CASE CloseDone \/ CheckpointBreaks \/ RedoUnreadable \/ UNCHANGED vars
  <2>1. UNCHANGED <<log, rel, relDisk, relPages, era, skipped, cur, undoXid>>
    BY <1>4 DEF CloseDone, CheckpointBreaks, RedoUnreadable, logVars, relVars, diskVars, history,
                vars
  <2>2. Undoing' => Undoing
    BY <1>4, LogAssumption DEF CloseDone, CheckpointBreaks, RedoUnreadable, Undoing, vars
  <2> QED
    BY <2>1, <2>2, RetainedQuiet
<1>5. CASE UndoSkip
  BY <1>5, RetainedSkip
<1>6. CASE UndoEndRecover
  <2>1. UNCHANGED <<log, rel, relDisk, relPages, era, skipped>> /\ ~Undoing'
    BY <1>6 DEF UndoEndRecover, relVars, diskVars, history, Undoing
  <2> QED
    BY <2>1, RetainedQuiet
<1>7. CASE UndoChange
  BY <1>7, RetainedUndone
<1>8. CASE RedoControl \/ RedoPass \/ (RedoApply /\ pc' # "failed")
  <2>1. RecoveryPages(H, z)'
    BY DEF Recovery
  <2> QED
    BY <1>8, <2>1, RetainedRedone
<1>9. CASE RedoApply /\ pc' = "failed"
  <2>1. UNCHANGED <<log, rel, relDisk, relPages, era, skipped>> /\ ~Undoing'
    BY <1>9 DEF RedoApply, relVars, logVars, diskVars, history, Undoing
  <2> QED
    BY <2>1, RetainedQuiet
<1> QED
  BY <1>2, <1>3, <1>4, <1>5, <1>6, <1>7, <1>8, <1>9, RestartActions

LEMMA FailingStep ==
  ASSUME TypeInv, ChainInv, ClosedInv, [Next]_vars, pc' = "failed"
  PROVE  \/ pc = "failed" /\ UNCHANGED <<log, torn, fresh, leftover>>
         \/ /\ RedoUnreadable \/ RedoApply \/ UndoChange
            /\ UNCHANGED <<torn, fresh, leftover>> /\ Recovering
<1>1. CASE Write \/ UNCHANGED vars
  BY <1>1 DEF Write, WriteLogHdr, WriteLogPage, WriteDataPage, WritePFHeader, WriteRMHeader,
              logVars, ctlVars, history, vars
<1>2. CASE Crash
  BY <1>2 DEF Crash
<1>3. ~Request
  <2>1. ~BeginT /\ \A k \in Kinds : ~StartStatement(k)
    BY DEF BeginT, StartStatement, BeginXact, ctlVars
  <2>2. /\ \A v \in Val : ~InsertRec(v)
        /\ \A r \in Records : ~DeleteRec(r) /\ \A v \in Val : ~UpdateRec(r, v)
    <3>1. ASSUME NEW v \in Val
          PROVE  ~InsertRec(v)
      BY DEF InsertRec, InsertInNewPage, InsertInFreePage, InsertInFullPage, InsertInLostPage
    <3>2. ASSUME NEW r \in Records
          PROVE  ~DeleteRec(r) /\ \A v \in Val : ~UpdateRec(r, v)
      BY DEF DeleteRec, UpdateRec, ctlVars
    <3> QED
      BY <3>1, <3>2
  <2>3. ~CloseFile /\ ~CommitT /\ ~AbortT
    BY DEF CloseFile, CommitT, AbortT
  <2>4. ~Checkpoint /\ ~CloseDb
    BY DEF Checkpoint, CheckpointResets, CheckpointBreaks, CloseDb, NewLog, ctlVars
  <2> QED
    BY <2>1, <2>2, <2>3, <2>4 DEF Request
<1>4. CASE Continue
  <2>1. ~(CloseDone \/ CommitT \/ CommitDone \/ AbortForced \/ EndDone)
    BY LogAssumption DEF CloseDone, CommitT, CommitDone, AbortForced, EndDone
  <2>2. ~(UndoSkip \/ UndoEndAbort \/ UndoEndRecover)
    BY DEF UndoSkip, UndoEndAbort, UndoEndRecover
  <2>3. ~(RedoControl \/ RedoPass)
    BY DEF RedoControl, RedoPass, RedoAdvance
  <2>4. RedoUnreadable \/ RedoApply \/ UndoChange
    BY <1>4, <2>1, <2>2, <2>3 DEF Continue
  <2>5. UNCHANGED <<torn, fresh, leftover>>
    BY <2>4 DEF RedoUnreadable, RedoApply, UndoChange, history
  <2>6. Recovering
    BY <2>4 DEF RedoUnreadable, RedoApply, UndoChange, GiveUp, Recovering, ChainInv, PhaseKnown,
                ClosedInv
  <2> QED
    BY <2>4, <2>5, <2>6
<1> QED
  BY <1>1, <1>2, <1>3, <1>4 DEF Next

-------------------------------------------------------------------------------
(* The invariant, step by step. *)

LEMMA InitRestart == Init => RestartInv /\ RecoverySucceeds
<1> SUFFICES ASSUME Init
             PROVE  RestartInv /\ RecoverySucceeds
  OBVIOUS
<1>1. /\ DOMAIN log = {} /\ DOMAIN logDisk = {} /\ logPages = 0 /\ stmt = "none" /\ pc = "idle"
      /\ skipped = {}
  BY DEF Init, EmptyLog
<1>2. NormalRestart
  BY <1>1 DEF NormalRestart, NormalStale, LogWhole
<1>3. ~Recovering
  BY <1>1 DEF Recovering
<1> QED
  BY <1>1, <1>2, <1>3 DEF RestartInv, RecoverySucceeds

(* Only a new log makes a torn file whole.                                 *)
LEMMA TornKept ==
  ASSUME [Next]_vars, ~NewLog, ~torn'
  PROVE  ~torn
<1>1. CASE Request
  BY <1>1 DEF Request, BeginT, StartStatement, BeginXact, InsertRec, DeleteRec, UpdateRec,
              CloseFile, CommitT, AbortT, Checkpoint, CheckpointResets, CheckpointBreaks,
              CloseDb, history
<1>2. CASE Continue
  BY <1>2 DEF Continue, CloseDone, CommitT, CommitDone, AbortForced, EndDone, UndoChange,
              UndoSkip, UndoEndAbort, UndoEndRecover, RedoUnreadable, RedoControl, RedoPass,
              RedoApply, history
<1>3. CASE Write
  BY <1>3 DEF Write, WriteLogHdr, WriteLogPage, WriteDataPage, WritePFHeader, WriteRMHeader,
              history
<1>4. CASE Crash \/ UNCHANGED vars
  BY <1>4 DEF Crash, vars
<1> QED
  BY <1>1, <1>2, <1>3, <1>4 DEF Next

LEMMA SucceedsKept ==
  ASSUME TypeInv, LogInv, ChainInv, ClosedInv, AtomicInv, RestartInv, RecoverySucceeds,
         [Next]_vars, TypeInv', ClosedInv'
  PROVE  RecoverySucceeds'
<1> HIDE DEF Recovery, Retained
<1> SUFFICES ASSUME pc' = "failed", fresh', ~leftover', ~torn'
             PROVE  InvalidRidLogged' \/ UpdateOfOwnInsert'
  BY DEF RecoverySucceeds
<1>1. CASE pc = "failed" /\ UNCHANGED <<log, torn, fresh, leftover>>
  BY <1>1 DEF RecoverySucceeds, InvalidRidLogged, UpdateOfOwnInsert
<1>2. CASE /\ RedoUnreadable \/ RedoApply \/ UndoChange
           /\ UNCHANGED <<torn, fresh, leftover>> /\ Recovering
  <2>1. RecoveryState
    BY <1>2 DEF AtomicInv
  <2>2. PICK z \in Pos : RestartAt(z)
    BY <1>2 DEF RestartInv
  <2>3. Ends(z) /\ RecoveryStale(z) /\ RecoveryLocated(z)
    BY <2>2 DEF RestartAt
  <2>4. PICK H : Recovery(H, z) /\ Retained(H, z)
    BY <2>2 DEF RestartAt
  <2>5. CASE RedoUnreadable
    <3>1. InvalidRidLogged
      BY <2>1, <2>3, <2>5, UnreadableLogged
    <3> QED
      BY <2>5, <3>1 DEF RedoUnreadable, InvalidRidLogged, logVars
  <2>6. ~RedoApply
    BY <2>1, <2>3, <2>4, RedoCan
  <2>7. CASE UndoChange
    BY <2>1, <2>3, <2>4, <2>7, UndoCannot
  <2> QED
    BY <1>2, <2>5, <2>6, <2>7
<1> QED
  BY <1>1, <1>2, FailingStep

LEMMA RestartKept ==
  ASSUME TypeInv, LogInv, ChainInv, ClosedInv, AtomicInv, RestartInv, [Next]_vars,
         TypeInv', LogInv', ClosedInv'
  PROVE  RestartInv'
<1> HIDE DEF Normal, Recovery, Retained
<1> SUFFICES ASSUME ~torn', fresh', ~leftover'
             PROVE  IF Recovering' THEN \E z \in Pos : RestartAt(z)' ELSE NormalRestart'
  BY DEF RestartInv
<1>1. CASE NewLog
  <2>1. NormalRestart'
    BY <1>1, NewLogRestart
  <2>2. pc = "idle"
    <3>1. era' # era
      BY <1>1 DEF NewLog, TypeInv, Scalars
    <3> QED
      BY <3>1, NewLogWhenIdle
  <2>3. lastRec' = LogEOF /\ logPages' = 0 /\ UNCHANGED stmt
    BY <1>1 DEF NewLog, ctlVars
  <2>4. ~Recovering'
    BY <2>2, <2>3 DEF Recovering, ChainInv, PhaseKnown
  <2> QED
    BY <2>1, <2>4
<1>2. CASE ~NewLog
  <2>1. fresh /\ ~leftover /\ ~torn
    BY <1>2, FreshKept, TornKept
  <2>2. CASE Recovering
    <3>1. RecoveryState
      BY <2>1, <2>2 DEF AtomicInv
    <3>2. PICK z \in Pos : RestartAt(z)
      BY <2>1, <2>2 DEF RestartInv
    <3>3. Ends(z) /\ RecoveryStale(z) /\ RecoveryLocated(z)
      BY <3>2 DEF RestartAt
    <3>4. PICK H : Recovery(H, z) /\ Retained(H, z)
      BY <3>2 DEF RestartAt
    <3>5. \A y \in Pos : Ends(y) => Recovery(H, y)
      BY <3>3, <3>4, OneEnd
    <3>6. Recovering' /\ \A y \in Pos : Ends(y)' => Recovery(H, y)'
      BY <1>2, <2>2, <3>1, <3>5, RestartStep
    <3>7. Ends(z)' /\ \A l \in UpTo(z) : log'[l] = log[l]
      BY <1>2, <2>2, <3>1, <3>3, <3>4, RestartEnds
    <3>8. RecoveryStale(z)' /\ RecoveryLocated(z)'
      BY <1>2, <2>2, <3>1, <3>3, <3>4, <3>7, StaleStep
    <3>9. Recovery(H, z)' /\ Retained(H, z)'
      BY <1>2, <2>2, <3>1, <3>3, <3>4, <3>6, <3>7, RetainedStep
    <3>10. RestartAt(z)'
      BY <3>7, <3>8, <3>9 DEF RestartAt
    <3> QED
      BY <3>6, <3>10
  <2>3. CASE ~Recovering
    <3>1. PICK H, b : Normal(H, b)
      BY <2>1, <2>3 DEF AtomicInv
    <3>2. NormalRestart
      BY <2>1, <2>3 DEF RestartInv
    <3>3. CASE Crash /\ logDiskPages # 0
      BY <2>3, <3>1, <3>2, <3>3, RestartBegins
    <3>4. CASE ~(Crash /\ logDiskPages # 0)
      <4>1. NormalRestart'
        BY <1>2, <2>3, <3>1, <3>2, <3>4, NormalRestartKept
      <4>2. ~Recovering'
        <5>1. CASE Crash
          BY <3>4, <5>1 DEF Crash, Recovering
        <5>2. CASE ~Crash
          BY <2>3, <5>2, NormalStays
        <5> QED
          BY <5>1, <5>2
      <4> QED
        BY <4>1, <4>2
    <3> QED
      BY <3>3, <3>4
  <2> QED
    BY <2>2, <2>3
<1> QED
  BY <1>1, <1>2

(* While no crash has come between the writes that add a page to a file,   *)
(* no page is torn off: outside recovery the pool has every page the log   *)
(* tells of, stamped from this log, and the log pages on disk are whole;   *)
(* during recovery the log found is a chain to one end, the pages of its   *)
(* records are there, and a record an interrupted Undo will need is kept.  *)
(* With it, recovery succeeds but in the cases the property names.         *)
THEOREM RestartInvHolds == Spec => [](RestartInv /\ RecoverySucceeds)
<1>1. /\ TypeInv /\ LogInv /\ ChainInv /\ ClosedInv /\ AtomicInv /\ RestartInv /\ RecoverySucceeds
      /\ [Next]_vars /\ TypeInv' /\ LogInv' /\ ClosedInv'
      => (RestartInv /\ RecoverySucceeds)'
  BY RestartKept, SucceedsKept
<1> QED
  BY <1>1, InitRestart, AtomicInvHolds, TypeInvHolds, LogInvHolds, ChainInvHolds, PTL DEF Spec

(* Recovery on a log not recovered from before fails only when a crash     *)
(* came between the writes that add a page to a file, its header on disk   *)
(* not counting the page or the page not written, or when the log tells of *)
(* an insertion at an RID that is none or of an update of a record its own *)
(* transaction inserted, for every number of pages, slots, records per log *)
(* page, transactions, logs and crashes.  A log page on disk may lack any  *)
(* number of the records logged last.  Pages that a dead process left      *)
(* beyond the end of a file (leftover) are excepted, as in AtomicHolds.    *)
THEOREM SuccessHolds == Spec => []RecoverySucceeds
BY RestartInvHolds, PTL
===============================================================================
