------------------------------- MODULE Statements ------------------------------
(***************************************************************************)
(* The statements that change a relation r, its indexes and its count of   *)
(* tuples, with their transactions (QL_Manager::Insert, Delete, Update and *)
(* SM_Manager::Load, qDelete, qUpdate, interp.c).                          *)
(*                                                                         *)
(* A log record is what undoing it needs: the file it names, and the       *)
(* record identifier with the tuple before the change.  Undoing and        *)
(* redoing them on pages is the subject of LogRecovery; here its promise   *)
(* for a first crash is used.  Only changes of record files are logged.    *)
(*                                                                         *)
(* Every opening of a file has pages of its own in the buffer, which are   *)
(* surely on disk only when it is closed.  A plan or a Load that stops     *)
(* with an error closes none of its files: what it has changed is not      *)
(* seen by those who open them later, and at the end of the session each   *)
(* page is on disk as the buffer has written it last, or not.              *)
(***************************************************************************)
EXTENDS QueryPlan, IndexOrder

CONSTANTS
  Rids,           \* the places for records in r
  Loads,          \* sequences of tuples: Insert adds one tuple, Load several
  Changes,        \* deletions and updates: their conditions and the new value
  MaxStatements,  \* bound: statements
  MaxRollbacks    \* bound: aborts and crashes

ASSUME StatementsConstants ==
  /\ Rids \subseteq Nat /\ IsFiniteSet(Rids)
  /\ MaxStatements \in Nat /\ MaxRollbacks \in Nat

VARIABLES
  rel,        \* r: a function from identifiers to tuples
  index,      \* the entries of the index of each attribute of r that has one
  numTuples,  \* the count in relcat
  xact,       \* bInTransaction, and who began it: "none", "user", "statement"
  undo,       \* the log records of the transaction
  logged,     \* the files that records of the log name
  files,      \* those that exist
  disk,       \* what is surely on disk: the versions of r that the pages of its
              \* file may have there, and the indexes as they were last closed
  leaked,     \* the kind of statement, "change" or "add", that has stopped and
              \* left its files open with changes; or "no"
  db,         \* "open", "recovered" after a crash, "down" before, "lost" when
              \* recovery has failed, "nolog" after a failed checkpoint, "torn"
              \* when the splitting or disposal of an index's leaf is half done
  stmt,       \* the statement being executed
  statements, rollbacks,
  committed,  \* history: r when no transaction was open last
  forgotten,  \* history: places whose committed tuple was left in open files
              \* at the end of the session, or at a crash after a checkpoint
  suspect,    \* history: index entries of changes that were undone or stopped,
              \* or of which a crash or exit may have kept a part
  miscount,   \* history: changes were undone, a crash came between r and the
              \* count, or a deletion stopped with an error
  done        \* history: the last deletion, update or load, with r before it

vars == <<rel, index, numTuples, xact, undo, logged, files, disk, leaked, db, stmt,
          statements, rollbacks, committed, forgotten, suspect, miscount, done>>

Attrs == Schema["r"]
IndexNos == {a.indexNo : a \in ToSet(Attrs)} \ {-1}
OfIndex(n) == CHOOSE a \in ToSet(Attrs) : a.indexNo = n

(* r has an attribute; no two share a place in the tuple or an index. *)
ASSUME SchemaAssumption ==
  /\ Attrs \in Seq(ToSet(Attrs)) /\ Attrs # <<>>
  /\ \A i, j \in DOMAIN Attrs :
       \/ Attrs[i].offset = Attrs[j].offset
       \/ Attrs[i].indexNo = Attrs[j].indexNo /\ Attrs[i].indexNo # -1
       => i = j

Tuple == [{a.offset : a \in ToSet(Attrs)} -> Int]

(* A load is a sequence of tuples; the attributes that an update names exist
   when it is executed. *)
ASSUME StatementsAssumption ==
  /\ \A ts \in Loads : ts \in Seq(Tuple)
  /\ \A c \in Changes :
       /\ c.conds \in Seq(ToSet(c.conds))
       /\ \/ c.type = "delete"
          \/ /\ c.type = "update" /\ AttrExists(c.set, Attrs)
             /\ IF c.rhsIsAttr THEN AttrExists(c.rhs, Attrs) ELSE c.rhs.data \in Int

Idle == [type |-> "idle"]
NotDone == [type |-> "none"]

-------------------------------------------------------------------------------
(* Conditions, index entries. *)

Met(conds, t) ==
  \A i \in DOMAIN conds :
    LET x == t[Info(conds[i].lhs, Attrs).offset]
        y == IF conds[i].rhsIsAttr THEN t[Info(conds[i].rhs, Attrs).offset] ELSE conds[i].rhs.data
    IN  IF conds[i].op = "NE" THEN x # y ELSE Wanted(conds[i].op, y, <<x>>)

Entry(n, rid, t) == <<t[OfIndex(n).offset], rid>>
EntriesOf(n, table) == {Entry(n, rid, table[rid]) : rid \in DOMAIN table}

-------------------------------------------------------------------------------
(* The log and transactions. *)

Logged(r) == undo' = Append(undo, r) /\ logged' = logged \union {r.file}
Change(rid, t) == [file |-> "r", rid |-> rid, old |-> t]   \* t is <<>>: no record
Elsewhere(file) == [file |-> file]
Nowhere == Elsewhere("nowhere")   \* one whose record identifier is not set

(* BeginT, unless the statement is part of a transaction. *)
Begin == xact' = IF xact = "none" THEN "statement" ELSE xact
Own == xact = "statement"

(* CommitT. *)
Commit == xact' = "none" /\ undo' = <<>> /\ committed' = rel /\ forgotten' = {}

Put(table, rid, t) ==
  [i \in IF t = <<>> THEN DOMAIN table \ {rid} ELSE DOMAIN table \union {rid} |->
     IF i = rid THEN t ELSE table[i]]

(* Mutant: deletions are not undone. *)
UndoOneNoDelete(table, r) ==
  IF r.file # "r" \/ (r.old # <<>> /\ r.rid \notin DOMAIN table) THEN table
  ELSE Put(table, r.rid, r.old)

UndoOne(table, r) == IF r.file = "r" THEN Put(table, r.rid, r.old) ELSE table

(* The records of the transaction from the last one back to, and without, one
   that names a file that does not exist. *)
Undoable ==
  LET last == SelectLastInSeq(undo, LAMBDA r : r.file \notin files)
  IN  SubSeq(undo, last + 1, Len(undo))

Undone(table) == FoldRight(LAMBDA r, t : UndoOne(t, r), Undoable, table)

(* The index entries that the undone changes had put in or taken out. *)
Tuples(rid) == {r.old : r \in {u \in ToSet(Undoable) : u.file = "r" /\ u.rid = rid}} \ {<<>>}
Touched ==
  LET rids == {r.rid : r \in {u \in ToSet(Undoable) : u.file = "r"}}
      Had(rid) == Tuples(rid) \union (IF rid \in DOMAIN rel THEN {rel[rid]} ELSE {})
  IN  {<<n, Entry(n, p[1], p[2])>> :
         n \in IndexNos, p \in UNION {{rid} \X Had(rid) : rid \in rids}}

-------------------------------------------------------------------------------
(* Insert and Load. *)

(* The statement begins: the tuples still to be added, the number of all.  An
   insertion adds one; a Load of one tuple does no more than longer ones. *)
AddBegin(ts) ==
  /\ stmt' = [type |-> "add", load |-> Len(ts) > 1, todo |-> ts, entries |-> {}, rid |-> 0,
              count |-> Len(ts), suspect |-> suspect]
  /\ Begin
  /\ done' = NotDone
  /\ UNCHANGED <<rel, index, numTuples, undo, logged, disk, committed, forgotten, suspect, miscount>>

(* InsertRec: the record is logged and put in a free slot.  Insert closes the
   file, Load has it open until its end. *)
AddRecord ==
  /\ stmt.type = "add" /\ stmt.entries = {} /\ stmt.todo # <<>>
  /\ \E rid \in Rids \ DOMAIN rel :
       /\ Logged(Change(rid, <<>>))
       /\ rel' = Put(rel, rid, Head(stmt.todo))
       /\ stmt' = [stmt EXCEPT !.todo = Tail(@), !.rid = rid, !.entries = IndexNos]
  /\ disk' = IF stmt.load THEN disk ELSE [disk EXCEPT !.rel = {rel'}]
  /\ UNCHANGED <<index, numTuples, xact, leaked, db, committed, forgotten, suspect, miscount, done>>

(* InsertRec fails: a page that is full heads the list of those with room,
   which changes that were undone, redone or left in open files can bring
   about (LogRecovery has the pages; here any of them may have).  The record
   is logged before its place is known.  The statement returns and leaves its
   transaction and the file as they are. *)
AddFails ==
  /\ stmt.type = "add" /\ stmt.entries = {} /\ stmt.todo # <<>> /\ miscount
  /\ Logged(Nowhere)
  /\ stmt' = Idle /\ leaked' = "add"
  /\ done' = [type |-> "add", rc |-> "INVALIDPAGE", suspect |-> stmt.suspect]
  /\ UNCHANGED <<rel, index, numTuples, xact, disk, db, committed, forgotten, suspect, miscount>>

(* The index of the first attribute whose entry is still to be put in. *)
NextIndex == Attrs[SelectInSeq(Attrs, LAMBDA a : a.indexNo \in stmt.entries)].indexNo

(* InsertEntry of the next index, which is closed then.  When the entry is
   there already the statement returns the error, with its transaction as it
   is, and a Load with its file open; a leaf without room is split before. *)
AddEntry ==
  /\ stmt.type = "add" /\ stmt.entries # {}
  /\ LET n == NextIndex
         e == Entry(n, stmt.rid, rel[stmt.rid])
     IN  IF e \in index[n]
         THEN /\ stmt' = Idle
              /\ leaked' = IF stmt.load THEN "add" ELSE leaked
              /\ db' \in {db, "torn"}
              /\ done' = [type |-> "add", rc |-> "DUPLICATEENTRY", suspect |-> stmt.suspect]
              /\ suspect' = suspect \union
                   {<<m, Entry(m, stmt.rid, rel[stmt.rid])>> : m \in stmt.entries}
              /\ miscount' = TRUE
              /\ UNCHANGED <<index, disk>>
         ELSE /\ index' = [index EXCEPT ![n] = @ \union {e}]
              /\ disk' = [disk EXCEPT !.index = index']
              /\ stmt' = [stmt EXCEPT !.entries = @ \ {n}]
              /\ UNCHANGED <<leaked, db, done, suspect, miscount>>
  /\ UNCHANGED <<rel, numTuples, xact, undo, logged, committed, forgotten>>

AddCommit ==
  /\ stmt.type = "add" /\ stmt.entries = {} /\ stmt.todo = <<>>
  /\ stmt' = [type |-> "addCount", count |-> stmt.count]
  /\ IF Own THEN Commit ELSE UNCHANGED <<xact, undo, committed, forgotten>>
  /\ UNCHANGED <<rel, index, numTuples, logged, disk, leaked, db, suspect, miscount, done>>

(* Mutant: Load does not close the file. *)
AddCountOpen ==
  /\ stmt.type = "addCount"
  /\ numTuples' = numTuples + stmt.count
  /\ stmt' = Idle
  /\ UNCHANGED <<rel, index, xact, undo, logged, disk, leaked, db, committed, forgotten, suspect,
                 miscount, done>>

(* The count, which is forced to disk; Load closes the file. *)
AddCount ==
  /\ stmt.type = "addCount"
  /\ numTuples' = numTuples + stmt.count
  /\ stmt' = Idle
  /\ disk' = [disk EXCEPT !.rel = {rel}]
  /\ UNCHANGED <<rel, index, xact, undo, logged, leaked, db, committed, forgotten, suspect,
                 miscount, done>>

-------------------------------------------------------------------------------
(* Delete and Update.  A change c has conditions and, for an update, the
   attribute set and what it is set to. *)

SetInfo(c) == Info(c.set, Attrs)

ChangeTree(c) ==
  ChangePlan("r", c.conds, IF c.type = "update" THEN SetInfo(c).indexNo ELSE -1)

(* A set of entries as the sequence of them in which each comes behind those
   that are before it. *)
InOrder(es) ==
  [i \in 1..Cardinality(es) |-> CHOOSE e \in es : Cardinality({f \in es : Before(f, e)}) = i - 1]

(* The identifiers a scan returns: by record, or by entry of its index. *)
ScanEntries(scan) ==
  IF scan.type = "table"
  THEN {<<0, rid>> : rid \in {r \in DOMAIN rel : Met(scan.conds, rel[r])}}
  ELSE LET cond == scan.conds[1]
       IN  {e \in index[Info(cond.lhs, Attrs).indexNo] : Wanted(cond.op, cond.rhs.data, e)}

Scanned(scan) ==
  LET es == InOrder(ScanEntries(scan)) IN [i \in DOMAIN es |-> es[i][2]]

(* Errors on opening an index scan, see Query.  An index that leads to the
   same record twice, which undone changes can leave, is not scanned here: the
   scan's own copy of the page may still show the record as it was. *)
ScanError(scan) ==
  IF scan.type = "table" THEN "ok"
  ELSE IF scan.conds[1].op = "NE" THEN "SCANPARAMINVALID"
  ELSE IF index[Info(scan.conds[1].lhs, Attrs).indexNo] = {} THEN "INVALIDPAGE" ELSE "ok"

ChangeBegin(c) ==
  LET tree == ChangeTree(c)
      scan == IF tree.type = "filter" THEN tree.child ELSE tree
      rc   == ScanError(scan)
  IN  /\ rc = "ok" => IsInjective(Scanned(scan))
      /\ stmt' = [type |-> c.type, change |-> c, count |-> 0, rc |-> rc, changed |-> FALSE,
                  before |-> rel, suspect |-> suspect,
                  scanned |-> IF scan.type = "table" THEN -1 ELSE Info(scan.conds[1].lhs, Attrs).indexNo,
                  filter |-> IF tree.type = "filter" THEN tree.conds ELSE <<>>,
                  todo |-> IF rc = "ok" THEN Scanned(scan) ELSE <<>>]
      /\ Begin
      /\ done' = NotDone
      /\ UNCHANGED <<rel, index, numTuples, undo, logged, disk, committed, forgotten, suspect, miscount>>

(* The tuple that the scan returns next, once for all the steps below: it may
   not be there, or not pass the filter. *)
Rid == Head(stmt.todo)
Passed == [stmt EXCEPT !.todo = Tail(@)]
Stopped(rc) == [stmt EXCEPT !.todo = <<>>, !.rc = rc]

(* Mutant: the first tuple that does not pass ends the plan. *)
SkipTupleEnd ==
  /\ stmt.type \in {"delete", "update"} /\ stmt.todo # <<>>
  /\ \/ Rid \notin DOMAIN rel /\ stmt' = Stopped("RECNOTEXIST")
     \/ Rid \in DOMAIN rel /\ ~Met(stmt.filter, rel[Rid]) /\ stmt' = Stopped("ok")
  /\ UNCHANGED <<rel, index, numTuples, xact, undo, logged, disk, leaked, db, committed, forgotten,
                 suspect, miscount, done>>

SkipTuple ==
  /\ stmt.type \in {"delete", "update"} /\ stmt.todo # <<>>
  /\ \/ Rid \notin DOMAIN rel /\ stmt' = Stopped("RECNOTEXIST")
     \/ Rid \in DOMAIN rel /\ ~Met(stmt.filter, rel[Rid]) /\ stmt' = Passed
  /\ UNCHANGED <<rel, index, numTuples, xact, undo, logged, disk, leaked, db, committed, forgotten,
                 suspect, miscount, done>>

(* The indexes in the order of the attributes, up to the first that has no
   entry of the record. *)
Missing(rid) ==
  SelectInSeq(Attrs, LAMBDA a : a.indexNo # -1 /\ Entry(a.indexNo, rid, rel[rid]) \notin index[a.indexNo])

(* qDelete::GetNext. *)
DeleteTuple ==
  LET lost == Missing(Rid)
      upTo == IF lost = 0 THEN Len(Attrs) ELSE lost - 1
  IN  /\ stmt.type = "delete" /\ stmt.todo # <<>>
      /\ Rid \in DOMAIN rel /\ Met(stmt.filter, rel[Rid])
      /\ Logged(Change(Rid, rel[Rid]))
      /\ rel' = Put(rel, Rid, <<>>)
      /\ index' = [n \in IndexNos |->
                     IF \E i \in 1..upTo : Attrs[i].indexNo = n
                     THEN index[n] \ {Entry(n, Rid, rel[Rid])} ELSE index[n]]
      /\ stmt' = [(IF lost = 0 THEN Passed ELSE Stopped("ENTRYNOTFOUND"))
                    EXCEPT !.count = @ + 1, !.changed = TRUE]
      /\ suspect' = suspect \union
           {<<n, Entry(n, Rid, rel[Rid])>> : n \in {m \in IndexNos : index'[m] = index[m]}}
      /\ miscount' = (miscount \/ lost # 0)
      /\ UNCHANGED <<numTuples, xact, disk, leaked, db, committed, forgotten, done>>

(* Mutant: the entry of the old value stays. *)
ReplacedKeep(entries, old, new) == entries \union {new}

Replaced(entries, old, new) == (entries \ {old}) \union {new}

(* qUpdate::GetNext: the entry is taken out, the change logged and made, the
   new entry put in, for which a leaf without room is split. *)
UpdateTuple ==
  LET c == stmt.change
      n == SetInfo(c).indexNo
      t == [rel[Rid] EXCEPT ![SetInfo(c).offset] =
              IF c.rhsIsAttr THEN rel[Rid][Info(c.rhs, Attrs).offset] ELSE c.rhs.data]
      old == Entry(n, Rid, rel[Rid])
      new == Entry(n, Rid, t)
  IN  /\ stmt.type = "update" /\ stmt.todo # <<>>
      /\ Rid \in DOMAIN rel /\ Met(stmt.filter, rel[Rid])
      /\ IF n # -1 /\ old \notin index[n]
         THEN /\ stmt' = Stopped("ENTRYNOTFOUND")
              /\ UNCHANGED <<rel, index, undo, logged, db>>
         ELSE /\ Logged(Change(Rid, rel[Rid]))
              /\ rel' = Put(rel, Rid, t)
              /\ index' = IF n = -1 THEN index
                          ELSE [index EXCEPT ![n] = Replaced(@, old, new)]
              /\ IF n # -1 /\ new \in index[n] \ {old}
                 THEN stmt' = [Stopped("DUPLICATEENTRY") EXCEPT !.changed = TRUE] /\ db' \in {db, "torn"}
                 ELSE stmt' = [Passed EXCEPT !.changed = TRUE] /\ UNCHANGED db
      /\ UNCHANGED <<numTuples, xact, disk, leaked, committed, forgotten, suspect, miscount, done>>

(* Mutant: the count goes down by one. *)
ChangeCountOne ==
  /\ stmt.type \in {"delete", "update"} /\ stmt.todo = <<>>
  /\ numTuples' = IF stmt.type = "delete" /\ stmt.rc = "ok" THEN numTuples - 1 ELSE numTuples
  /\ stmt' = [stmt EXCEPT !.type = "changeCommit"]
  /\ disk' = IF stmt.rc = "ok" THEN [rel |-> {rel}, index |-> index] ELSE disk
  /\ UNCHANGED <<rel, index, xact, undo, logged, leaked, db, committed, forgotten, suspect,
                 miscount, done>>

(* The plan has ended, and has closed the files, or stopped: a deletion without
   error changes the count, which is forced to disk before the commit. *)
ChangeCount ==
  /\ stmt.type \in {"delete", "update"} /\ stmt.todo = <<>>
  /\ numTuples' = IF stmt.type = "delete" /\ stmt.rc = "ok" THEN numTuples - stmt.count
                  ELSE numTuples
  /\ stmt' = [stmt EXCEPT !.type = "changeCommit"]
  /\ disk' = IF stmt.rc = "ok" THEN [rel |-> {rel}, index |-> index] ELSE disk
  /\ UNCHANGED <<rel, index, xact, undo, logged, leaked, db, committed, forgotten, suspect,
                 miscount, done>>

(* The transaction commits after an error as well, and 0 is returned; the files
   of a plan that stopped stay open. *)
ChangeCommit ==
  /\ stmt.type = "changeCommit"
  /\ IF Own THEN Commit ELSE UNCHANGED <<xact, undo, committed, forgotten>>
  /\ stmt' = Idle
  /\ leaked' = IF stmt.rc # "ok" /\ stmt.changed THEN "change" ELSE leaked
  /\ done' = [type |-> "change", change |-> stmt.change, rc |-> stmt.rc, before |-> stmt.before,
              scanned |-> stmt.scanned, suspect |-> stmt.suspect]
  /\ UNCHANGED <<rel, index, numTuples, logged, disk, db, suspect, miscount>>

-------------------------------------------------------------------------------
(* Statements that are not about r: a join, whose temporary file is logged
   like any record file and then destroyed; changes of another relation s,
   and its end. *)

(* A record of another file, in the transaction if there is one. *)
LoggedElsewhere(file) ==
  IF xact = "none" THEN logged' = logged \union {file} /\ UNCHANGED undo
  ELSE Logged(Elsewhere(file))

JoinQuery ==
  /\ LoggedElsewhere("temp")
  /\ UNCHANGED files

InsertElsewhere ==
  /\ "s" \in files
  /\ LoggedElsewhere("s")
  /\ UNCHANGED files

DropElsewhere ==
  /\ "s" \in files
  /\ files' = files \ {"s"}
  /\ UNCHANGED <<undo, logged>>

-------------------------------------------------------------------------------
(* The commands (interp), and the ends of sessions.  Once a statement has left
   its files open, what a later one on r would read depends on the pages that
   the buffer has written: only the commands on transactions are modelled. *)

Running == db \in {"open", "recovered"} /\ stmt = Idle
Ready == Running /\ leaked = "no"

Statement ==
  /\ Ready /\ statements < MaxStatements /\ statements' = statements + 1
  /\ \/ /\ \/ \E ts \in Loads : Len(ts) <= Cardinality(Rids \ DOMAIN rel) /\ AddBegin(ts)
           \/ \E c \in Changes : ChangeBegin(c)
        /\ UNCHANGED files
     \/ /\ JoinQuery \/ InsertElsewhere \/ DropElsewhere
        /\ UNCHANGED <<rel, index, numTuples, xact, disk, stmt, committed, forgotten, suspect,
                       miscount, done>>
  /\ UNCHANGED <<leaked, db, rollbacks>>

Step ==
  /\ db \in {"open", "recovered"}
  /\ \/ AddRecord \/ AddFails \/ AddEntry \/ AddCommit \/ AddCount
     \/ SkipTuple \/ DeleteTuple \/ UpdateTuple \/ ChangeCount \/ ChangeCommit
  /\ UNCHANGED <<files, statements, rollbacks>>

BeginT ==
  /\ Ready /\ xact = "none" /\ statements < MaxStatements
  /\ xact' = "user"
  /\ UNCHANGED <<rel, index, numTuples, undo, logged, files, disk, leaked, db, stmt, statements,
                 rollbacks, committed, forgotten, suspect, miscount, done>>

CommitT ==
  /\ Running /\ xact # "none"
  /\ Commit
  /\ UNCHANGED <<rel, index, numTuples, logged, files, disk, leaked, db, stmt, statements,
                 rollbacks, suspect, miscount, done>>

(* What undoing does; the indexes and the count stay as they are.  Each file is
   closed again, but pages that a stopped plan has left open may be written
   later. *)
RollBack ==
  /\ rel' = Undone(rel)
  /\ undo' = SubSeq(undo, 1, Len(undo) - Len(Undoable))
  /\ disk' = [disk EXCEPT !.rel = {rel'} \union IF leaked = "no" THEN {} ELSE @ \union {rel}]
  /\ suspect' = suspect \union Touched
  /\ done' = NotDone

(* AbortT.  When the file of a record cannot be opened, the error is returned,
   with the rest not undone and the transaction still open.  Left out: aborts
   after a Load has left its file open, whose records may not be on disk. *)
AbortT ==
  /\ Running /\ leaked # "add" /\ xact # "none" /\ rollbacks < MaxRollbacks
  /\ rollbacks' = rollbacks + 1
  /\ RollBack
  /\ xact' = IF Undoable = undo THEN "none" ELSE xact
  /\ miscount' = (miscount \/ undo # <<>>)
  /\ UNCHANGED <<index, numTuples, logged, files, leaked, db, stmt, statements, committed, forgotten>>

-------------------------------------------------------------------------------
(* What the disk has when files were open.  Of the changes of an index some
   entries are there, when each page is the old one or the new one; or "torn",
   when only some pages of a leaf's splitting or disposal are. *)

(* The entries that are not in both the index and its version on disk. *)
Unwritten ==
  UNION {{n} \X ((index[n] \ disk.index[n]) \union (disk.index[n] \ index[n])) : n \in IndexNos}

IndexesOnDisk ==
  \E written \in SUBSET Unwritten :
    index' = [n \in IndexNos |->
                {e \in index[n] \union disk.index[n] :
                   IF <<n, e>> \in Unwritten \ written THEN e \in disk.index[n] ELSE e \in index[n]}]

TornOr(state) == db' \in {state} \union IF Unwritten = {} THEN {} ELSE {"torn"}

Versions == disk.rel \union {rel}
TupleAt(table, rid) == IF rid \in DOMAIN table THEN table[rid] ELSE <<>>
Unsettled == {rid \in Rids : \E table \in disk.rel : TupleAt(table, rid) # TupleAt(rel, rid)}

(* Every place of r has its tuple of some version. *)
TableOnDisk ==
  \E from \in [Unsettled -> Versions] :
    LET At(rid) == TupleAt(IF rid \in Unsettled THEN from[rid] ELSE rel, rid)
    IN  rel' = [rid \in {i \in Rids : At(i) # <<>>} |-> At(rid)]

EntriesAt(rids, tables) ==
  {<<n, Entry(n, p[1], p[2][p[1]])>> :
     n \in IndexNos, p \in {q \in rids \X tables : q[1] \in DOMAIN q[2]}}

(* The log does not have the changes of r that files were left open with. *)
Unlogged == leaked # "no" /\ "r" \notin logged

(* A crash under a log that no crash has interrupted before, which has all the
   changes of r unless a checkpoint has discarded them. *)
Crash ==
  /\ db = "open" /\ rollbacks < MaxRollbacks
  /\ rollbacks' = rollbacks + 1
  /\ TornOr("down")
  /\ IndexesOnDisk
  /\ IF Unlogged
     THEN /\ TableOnDisk
          /\ forgotten' = forgotten \union Unsettled
          /\ suspect' = suspect \union Unwritten \union EntriesAt(Unsettled, Versions)
     ELSE UNCHANGED <<rel, forgotten>> /\ suspect' = suspect \union Unwritten
  /\ disk' = [rel |-> {rel'}, index |-> index']
  /\ miscount' = (miscount \/ undo # <<>> \/ stmt # Idle)
  /\ stmt' = Idle /\ done' = NotDone /\ leaked' = "no"
  /\ UNCHANGED <<numTuples, xact, undo, logged, files, statements, committed>>

(* Recover redoes every record of the log and undoes the last transaction; a
   record without a place or a file ends it. *)
Recover ==
  /\ db = "down"
  /\ IF logged \subseteq files
     THEN /\ RollBack
          /\ xact' = "none" /\ db' = "recovered"
     ELSE /\ db' = "lost"
          /\ UNCHANGED <<rel, undo, disk, suspect, done, xact>>
  /\ UNCHANGED <<index, numTuples, logged, files, leaked, stmt, statements, rollbacks,
                 committed, forgotten, miscount>>

(* Checkpoint opens every file that has been changed; when it cannot, the log
   is closed already and nothing can be logged any more.  Pages of files that
   are still open from a stopped statement are not among those it forces. *)
Checkpoint ==
  /\ Running /\ db = "open" /\ xact = "none" /\ logged # {}
  /\ IF logged \subseteq files \union {"nowhere"} THEN logged' = {} /\ UNCHANGED db
     ELSE db' = "nolog" /\ UNCHANGED logged
  /\ UNCHANGED <<rel, index, numTuples, xact, undo, files, disk, leaked, stmt, statements, rollbacks,
                 committed, forgotten, suspect, miscount, done>>

(* The session ends and the next one begins: the log is destroyed, also with
   a transaction open, whose changes stay, as far as they are on disk. *)
Exit ==
  /\ db \in {"open", "recovered", "nolog"} /\ stmt = Idle
  /\ TornOr("open")
  /\ IndexesOnDisk /\ TableOnDisk
  /\ disk' = [rel |-> {rel'}, index |-> index']
  /\ suspect' = suspect \union Unwritten \union EntriesAt(Unsettled, Versions)
  /\ xact' = "none" /\ undo' = <<>>
  /\ IF xact = "none" THEN forgotten' = forgotten \union Unsettled /\ UNCHANGED committed
     ELSE committed' = rel' /\ forgotten' = {}
  /\ logged' = {} /\ done' = NotDone /\ leaked' = "no"
  /\ UNCHANGED <<numTuples, files, stmt, statements, rollbacks, miscount>>

Init ==
  /\ rel = <<>> /\ index = [n \in IndexNos |-> {}] /\ numTuples = 0
  /\ xact = "none" /\ undo = <<>> /\ logged = {} /\ files = {"r", "s"}
  /\ disk = [rel |-> {rel}, index |-> index] /\ leaked = "no" /\ db = "open"
  /\ stmt = Idle /\ statements = 0 /\ rollbacks = 0
  /\ committed = <<>> /\ forgotten = {} /\ suspect = {} /\ miscount = FALSE /\ done = NotDone

Next == \/ Statement \/ Step \/ BeginT \/ CommitT \/ AbortT
        \/ Crash \/ Recover \/ Checkpoint \/ Exit

Spec == Init /\ [][Next]_vars

-------------------------------------------------------------------------------
(* Properties. *)

(* What a change is to make of a relation. *)
Meaning(c, table) ==
  LET hit == {rid \in DOMAIN table : Met(c.conds, table[rid])}
      Set(t) == [t EXCEPT ![SetInfo(c).offset] =
                   IF c.rhsIsAttr THEN t[Info(c.rhs, Attrs).offset] ELSE c.rhs.data]
  IN  IF c.type = "delete" THEN [rid \in DOMAIN table \ hit |-> table[rid]]
      ELSE [rid \in DOMAIN table |-> IF rid \in hit THEN Set(table[rid]) ELSE table[rid]]

(* A deletion or update whose plan ran to its end has changed exactly the
   tuples that meet all its conditions, each once, unless it scanned an index
   with entries suspect from earlier statements; plans stop and entries are
   refused only with such entries, or on an index scan with NE or of an index
   without entries, and then nothing is changed.  ChangePlan, qDelete and
   qUpdate, whose changes go to the indexes and the relation they scan. *)
StatementExact ==
  stmt = Idle =>
    /\ done.type = "change" /\ done.rc = "ok" =>
         \/ rel = Meaning(done.change, done.before)
         \/ \E u \in done.suspect : u[1] = done.scanned
    /\ done.type = "change" /\ done.rc # "ok" =>
         \/ done.suspect # {}
         \/ /\ rel = done.before
            /\ \E c \in ToSet(done.change.conds) :
                 ~c.rhsIsAttr /\ Info(c.lhs, Attrs).indexNo # -1 /\ (c.op = "NE" \/ rel = <<>>)
    /\ done.type = "add" /\ done.rc = "DUPLICATEENTRY" => done.suspect # {}

(* Between statements every index has exactly the entries of the tuples of the
   relation, up to entries of changes that were undone (undoing does not reach
   the indexes), that stopped with an error, or that a crash or the end of the
   session may have kept in part. *)
IndexesExceptSuspect ==
  Ready => \A n \in IndexNos : \A e \in index[n] \union EntriesOf(n, rel) :
    e \in index[n] \intersect EntriesOf(n, rel) \/ <<n, e>> \in suspect

(* Between statements the count of the catalog is the number of tuples, until
   a rollback, a crash or an error separates them for good. *)
CountExact == Ready /\ ~miscount => numTuples = Cardinality(DOMAIN rel)

(* When no transaction is open between statements, the relation is as the last
   commit left it: every change since has been undone, by AbortT or Recover,
   and every change before it is there, but at places that a stopped statement
   had left in open files. *)
RolledBack ==
  Ready /\ xact = "none" =>
    \A rid \in Rids \ forgotten : TupleAt(rel, rid) = TupleAt(committed, rid)

(* The proposal: "AbortT() rolls back the current transaction and causes all
   the updates made by the transaction to be discarded."  It does not hold. *)
AbortDiscards == [][AbortT => rel' = committed]_vars

(* lg_manager.cc:294: "Resets the log after writing all dirty record pages to
   disk".  A checkpoint discards the log only when the disk alone has the
   relation, whatever statements and transactions came before it, unless a
   statement that stopped has left its pages in files that Checkpoint opens
   anew. *)
CheckpointWrites ==
  [][Checkpoint /\ logged' = {} => disk.rel = {rel} \/ leaked # "no"]_vars
===============================================================================
