-------------------------------- MODULE Catalog --------------------------------
(***************************************************************************)
(* The catalogs of a database and the statements that change them          *)
(* (SM_Manager: CreateTable, DropTable, CreateIndex, DropIndex, OpenDb,    *)
(* CloseDb).                                                               *)
(*                                                                         *)
(* relcat and attrcat are record files with an index each on relName; none *)
(* of the four is logged.  A statement changes them in memory, forces      *)
(* their pages to disk one file after the other, and creates or destroys   *)
(* the files of relations and indexes in between, so that a crash or an    *)
(* error leaves some of it done.  The header of a record file, with the    *)
(* start of its list of pages with room, stays in the handle until the     *)
(* file is closed: ForcePages does not write it.  Pages go to disk one by  *)
(* one, those of a force and those the buffer evicts at any time.          *)
(*                                                                         *)
(* The nodes of the catalogs' indexes are not modelled (Index has them): a *)
(* crash that finds changed pages of an index not yet on disk may find the *)
(* tree torn, a leaf that has been split written and its new leaf not,     *)
(* and a duplicate may be refused after a split.  The model ends there.    *)
(*                                                                         *)
(* Left out: the catalogs' own descriptions, types and lengths and what is *)
(* checked of them, numTuples (Statements has it), and what is in          *)
(* relations and their indexes.                                            *)
(***************************************************************************)
EXTENDS SequencesExt

CONSTANTS
  Names,          \* names of relations
  LogFile,        \* the one of them that is also LOGFILENAME
  Declarations,   \* the attributes in CREATE TABLE statements: sequences of names
  PerPage,        \* records on a page of a catalog
  NoRecord,       \* an empty slot
  MaxStatements,  \* bound: statements
  MaxCrashes      \* bound: crashes

Attributes == UNION {ToSet(d) : d \in Declarations}

(* The records of relcat and of attrcat. *)
RelRecord  == [rel : Names, attrCount : Nat, indexCount : Nat]
AttrRecord == [rel : Names, attr : Attributes, offset : Nat, indexNo : Nat \union {-1}]

ASSUME CatalogConstants ==
  /\ PerPage \in Nat \ {0} /\ MaxStatements \in Nat /\ MaxCrashes \in Nat
  /\ \A d \in Declarations : d \in Seq(Attributes) /\ IsInjective(d)
  /\ NoRecord \notin RelRecord \union AttrRecord

INSTANCE RecordPage WITH RecordsPerPage <- PerPage, Val <- {}, Empty <- NoRecord

VARIABLES
  mem,       \* the four files as the handles and the buffer have them
  disk,      \* the same on disk
  files,     \* the files of relations and indexes, and the log
  dirty,     \* the indexes changed since they were last forced or opened
  db,        \* "open", or why the model ends: "corrupt" after an insertion on a
             \* page without room or never written, "lost" when recovery has
             \* read a relation as the log, "torn" when an index may be
  stmt,      \* the statement being executed: what it still has to do
  statements, crashes,
  declared,  \* history: the attributes of each relation, as declared
  indexed,   \* history: the attributes that have an index
  broken,    \* history: the relations of interrupted statements, and those
             \* whose records statements on such relations have reached
  failed,    \* history: relations not broken before a statement on them failed
  dropped,   \* history: a DROP TABLE has begun
  headers    \* history: those of relcat and attrcat are "saved", have "moved"
             \* in memory, or a crash came when they had: "stale"

vars == <<mem, disk, files, dirty, db, stmt, statements, crashes, declared, indexed,
          broken, failed, dropped, headers>>

RecordFiles == {"relcat", "attrcat"}
IndexOf == [relcat |-> "relIndex", attrcat |-> "attrIndex"]
Idle == [todo |-> <<>>]

-------------------------------------------------------------------------------
(* A catalog: its pages and, in the header, the first page with room.  An
   index: its entries (name, record). *)

BlankPage == [num |-> 0, next |-> ListEnd, rec |-> [s \in Slots |-> NoRecord]]

(* A page of the file that was never written: the zeros of a hole. *)
Hole == [BlankPage EXCEPT !.next = 0]

(* The file that InsertRec finds, or makes, to have a page for a record. *)
WithPage(f) ==
  IF f.header # ListEnd THEN f
  ELSE [data |-> Append(f.data, BlankPage), header |-> Len(f.data) + 1]

Target(f) == WithPage(f).data[WithPage(f).header]

RidOf(p, s) == p * PerPage + s
PageOf(rid) == rid \div PerPage
SlotOf(rid) == rid % PerPage

NewRid(f) == RidOf(WithPage(f).header, FindAvailableSlot(Target(f)))

InsertRec(f, rec) ==
  LET p == WithPage(f).header
  IN  [data |-> [WithPage(f).data EXCEPT ![p] = InsertInto(@, FindAvailableSlot(@), rec)],
       header |-> FirstFreeAfterInsert(Target(f), p)]

DeleteRec(f, rid) ==
  LET p == PageOf(rid)
  IN  [data |-> [f.data EXCEPT ![p] = DeleteFrom(@, SlotOf(rid), f.header)],
       header |-> FirstFreeAfterDelete(f.data[p], p, f.header)]

UpdateRec(f, rid, rec) == [f EXCEPT !.data[PageOf(rid)] = PutAt(@, SlotOf(rid), rec)]

IsRec(c, rid) == PageOf(rid) \in DOMAIN mem[c].data /\ mem[c].data[PageOf(rid)].rec[SlotOf(rid)] # NoRecord
Rec(c, rid) == mem[c].data[PageOf(rid)].rec[SlotOf(rid)]

(* The numbers of a set from the least to the greatest. *)
InOrder(S) ==
  [i \in 1..Cardinality(S) |-> CHOOSE x \in S : Cardinality({y \in S : y < x}) = i - 1]

(* The records that a catalog's index has for a relation, in scan order. *)
Lookup(c, rel) == InOrder({e[2] : e \in {x \in mem[IndexOf[c]].data : x[1] = rel}})

(* FindRelMetadata and FindAttrMetadata: the record, or -1 when there is none
   or a record on the way does not exist. *)
FindRelMetadata(rel) ==
  LET rids == Lookup("relcat", rel)
  IN  IF rids = <<>> \/ ~IsRec("relcat", rids[1]) THEN -1 ELSE rids[1]

FindAttrMetadata(rel, attr) ==
  LET rids == Lookup("attrcat", rel)
      hit  == SelectInSeq(rids, LAMBDA rid : ~IsRec("attrcat", rid) \/ Rec("attrcat", rid).attr = attr)
  IN  IF hit = 0 \/ ~IsRec("attrcat", rids[hit]) THEN -1 ELSE rids[hit]

-------------------------------------------------------------------------------
(* What statements are made of. *)

Forced(fs) == [i \in DOMAIN fs |-> [do |-> "force", file |-> fs[i]]]
CreateFile(f) == <<[do |-> "create", file |-> f]>>
DestroyFile(f) == <<[do |-> "destroy", file |-> f]>>
Update(c, rid, rec) == <<[do |-> "update", file |-> c, rid |-> rid, rec |-> rec]>>

Doing(what) == db = "open" /\ stmt.todo # <<>> /\ Head(stmt.todo).do = what
Now == Head(stmt.todo)
Continue == stmt' = [stmt EXCEPT !.todo = Tail(@)]

(* The statement returns an error: what it has done stays. *)
Fail ==
  /\ stmt' = Idle
  /\ broken' = broken \union {stmt.rel}
  /\ failed' = failed \union ({stmt.rel} \ broken)

(* The statement goes on, having changed a record that rel owns. *)
Reached(rel) == Continue /\ broken' = broken \union ({rel} \ {stmt.rel}) /\ UNCHANGED failed

(* On a page without room the record is written outside the slots; a page that
   was never written cannot be read.  A full leaf of the index has been split
   when the entry turns out to be a duplicate. *)
InsertRecord ==
  /\ Doing("insert")
  /\ LET c == Now.file
         f == mem[c]
         e == <<stmt.rel, NewRid(f)>>
     IN  IF ~HasRoom(Target(f)) \/ Target(f) = Hole
         THEN db' = "corrupt" /\ UNCHANGED <<mem, stmt, dirty, broken, failed>>
         ELSE IF e \in mem[IndexOf[c]].data
         THEN /\ Fail /\ db' \in {"open", "torn"}
              /\ mem' = [mem EXCEPT ![c] = InsertRec(f, Now.rec)]
              /\ UNCHANGED dirty
         ELSE /\ Reached(stmt.rel)
              /\ mem' = [mem EXCEPT ![c] = InsertRec(f, Now.rec), ![IndexOf[c]].data = @ \union {e}]
              /\ dirty' = dirty \union {IndexOf[c]}
              /\ UNCHANGED db
  /\ UNCHANGED <<disk, files>>

DeleteRecord(c, rid) ==
  /\ mem' = [mem EXCEPT ![c] = DeleteRec(@, rid), ![IndexOf[c]].data = @ \ {<<stmt.rel, rid>>}]
  /\ dirty' = dirty \union {IndexOf[c]}
  /\ Reached(Rec(c, rid).rel)

DropRelation ==
  /\ Doing("dropRel")
  /\ DeleteRecord("relcat", Now.rid)
  /\ UNCHANGED <<disk, files, db>>

(* One turn of DropTable's loop, with the attribute's index. *)
DropAttribute ==
  /\ Doing("dropAttr")
  /\ IF ~IsRec("attrcat", Now.rid) THEN Fail /\ UNCHANGED <<mem, files, dirty>>
     ELSE LET n == Rec("attrcat", Now.rid).indexNo
          IN  IF n # -1 /\ <<stmt.rel, n>> \notin files THEN Fail /\ UNCHANGED <<mem, files, dirty>>
              ELSE DeleteRecord("attrcat", Now.rid) /\ files' = files \ {<<stmt.rel, n>>}
  /\ UNCHANGED <<disk, db>>

UpdateRecord ==
  /\ Doing("update")
  /\ mem' = [mem EXCEPT ![Now.file] = UpdateRec(@, Now.rid, Now.rec)]
  /\ Reached(Now.rec.rel)
  /\ UNCHANGED <<disk, files, dirty, db>>

(* The relation's file is opened to fill a new index. *)
OpenRelation ==
  /\ Doing("open")
  /\ IF <<stmt.rel>> \in files THEN Reached(stmt.rel) ELSE Fail
  /\ UNCHANGED <<mem, disk, files, dirty, db>>

CreateOrDestroyFile ==
  /\ Doing("create") \/ Doing("destroy")
  /\ IF (Now.file \in files) = (Now.do = "create") THEN Fail /\ UNCHANGED files
     ELSE /\ Reached(stmt.rel)
          /\ files' = IF Now.do = "create" THEN files \union {Now.file} ELSE files \ {Now.file}
  /\ UNCHANGED <<mem, disk, dirty, db>>

(* The end of ForcePages: all pages are on disk.  The header of a record file
   is not on a page. *)
ForcePages ==
  /\ Doing("force")
  /\ disk' = [disk EXCEPT ![Now.file].data = mem[Now.file].data]
  /\ dirty' = dirty \ {Now.file}
  /\ Continue
  /\ UNCHANGED <<mem, files, db, broken, failed>>

Step ==
  /\ \/ InsertRecord \/ DropRelation \/ DropAttribute \/ UpdateRecord
     \/ OpenRelation \/ CreateOrDestroyFile \/ ForcePages
  /\ headers' = IF headers = "saved" /\ \E c \in RecordFiles : mem'[c].header # mem[c].header
                THEN "moved" ELSE headers
  /\ UNCHANGED <<statements, crashes, declared, indexed, dropped>>

(* The end of a statement that went well. *)
Finish ==
  /\ db = "open" /\ stmt # Idle /\ stmt.todo = <<>>
  /\ stmt' = Idle
  /\ declared' = IF stmt.type = "createTable" THEN [r \in DOMAIN declared \union {stmt.rel} |->
                                                      IF r = stmt.rel THEN stmt.attrs ELSE declared[r]]
                 ELSE IF stmt.type = "dropTable" THEN [r \in DOMAIN declared \ {stmt.rel} |-> declared[r]]
                 ELSE declared
  /\ indexed' = IF stmt.type = "createIndex" THEN indexed \union {<<stmt.rel, stmt.attr>>}
                ELSE IF stmt.type = "dropIndex" THEN indexed \ {<<stmt.rel, stmt.attr>>}
                ELSE IF stmt.type = "dropTable" THEN {x \in indexed : x[1] # stmt.rel}
                ELSE indexed
  /\ UNCHANGED <<mem, disk, files, dirty, db, statements, crashes, broken, failed, dropped, headers>>

-------------------------------------------------------------------------------
(* The statements begin, unless their checks return an error. *)

Ready == db = "open" /\ stmt = Idle

(* Mutant: the index of attrcat is not flushed. *)
FlushedWithoutAttrIndex == Forced(<<"relcat", "attrcat", "relIndex">>)

Flushed == Forced(<<"relcat", "attrcat", "relIndex", "attrIndex">>)

CreateTable(rel, attrs) ==
  /\ FindRelMetadata(rel) = -1
  /\ stmt' = [type |-> "createTable", rel |-> rel, attrs |-> attrs,
       todo |->
         [i \in DOMAIN attrs |->
            [do |-> "insert", file |-> "attrcat",
             rec |-> [rel |-> rel, attr |-> attrs[i], offset |-> i, indexNo |-> -1]]]
         \o <<[do |-> "insert", file |-> "relcat",
               rec |-> [rel |-> rel, attrCount |-> Len(attrs), indexCount |-> 0]]>>
         \o Flushed
         \o CreateFile(<<rel>>)]
  /\ UNCHANGED dropped

DropTable(rel) ==
  LET rids == Lookup("attrcat", rel)
  IN  /\ FindRelMetadata(rel) # -1
      /\ stmt' = [type |-> "dropTable", rel |-> rel,
           todo |->
             <<[do |-> "dropRel", rid |-> FindRelMetadata(rel)]>>
             \o DestroyFile(<<rel>>)
             \o [i \in DOMAIN rids |-> [do |-> "dropAttr", rid |-> rids[i]]]
             \o Flushed]
      /\ dropped' = TRUE

(* Mutant: the number is not counted. *)
NumberedSame(relRec) == relRec

(* indexCount++ *)
Numbered(relRec) == [relRec EXCEPT !.indexCount = @ + 1]

CreateIndex(rel, attr) ==
  LET r == FindRelMetadata(rel)
      a == FindAttrMetadata(rel, attr)
      n == Rec("relcat", r).indexCount
  IN  /\ r # -1 /\ a # -1
      /\ Rec("attrcat", a).indexNo = -1
      /\ stmt' = [type |-> "createIndex", rel |-> rel, attr |-> attr,
           todo |->
             CreateFile(<<rel, n>>)
             \o <<[do |-> "open"]>>
             \o Update("relcat", r, Numbered(Rec("relcat", r)))
             \o Update("attrcat", a, [Rec("attrcat", a) EXCEPT !.indexNo = n])
             \o Forced(<<"relcat", "attrcat">>)]
      /\ UNCHANGED dropped

DropIndex(rel, attr) ==
  LET a == FindAttrMetadata(rel, attr)
  IN  /\ a # -1
      /\ Rec("attrcat", a).indexNo # -1
      /\ stmt' = [type |-> "dropIndex", rel |-> rel, attr |-> attr,
           todo |->
             DestroyFile(<<rel, Rec("attrcat", a).indexNo>>)
             \o Update("attrcat", a, [Rec("attrcat", a) EXCEPT !.indexNo = -1])
             \o Forced(<<"attrcat">>)]
      /\ UNCHANGED dropped

Statement ==
  /\ Ready /\ statements < MaxStatements /\ statements' = statements + 1
  /\ \E rel \in Names :
       \/ \E d \in Declarations : CreateTable(rel, d)
       \/ DropTable(rel)
       \/ \E attr \in Attributes : CreateIndex(rel, attr) \/ DropIndex(rel, attr)
  /\ UNCHANGED <<mem, disk, files, dirty, db, crashes, declared, indexed, broken, failed, headers>>

-------------------------------------------------------------------------------
(* Writes and sessions. *)

(* A page of a catalog is written, in a force or because the buffer needs its
   frame, and with it or before it the number of pages, which is in the header
   of the paged file: pages of the new number not yet written are holes. *)
WritePage(c) ==
  \E p \in 0..Len(mem[c].data) :
    disk' = [disk EXCEPT ![c].data = [q \in DOMAIN mem[c].data |->
               IF q = p THEN mem[c].data[q] ELSE IF q \in DOMAIN @ THEN @[q] ELSE Hole]]

(* Of an index, what the page has of one entry. *)
WriteEntry(f) ==
  \/ \E e \in mem[f].data \ disk[f].data : disk' = [disk EXCEPT ![f].data = @ \union {e}]
  \/ \E e \in disk[f].data \ mem[f].data : disk' = [disk EXCEPT ![f].data = @ \ {e}]

Write ==
  /\ db = "open" /\ (crashes < MaxCrashes \/ <<LogFile>> \notin files)
  /\ \E c \in RecordFiles : WritePage(c) \/ WriteEntry(IndexOf[c])
  /\ UNCHANGED <<mem, files, dirty, db, stmt, statements, crashes, declared, indexed,
                 broken, failed, dropped, headers>>

(* The files are opened anew: fs is what is on disk. *)
Reopen(fs) == mem' = fs /\ disk' = fs /\ dirty' = {}

(* They had not been closed: changed pages of an index in lost are not on disk. *)
Unclosed(lost) == db' \in IF lost = {} THEN {"open"} ELSE {"open", "torn"}

(* A relation with the name of the log, made when the log was gone. *)
LogIsTable ==
  \/ LogFile \in DOMAIN declared
  \/ stmt # Idle /\ stmt.rel = LogFile /\ stmt.type = "createTable" /\ stmt.todo = <<>>

(* Recovery reads whatever has the name of the log. *)
Crash ==
  /\ db = "open" /\ crashes < MaxCrashes
  /\ crashes' = crashes + 1
  /\ Reopen(disk)
  /\ headers' = IF headers = "moved" THEN "stale" ELSE headers
  /\ IF LogIsTable THEN db' = "lost" ELSE Unclosed(dirty)
  /\ stmt' = Idle
  /\ broken' = IF stmt = Idle THEN broken ELSE broken \union {stmt.rel}
  /\ files' = files \union {<<LogFile>>}
  /\ UNCHANGED <<statements, declared, indexed, failed, dropped>>

(* The order in which CloseDb closes the catalogs. *)
Closing == <<"relcat", "attrcat", "relIndex", "attrIndex">>

(* What is on disk when the first n have been closed. *)
Closed(n) == [f \in DOMAIN mem |-> IF \E i \in 1..n : Closing[i] = f THEN mem[f] ELSE disk[f]]

(* CloseDb, as far as it comes before the process ends, and OpenDb.  When the
   log cannot be destroyed no catalog is closed. *)
Exit ==
  /\ Ready
  /\ \E n \in 0..4 :
       /\ IF <<LogFile>> \in files
          THEN n = 4 \/ crashes < MaxCrashes
          ELSE n = 0
       /\ crashes' = IF n < 4 /\ <<LogFile>> \in files THEN crashes + 1 ELSE crashes
       /\ Reopen(Closed(n))
       /\ headers' = IF headers # "moved" THEN headers ELSE IF n < 2 THEN "stale" ELSE "saved"
       /\ Unclosed(dirty \ {Closing[i] : i \in 1..n})
  /\ files' = files \union {<<LogFile>>}
  /\ UNCHANGED <<stmt, statements, declared, indexed, broken, failed, dropped>>

Init ==
  /\ mem = [f \in RecordFiles \union {"relIndex", "attrIndex"} |->
              [data |-> IF f \in RecordFiles THEN <<>> ELSE {}, header |-> ListEnd]]
  /\ disk = mem
  /\ files = {<<LogFile>>} /\ dirty = {} /\ db = "open" /\ stmt = Idle
  /\ statements = 0 /\ crashes = 0
  /\ declared = <<>> /\ indexed = {} /\ broken = {} /\ failed = {}
  /\ dropped = FALSE /\ headers = "saved"

Next == Statement \/ Step \/ Finish \/ Write \/ Crash \/ Exit

Spec == Init /\ [][Next]_vars

-------------------------------------------------------------------------------
(* Properties. *)

RidsWith(c, rel) ==
  {rid \in UNION {{RidOf(p, s) : s \in Slots} : p \in DOMAIN mem[c].data} : IsRec(c, rid) /\ Rec(c, rid).rel = rel}

FilesOf(rel) == {f \in files : f[1] = rel} \ {<<LogFile>>}

(* Records, index entries and files of a relation agree with each other and
   with what has been declared.  As long as no relation has been dropped,
   FillDataAttributes finds the attributes in the order of the declaration,
   which is the one in which Insert and Load take values. *)
Intact(rel) ==
  /\ \A c \in RecordFiles : ToSet(Lookup(c, rel)) = RidsWith(c, rel)
  /\ IF rel \notin DOMAIN declared
     THEN RidsWith("relcat", rel) = {} /\ RidsWith("attrcat", rel) = {} /\ FilesOf(rel) = {}
     ELSE LET attrs == {Rec("attrcat", rid) : rid \in RidsWith("attrcat", rel)}
              withIndex == {a \in attrs : a.indexNo # -1}
          IN  /\ Cardinality(RidsWith("relcat", rel)) = 1
              /\ \A rid \in RidsWith("relcat", rel) :
                   /\ Rec("relcat", rid).attrCount = Len(declared[rel])
                   /\ \A a \in withIndex : a.indexNo < Rec("relcat", rid).indexCount
              /\ Cardinality(RidsWith("attrcat", rel)) = Len(declared[rel])
              /\ {<<a.offset, a.attr>> : a \in attrs} = {<<i, declared[rel][i]>> : i \in DOMAIN declared[rel]}
              /\ dropped \/ \A i \in DOMAIN declared[rel] :
                   Rec("attrcat", Lookup("attrcat", rel)[i]).attr = declared[rel][i]
              /\ {a.attr : a \in withIndex} = {x[2] : x \in {y \in indexed : y[1] = rel}}
              /\ FilesOf(rel) = {<<rel>>} \union {<<rel, a.indexNo>> : a \in withIndex}
              /\ Cardinality({a.indexNo : a \in withIndex}) = Cardinality(withIndex)

(* Between statements, a relation is intact unless a statement on it was
   interrupted by a crash or an error, or one on such a relation has reached
   its records: what a finished statement has done survives a crash, also one
   in the middle of a force or of CloseDb, and an interrupted one harms no
   other relation by itself.  It says nothing once the tree of an index may be
   torn. *)
TablesIntact == Ready => \A rel \in Names \ broken : Intact(rel)

(* Statements that pass their checks fail only on such relations, and on one
   with the name of the log, which any statement on it may; and a record meets
   a page without room, or one never written, only when a crash or an exit
   without a log has brought back an old header. *)
FailsOnlyWhenBroken ==
  /\ failed \subseteq {LogFile}
  /\ db = "corrupt" => headers = "stale"
===============================================================================
