------------------------------ MODULE RecordFile ------------------------------
(***************************************************************************)
(* A record file driven through one RM_FileHandle and one RM_FileScan      *)
(* (rm_filehandle.cc, rm_filescan.cc, rm_manager.cc): insertion through    *)
(* the free list, deletion, update, a scan interleaved with the three, and *)
(* closing and reopening the file.  This is the file the system catalogs   *)
(* relcat and attrcat are, whose changes are not logged, and a relation    *)
(* between crashes and rollbacks; LogRecovery adds those.                  *)
(*                                                                         *)
(* Simplifications: buffering is invisible at this level (BufferPool);     *)
(* argument checks that change no state are left out; a record is deleted  *)
(* or updated through an identifier a scan or an index gave out, so it     *)
(* exists, which is how every caller in sm_manager.cc and ql_node.cc does. *)
(***************************************************************************)
EXTENDS RecordPage, FiniteSets

CONSTANT MaxPages   (* bound on the data pages a file grows to *)

ASSUME MaxPagesAssumption == MaxPages \in Nat

VARIABLES
  valid,        (* the handle is open (valid_)                             *)
  firstFree,    (* hdr_.firstFree, the handle's copy                       *)
  hdrModified,  (* hdrModified_                                            *)
  savedFirst,   (* firstFree in the file's header page                     *)
  numPages,     (* data pages of the file, numbered from 1                 *)
  page,         (* their contents                                          *)
  scan,         (* the RM_FileScan: its position, numPages and condition   *)
  owed          (* history: records that have satisfied the condition      *)
                (* since OpenScan and that GetNextRec has not returned     *)

fileVars == <<valid, firstFree, hdrModified, savedFirst, numPages, page>>
scanVars == <<scan, owed>>
vars == <<valid, firstFree, hdrModified, savedFirst, numPages, page,
          scan, owed>>

DataPages == 1 .. numPages
Rid == (1 .. MaxPages) \X Slots
PageRec == [num : Int, next : Int, rec : [Slots -> Val \cup {Empty}]]

(* A page the file has just been extended by. *)
BlankPage == [num |-> 0, next |-> ListEnd, rec |-> [s \in Slots |-> Empty]]

Contents == [r \in Rid |-> IF r[1] \in DataPages THEN page[r[1]].rec[r[2]]
                                                 ELSE Empty]
Records == {r \in Rid : Contents[r] # Empty}

NoScan == [on |-> FALSE, done |-> TRUE, page |-> 0, slot |-> 0, np |-> 0,
           match |-> {}]

Init ==
  /\ valid = TRUE
  /\ firstFree = ListEnd
  /\ hdrModified = FALSE
  /\ savedFirst = ListEnd
  /\ numPages = 0
  /\ page = [p \in {} |-> BlankPage]
  /\ scan = NoScan
  /\ owed = {}

-------------------------------------------------------------------------------
(* Mutant: the pages the file had are lost. *)
InsertInNewPageOnly(v) ==
  LET p  == numPages + 1
      pg == InsertInto(BlankPage, 0, v)
  IN /\ valid
     /\ firstFree = ListEnd
     /\ numPages < MaxPages
     /\ numPages' = p
     /\ page' = [q \in 1 .. p |-> IF q = p THEN pg ELSE BlankPage]
     /\ firstFree' = FirstFreeAfterInsert(BlankPage, p)
     /\ hdrModified' = TRUE
     /\ UNCHANGED <<valid, savedFirst>>
     /\ UNCHANGED scanVars

(* InsertRec when no page has room: the file is extended by a page, which  *)
(* becomes the free list and takes the record in its first slot.           *)
InsertInNewPage(v) ==
  LET p  == numPages + 1
      pg == InsertInto(BlankPage, 0, v)
  IN /\ valid
     /\ firstFree = ListEnd
     /\ numPages < MaxPages
     /\ numPages' = p
     /\ page' = [q \in 1 .. p |-> IF q = p THEN pg ELSE page[q]]
     /\ firstFree' = FirstFreeAfterInsert(BlankPage, p)
     /\ hdrModified' = TRUE
     /\ UNCHANGED <<valid, savedFirst>>
     /\ UNCHANGED scanVars

(* Mutant: the handle does not note that the free list changed. *)
InsertInFreePageUnnoted(v) ==
  LET pg == page[firstFree]
      s  == FindAvailableSlot(pg)
  IN /\ valid
     /\ firstFree # ListEnd
     /\ HasRoom(pg)
     /\ page' = [page EXCEPT ![firstFree] = InsertInto(pg, s, v)]
     /\ firstFree' = FirstFreeAfterInsert(pg, firstFree)
     /\ UNCHANGED <<valid, savedFirst, numPages, hdrModified>>
     /\ UNCHANGED scanVars

(* InsertRec into the first page of the free list. *)
InsertInFreePage(v) ==
  LET pg == page[firstFree]
      s  == FindAvailableSlot(pg)
  IN /\ valid
     /\ firstFree # ListEnd
     /\ HasRoom(pg)
     /\ page' = [page EXCEPT ![firstFree] = InsertInto(pg, s, v)]
     /\ firstFree' = FirstFreeAfterInsert(pg, firstFree)
     /\ hdrModified' = (hdrModified \/ pg.num + 1 = RecordsPerPage)
     /\ UNCHANGED <<valid, savedFirst, numPages>>
     /\ UNCHANGED scanVars

InsertRec(v) == InsertInNewPage(v) \/ InsertInFreePage(v)

DeleteRec(r) ==
  LET p == r[1]
  IN /\ valid
     /\ r \in Records
     /\ page' = [page EXCEPT ![p] = DeleteFrom(@, r[2], firstFree)]
     /\ firstFree' = FirstFreeAfterDelete(page[p], p, firstFree)
     /\ hdrModified' = (hdrModified \/ page[p].num = RecordsPerPage)
     /\ owed' = owed \ {r}
     /\ UNCHANGED <<valid, savedFirst, numPages, scan>>

UpdateRec(r, v) ==
  /\ valid
  /\ r \in Records
  /\ page' = [page EXCEPT ![r[1]] = PutAt(@, r[2], v)]
  /\ owed' = IF v \in scan.match THEN owed ELSE owed \ {r}
  /\ UNCHANGED <<valid, firstFree, hdrModified, savedFirst, numPages, scan>>

-------------------------------------------------------------------------------
(* Mutant: the scan skips the page next to the one it leaves. *)
PagesAfterNext(p, np) ==
  {q \in DataPages : q > p + 1 /\ q <= np /\ page[q].num > 0}

(* FetchNextPage: the pages after p that the scan still visits, those it   *)
(* knows of and whose header counts a record.                              *)
PagesAfter(p, np) == {q \in DataPages : q > p /\ q <= np /\ page[q].num > 0}

Least(S) == CHOOSE x \in S : \A y \in S : x <= y

(* OpenScan copies the handle, numPages with it, and fetches a first page. *)
OpenScan(match) ==
  LET next == PagesAfter(0, numPages)
  IN /\ valid
     /\ ~scan.on
     /\ scan' = [on |-> TRUE, done |-> next = {}, slot |-> 0, np |-> numPages,
                 page |-> IF next = {} THEN 0 ELSE Least(next),
                 match |-> match]
     /\ owed' = {r \in Records : Contents[r] \in match}
     /\ UNCHANGED fileVars

(* The records GetNextRec can still come to, in page and slot order. *)
Ahead ==
  {r \in Records :
     /\ Contents[r] \in scan.match
     /\ \/ r[1] = scan.page /\ r[2] >= scan.slot
        \/ r[1] \in PagesAfter(scan.page, scan.np)}

Precedes(r, q) == r[1] < q[1] \/ (r[1] = q[1] /\ r[2] <= q[2])

(* Mutants: the scan comes back to the slot it returned, or passes over    *)
(* the one behind it.                                                      *)
GetNextRecStays ==
  /\ scan.on
  /\ ~scan.done
  /\ \/ \E r \in Ahead :
          /\ \A q \in Ahead : Precedes(r, q)
          /\ scan' = [scan EXCEPT !.page = r[1], !.slot = r[2]]
          /\ owed' = owed \ {r}
     \/ /\ Ahead = {}
        /\ scan' = [scan EXCEPT !.done = TRUE]
        /\ owed' = owed
  /\ UNCHANGED fileVars

GetNextRecSkips ==
  /\ scan.on
  /\ ~scan.done
  /\ \/ \E r \in Ahead :
          /\ \A q \in Ahead : Precedes(r, q)
          /\ scan' = [scan EXCEPT !.page = r[1], !.slot = r[2] + 2]
          /\ owed' = owed \ {r}
     \/ /\ Ahead = {}
        /\ scan' = [scan EXCEPT !.done = TRUE]
        /\ owed' = owed
  /\ UNCHANGED fileVars

(* GetNextRec: the next record that satisfies the condition, or the end of *)
(* the scan, which stays the answer of every later call.                   *)
GetNextRec ==
  /\ scan.on
  /\ ~scan.done
  /\ \/ \E r \in Ahead :
          /\ \A q \in Ahead : Precedes(r, q)
          /\ scan' = [scan EXCEPT !.page = r[1], !.slot = r[2] + 1]
          /\ owed' = owed \ {r}
     \/ /\ Ahead = {}
        /\ scan' = [scan EXCEPT !.done = TRUE]
        /\ owed' = owed
  /\ UNCHANGED fileVars

CloseScan ==
  /\ scan.on
  /\ scan' = NoScan
  /\ owed' = {}
  /\ UNCHANGED fileVars

-------------------------------------------------------------------------------
(* RM_Manager::CloseFile: the header is copied back only if the handle     *)
(* noted a change.  The callers close their scans first (a scan left open  *)
(* pins a page and PF_Manager::CloseFile then refuses).                    *)
CloseFile ==
  /\ valid
  /\ ~scan.on
  /\ savedFirst' = IF hdrModified THEN firstFree ELSE savedFirst
  /\ valid' = FALSE
  /\ hdrModified' = FALSE
  /\ UNCHANGED <<firstFree, numPages, page>>
  /\ UNCHANGED scanVars

(* RM_Manager::OpenFile: the handle's header is read from the file. *)
OpenFile ==
  /\ ~valid
  /\ firstFree' = savedFirst
  /\ valid' = TRUE
  /\ hdrModified' = FALSE
  /\ UNCHANGED <<savedFirst, numPages, page>>
  /\ UNCHANGED scanVars

Next ==
  \/ \E v \in Val : InsertRec(v)
  \/ \E r \in Records : DeleteRec(r)
  \/ \E r \in Records, v \in Val : UpdateRec(r, v)
  \/ \E m \in {Val} \cup {{v} : v \in Val} : OpenScan(m)
  \/ GetNextRec
  \/ CloseScan
  \/ CloseFile
  \/ OpenFile

Spec == Init /\ [][Next]_vars

(* A caller that opened a scan keeps asking for records until the end. *)
FairSpec == Spec /\ WF_vars(GetNextRec)

-------------------------------------------------------------------------------
(* Every variable has its type. *)
TypeOK ==
  /\ valid \in BOOLEAN
  /\ hdrModified \in BOOLEAN
  /\ numPages \in 0 .. MaxPages
  /\ page \in [DataPages -> PageRec]
  /\ firstFree \in Int
  /\ savedFirst \in Int
  /\ scan \in [on : BOOLEAN, done : BOOLEAN, page : 0 .. MaxPages,
               slot : 0 .. RecordsPerPage, np : 0 .. MaxPages,
               match : SUBSET Val]
  /\ owed \subseteq Rid

(* numRecords of a page header is the number of bits set in its bitmap,    *)
(* which the scan relies on to skip a page.                                *)
NumRecordsExact ==
  \A p \in DataPages :
    page[p].num = Cardinality({s \in Slots : page[p].rec[s] # Empty})

(* The head of the free list is a page with an empty slot, also in the     *)
(* header a closed file keeps: InsertRec never finds its page full, the    *)
(* case in which FindAvailableSlot returns -1.                             *)
FreePageHasRoom ==
  /\ valid /\ firstFree # ListEnd
       => firstFree \in DataPages /\ HasRoom(page[firstFree])
  /\ ~valid /\ savedFirst # ListEnd
       => savedFirst \in DataPages /\ HasRoom(page[savedFirst])

(* A set of pages that has the page firstFree leads to and, with a page,   *)
(* the one behind it.                                                      *)
FollowsList(S) ==
  /\ firstFree \in DataPages => firstFree \in S
  /\ \A p \in S : page[p].next \in DataPages => page[p].next \in S

(* The pages on the free list that starts at firstFree: the least such set.*)
OnFreeList ==
  {p \in DataPages : \A S \in SUBSET DataPages : FollowsList(S) => p \in S}

(* While the file is open the free list reaches exactly the pages with an  *)
(* empty slot: no room is lost, and no full page is offered.               *)
FreeListComplete ==
  valid => OnFreeList = {p \in DataPages : HasRoom(page[p])}

(* A scan that has ended has returned every record that was there, and     *)
(* satisfied the condition, from OpenScan on, whatever was inserted,       *)
(* deleted or updated meanwhile.                                           *)
ScanComplete == scan.on /\ scan.done => owed = {}

(* A scan that is not closed reaches its end although records keep being   *)
(* inserted in front of it: numPages was copied by OpenScan.               *)
ScanEnds == scan.on ~> (scan.done \/ ~scan.on)

(* A record file implements the set of records its callers rely on. *)
Store == INSTANCE RecordStore WITH store <- Contents
ImplementsRecordStore == Store!Spec
===============================================================================
