------------------------------ MODULE BufferPool ------------------------------
(***************************************************************************)
(* The buffer manager of pf_buffermgr.cc: a fixed number of frames, a used *)
(* list in order of last use, a free list, and a hash table from pages to  *)
(* frames; pages are read on a miss, the least recently used unpinned page *)
(* gives up its frame when none is free, and a page of any file but the    *)
(* log is written only after the dirty pages of the log.                   *)
(*                                                                         *)
(* Simplifications: the doubly linked lists threaded through bufTable are  *)
(* sequences of frames; the chained hash table is a function; a page's     *)
(* bytes are one of a few contents; reads within a file and writes         *)
(* succeed, and a call is one step (LogRecovery has the order of the       *)
(* writes in it).  Zeros between the pages of a file, where a page was     *)
(* dropped, are not read: PF_FileHandle refuses them.                      *)
(* A page is asked for only if PF_FileHandle has allocated it, and changed *)
(* between the call that pins it and MarkDirty, which is how every caller  *)
(* of the PF interface proceeds.  The console command that clears the pool *)
(* may come between any two calls; the one that resizes it is left out.    *)
(***************************************************************************)
EXTENDS Integers, Sequences, FiniteSets

CONSTANTS
  LogFd,       (* logfd                                              *)
  RelFds,      (* the descriptors of the other open files            *)
  PageNums,    (* pages a file may have                              *)
  Data,        (* contents of a page                                 *)
  Zero,        (* the contents of a page just allocated              *)
  NumFrames,   (* numPages of the buffer manager                     *)
  MaxPins      (* bound: pins on one page                            *)

ASSUME PoolAssumption ==
  /\ LogFd \notin RelFds
  /\ Zero \in Data
  /\ NumFrames \in Nat \ {0}
  /\ MaxPins \in Nat \ {0}
  /\ PageNums \subseteq Nat

VARIABLES
  bufTable,   (* fd and pageNum (key), bDirty, pinCount and pData of frames *)
  used,       (* the frames from first to last, most recently used first    *)
  free,       (* the free list                                              *)
  hash,       (* hashTable: the frame of a page                             *)
  disk,       (* the pages in the files                                     *)
  given,      (* history: what the callers last put in each page, except    *)
  lost        (* history: in the pages whose last change was dropped        *)

vars == <<bufTable, used, free, hash, disk, given, lost>>

Frames == 1 .. NumFrames
Page   == ({LogFd} \cup RelFds) \X PageNums
InPool == DOMAIN hash

NoPage == <<>>
EmptyFrame == [key |-> NoPage, dirty |-> FALSE, pin |-> 0, data |-> Zero]

Init ==
  /\ bufTable = [f \in Frames |-> EmptyFrame]
  /\ used = <<>>
  /\ free = [f \in Frames |-> f]
  /\ hash = [k \in {} |-> 1]
  /\ disk = [k \in {} |-> Zero]
  /\ given = [k \in {} |-> Zero]
  /\ lost = {}

-------------------------------------------------------------------------------
Elements(s) == {s[i] : i \in DOMAIN s}

(* Mutant: the frame is linked at the head and stays where it was. *)
UnlinkNothing(s, f) == s

(* The list without the frames of F: its n-th frame is the one that has n *)
(* frames not in F up to it.                                              *)
Unlinked(s, F) ==
  LET Kept  == {i \in DOMAIN s : s[i] \notin F}
      At(n) == CHOOSE i \in Kept : Cardinality({j \in Kept : j <= i}) = n
  IN [n \in 1 .. Cardinality(Kept) |-> s[At(n)]]

(* Unlink and LinkHead. *)
Unlink(s, f)   == Unlinked(s, {f})
LinkHead(s, f) == <<f>> \o s

Without(fn, k) == [x \in DOMAIN fn \ {k} |-> fn[x]]
With(fn, k, v) == [x \in DOMAIN fn \cup {k} |-> IF x = k THEN v ELSE fn[x]]

(* Mutant: WritePage does not force the log. *)
WrittenAlone(F) == {f \in F : bufTable[f].dirty}

(* Frames of F on the free list: nothing reads what is in them any more. *)
Emptied(table, F) == [f \in Frames |-> IF f \in F THEN EmptyFrame ELSE table[f]]

(* The frames written when those of F are to be written out: the dirty     *)
(* ones and, if a page of another file is among them, all dirty pages of   *)
(* the log (WritePage).                                                    *)
Written(F) ==
  LET W == {f \in F : bufTable[f].dirty}
  IN IF \E f \in W : bufTable[f].key[1] # LogFd
       THEN W \cup {f \in Elements(used) :
                      bufTable[f].dirty /\ bufTable[f].key[1] = LogFd}
       ELSE W

DiskAfter(F) ==
  LET W == Written(F)
  IN [k \in DOMAIN disk \cup {bufTable[f].key : f \in W} |->
        IF \E f \in W : bufTable[f].key = k
          THEN bufTable[CHOOSE f \in W : bufTable[f].key = k].data
          ELSE disk[k]]

TableAfter(F) ==
  LET W == Written(F)
  IN [f \in Frames |-> IF f \in W THEN [bufTable[f] EXCEPT !.dirty = FALSE]
                                  ELSE bufTable[f]]

(* Mutant: the page at the end of the list is chosen, pinned or not. *)
VictimAny == used[Len(used)]

Unpinned == {i \in DOMAIN used : bufTable[used[i]].pin = 0}

(* InternalAlloc's victim: the unpinned page nearest the end of the list. *)
Victim ==
  used[CHOOSE i \in Unpinned : \A j \in Unpinned : j <= i]

(* There is a frame to be had; the call returns PF_NOBUF otherwise. *)
CanAlloc == free # <<>> \/ Unpinned # {}

(* Mutant: the victim's page is not written. *)
PutInFrameUnwritten(k, d, dirty) ==
  LET desc == [key |-> k, dirty |-> dirty, pin |-> 1, data |-> d]
  IN IF free # <<>>
       THEN LET f == Head(free)
            IN /\ free' = Tail(free)
               /\ used' = LinkHead(used, f)
               /\ hash' = With(hash, k, f)
               /\ bufTable' = [bufTable EXCEPT ![f] = desc]
               /\ UNCHANGED disk
       ELSE LET f == Victim
            IN /\ used' = LinkHead(Unlink(used, f), f)
               /\ hash' = With(Without(hash, bufTable[f].key), k, f)
               /\ bufTable' = [bufTable EXCEPT ![f] = desc]
               /\ UNCHANGED <<free, disk>>

(* Mutant: the victim's page stays in the hash table. *)
PutInFrameUnhashed(k, d, dirty) ==
  LET desc == [key |-> k, dirty |-> dirty, pin |-> 1, data |-> d]
  IN IF free # <<>>
       THEN LET f == Head(free)
            IN /\ free' = Tail(free)
               /\ used' = LinkHead(used, f)
               /\ hash' = With(hash, k, f)
               /\ bufTable' = [bufTable EXCEPT ![f] = desc]
               /\ UNCHANGED disk
       ELSE LET f == Victim
            IN /\ used' = LinkHead(Unlink(used, f), f)
               /\ hash' = With(hash, k, f)
               /\ bufTable' = [TableAfter({f}) EXCEPT ![f] = desc]
               /\ disk' = DiskAfter({f})
               /\ UNCHANGED free

(* InternalAlloc, then hashTable.Insert and InitPageDesc for page k with   *)
(* the contents d.                                                         *)
PutInFrame(k, d, dirty) ==
  LET desc == [key |-> k, dirty |-> dirty, pin |-> 1, data |-> d]
  IN IF free # <<>>
       THEN LET f == Head(free)
            IN /\ free' = Tail(free)
               /\ used' = LinkHead(used, f)
               /\ hash' = With(hash, k, f)
               /\ bufTable' = [bufTable EXCEPT ![f] = desc]
               /\ UNCHANGED disk
       ELSE LET f == Victim
            IN /\ used' = LinkHead(Unlink(used, f), f)
               /\ hash' = With(Without(hash, bufTable[f].key), k, f)
               /\ bufTable' = [TableAfter({f}) EXCEPT ![f] = desc]
               /\ disk' = DiskAfter({f})
               /\ UNCHANGED free

-------------------------------------------------------------------------------
(* GetPage finds the page in the pool: one more pin, most recently used. *)
GetPageHit(k) ==
  /\ k \in InPool
  /\ LET f == hash[k]
     IN /\ bufTable[f].pin < MaxPins
        /\ bufTable' = [bufTable EXCEPT ![f].pin = @ + 1]
        /\ used' = LinkHead(Unlink(used, f), f)
  /\ UNCHANGED <<free, hash, disk, given, lost>>

(* GetPage reads the page into a frame. *)
GetPageMiss(k) ==
  /\ k \notin InPool
  /\ k \in DOMAIN disk
  /\ CanAlloc
  /\ PutInFrame(k, disk[k], FALSE)
  /\ UNCHANGED <<given, lost>>

(* GetPage of a page that was dropped before the file was long enough for  *)
(* it: the read fails and the frame goes to the free list, after the page  *)
(* that was in it has given it up.                                         *)
GetPageFails(k) ==
  /\ k \in lost /\ k \notin InPool
  /\ \A l \in DOMAIN disk : l[1] = k[1] => l[2] < k[2]
  /\ CanAlloc
  /\ IF free # <<>> THEN UNCHANGED <<bufTable, used, free, hash, disk>>
     ELSE LET f == Victim
          IN /\ free' = <<f>>
             /\ used' = Unlink(used, f)
             /\ hash' = Without(hash, bufTable[f].key)
             /\ bufTable' = Emptied(TableAfter({f}), {f})
             /\ disk' = DiskAfter({f})
  /\ UNCHANGED <<given, lost>>

(* PF_FileHandle::AllocatePage of a page the file did not have: it gets a  *)
(* frame, is zeroed there and marked dirty.                                *)
AllocatePage(k) ==
  /\ k \notin DOMAIN given \cup lost
  /\ CanAlloc
  /\ PutInFrame(k, Zero, TRUE)
  /\ given' = With(given, k, Zero)
  /\ UNCHANGED lost

(* The holder of a pin changes the page and calls MarkDirty. *)
MarkDirty(k, d) ==
  /\ k \in InPool
  /\ LET f == hash[k]
     IN /\ bufTable[f].pin > 0
        /\ bufTable' = [bufTable EXCEPT ![f].data = d, ![f].dirty = TRUE]
        /\ used' = LinkHead(Unlink(used, f), f)
  /\ given' = With(given, k, d)
  /\ lost' = lost \ {k}
  /\ UNCHANGED <<free, hash, disk>>

(* Mutant: the pin count is not tested. *)
UnpinPageUnchecked(k) ==
  /\ k \in InPool
  /\ LET f == hash[k]
     IN /\ bufTable' = [bufTable EXCEPT ![f].pin = @ - 1]
        /\ used' = IF bufTable[f].pin = 1 THEN LinkHead(Unlink(used, f), f)
                                          ELSE used
  /\ UNCHANGED <<free, hash, disk, given, lost>>

(* UnpinPage: giving back the last pin makes the page most recently used. *)
UnpinPage(k) ==
  /\ k \in InPool
  /\ LET f == hash[k]
     IN /\ bufTable[f].pin > 0
        /\ bufTable' = [bufTable EXCEPT ![f].pin = @ - 1]
        /\ used' = IF bufTable[f].pin = 1 THEN LinkHead(Unlink(used, f), f)
                                          ELSE used
  /\ UNCHANGED <<free, hash, disk, given, lost>>

FramesOf(fd) == {f \in Elements(used) : bufTable[f].key[1] = fd}

(* The free list after the frames of F, in the order of the used list, are *)
(* put at its head one by one.                                             *)
Freed(F) ==
  LET out == Unlinked(used, Frames \ F)
  IN [i \in 1 .. Len(out) |-> out[Len(out) + 1 - i]] \o free

(* The frames FlushPages releases: pinned ones stay and make it return a   *)
(* warning, which keeps PF_Manager::CloseFile from closing the file.       *)
Released(fd) == {f \in FramesOf(fd) : bufTable[f].pin = 0}

FlushPages(fd) ==
  LET F == Released(fd)
  IN /\ F # {}
     /\ disk' = DiskAfter(F)
     /\ bufTable' = Emptied(TableAfter(F), F)
     /\ used' = Unlinked(used, F)
     /\ free' = Freed(F)
     /\ hash' = [k \in {k \in InPool : hash[k] \notin F} |-> hash[k]]
     /\ UNCHANGED <<given, lost>>

(* ForcePages, of the pages of a file or one of them, pinned or not. *)
ForcePages(fd, P) ==
  LET F == {f \in FramesOf(fd) : bufTable[f].key[2] \in P}
  IN /\ Written(F) # {}
     /\ disk' = DiskAfter(F)
     /\ bufTable' = TableAfter(F)
     /\ UNCHANGED <<used, free, hash, given, lost>>

(* The changes that are in these frames only are given up. *)
Lost(K) ==
  /\ lost' = lost \cup K
  /\ given' = [k \in DOMAIN given \ K |-> given[k]]

(* Mutant: pinned pages are released too. *)
ClearBufferAll ==
  LET F == Elements(used)
  IN /\ F # {}
     /\ used' = <<>>
     /\ free' = Freed(F)
     /\ hash' = [k \in {} |-> 1]
     /\ Lost({bufTable[f].key : f \in {g \in F : bufTable[g].dirty}})
     /\ bufTable' = Emptied(bufTable, F)
     /\ UNCHANGED disk

(* ClearBuffer releases every page that is not pinned and writes none; the *)
(* pinned ones stay, without an error.                                     *)
ClearBuffer ==
  LET F == {f \in Elements(used) : bufTable[f].pin = 0}
  IN /\ F # {}
     /\ used' = Unlinked(used, F)
     /\ free' = Freed(F)
     /\ hash' = [k \in {k \in InPool : hash[k] \notin F} |-> hash[k]]
     /\ Lost({bufTable[f].key : f \in {g \in F : bufTable[g].dirty}})
     /\ bufTable' = Emptied(bufTable, F)
     /\ UNCHANGED disk

Next ==
  \/ \E k \in Page : GetPageHit(k) \/ GetPageMiss(k) \/ GetPageFails(k) \/ AllocatePage(k)
  \/ \E k \in Page, d \in Data : MarkDirty(k, d)
  \/ \E k \in Page : UnpinPage(k)
  \/ \E fd \in {LogFd} \cup RelFds : FlushPages(fd)
  \/ \E fd \in {LogFd} \cup RelFds, P \in {PageNums} \cup {{n} : n \in PageNums} :
       ForcePages(fd, P)
  \/ ClearBuffer

Spec == Init /\ [][Next]_vars

-------------------------------------------------------------------------------
Injective(s) == \A i, j \in DOMAIN s : s[i] = s[j] => i = j

(* Every variable has its type. *)
TypeOK ==
  /\ bufTable \in [Frames -> [key : Page \cup {NoPage}, dirty : BOOLEAN,
                              pin : 0 .. MaxPins, data : Data]]
  /\ used \in Seq(Frames) /\ free \in Seq(Frames)
  /\ InPool \subseteq Page /\ hash \in [InPool -> Frames]
  /\ DOMAIN disk \subseteq Page /\ disk \in [DOMAIN disk -> Data]
  /\ DOMAIN given \subseteq Page /\ given \in [DOMAIN given -> Data]
  /\ lost \subseteq Page \ DOMAIN given

(* Every frame is on one of the two lists, once. *)
FramesPartition ==
  /\ Elements(used) \cup Elements(free) = Frames
  /\ Elements(used) \cap Elements(free) = {}
  /\ Injective(used) /\ Injective(free)

(* The hash table leads to the frames of the used list, each under the     *)
(* page its descriptor names: no page has two frames, and none is          *)
(* unreachable.                                                            *)
HashMatchesUsed ==
  /\ \A f \in Elements(used) :
       bufTable[f].key \in InPool /\ hash[bufTable[f].key] = f
  /\ \A k \in InPool : hash[k] \in Elements(used) /\ bufTable[hash[k]].key = k

(* What a page reads as: its frame if it has one, else the file, zeros     *)
(* where nothing was written.                                              *)
Visible(k) == IF k \in InPool THEN bufTable[hash[k]].data
              ELSE IF k \in DOMAIN disk THEN disk[k] ELSE Zero

(* A page always reads as what was last put in it, unless the pool was     *)
(* cleared since: an eviction, a flush or a force loses no change; and a   *)
(* clean page equals the file's, whatever has been dropped.                *)
Coherent ==
  /\ \A k \in DOMAIN given :
       /\ k \notin InPool => k \in DOMAIN disk
       /\ Visible(k) = given[k]
  /\ \A k \in InPool :
       ~bufTable[hash[k]].dirty => k \in DOMAIN disk /\ disk[k] = bufTable[hash[k]].data

(* A pinned page keeps its frame, which the holder of the pin points into, *)
(* whatever is evicted, flushed or cleared.                                *)
PinnedStay ==
  [][\A k \in InPool : bufTable[hash[k]].pin > 0
       => /\ k \in DOMAIN hash' /\ hash'[k] = hash[k]
          /\ bufTable'[hash[k]].key = k]_vars

(* When a page of another file reaches the disk, every page of the log is  *)
(* there as it last was.                                                   *)
LogBeforeData ==
  [][(\E k \in DOMAIN disk' :
        k[1] # LogFd /\ (k \notin DOMAIN disk \/ disk[k] # disk'[k]))
       => \A l \in DOMAIN given :
            l[1] = LogFd => l \in DOMAIN disk' /\ disk'[l] = given[l]]_vars

(* The pool with its frames, lists, table and disk implements pages; only  *)
(* ClearBuffer loses anything, and nothing of a pinned page.               *)
Store == INSTANCE PageStore WITH
  content <- [k \in DOMAIN given \cup lost |-> Visible(k)],
  pinned  <- [k \in Page |-> IF k \in InPool THEN bufTable[hash[k]].pin ELSE 0]
ImplementsPageStore ==
  Store!Init /\ [][Store!Next \/ (ClearBuffer /\ Store!Lose)]_(Store!vars)
===============================================================================
