--------------------------------- MODULE Index ---------------------------------
(***************************************************************************)
(* An index file and a scan of it (ix_indexhandle.cc, ix_indexscan.cc,     *)
(* ix_manager.cc), on the pages its PF file handle allocates and disposes  *)
(* of (pf_filehandle.cc).                                                  *)
(*                                                                         *)
(* Keys are pairs of a value and a record identifier and are unique.  Page *)
(* 0 is the file header and never part of the tree; the pages from 1 on    *)
(* are non-leaves, leaves, or disposed.  Recursion down the tree and back  *)
(* is a function over the positions of the path from the root to a leaf.   *)
(***************************************************************************)
EXTENDS IndexOrder, Sequences, FiniteSets, SequencesExt

CONSTANTS
  Entries,          \* the keys: <<value, record>>
  Scans,            \* the scans that are opened: <<operator, value>>
  MaxKeysInternal,  \* room in a non-leaf (IX_FileHdr)
  MaxKeysLeaf,      \* room in a leaf (IX_FileHdr)
  MaxErrors,        \* bound: calls with a key that is there already, or is not
  MaxCalls          \* bound: insertions and deletions

ASSUME IndexConstants ==
  /\ Entries \subseteq Nat \X Nat
  /\ Scans \subseteq ScanOps \X Nat
  /\ MaxKeysInternal \in Nat /\ MaxKeysInternal > 2
  /\ MaxKeysLeaf \in Nat /\ MaxKeysLeaf > 1
  /\ MaxErrors \in Nat /\ MaxCalls \in Nat

VARIABLES
  ix,           \* pages, list of disposed pages, rootPage, leftmostLeaf
  numKeys,      \* IX_FileHdr.numKeys
  handle,       \* the IX_IndexHandle: "open", "closed", "stuck" when a close failed
  hdrModified,  \* hdrModified_
  hdrPage,      \* the header page: numKeys, rootPage, leftmostLeaf
  pinned,       \* pages left pinned by calls that returned an error
  scan,         \* the IX_IndexScan
  errors,       \* calls that returned an error
  calls,        \* insertions and deletions
  given,        \* history: how often each entry is in, by what calls returned
  nonLeafSplit, \* history: a non-leaf node has been split
  hidden        \* history: an error left a "leaf" no search leads to, or a
                \* "stub", an empty node searches still lead to; or "none"

vars == <<ix, numKeys, handle, hdrModified, hdrPage, pinned, scan, errors, calls,
          given, nonLeafSplit, hidden>>

-------------------------------------------------------------------------------
(* Pages. *)

Begin == -1   \* IX_INDEX_LIST_BEGIN
End   == -2   \* IX_INDEX_LIST_END

NonLeaf(kind, keys, child) == [kind |-> kind, keys |-> keys, child |-> child]
Leaf(keys, next, prev) == [kind |-> "leaf", keys |-> keys, next |-> next, prev |-> prev]
Disposed == [kind |-> "disposed"]

(* CreateIndex: a root without children; leftmostLeaf is not set. *)
NewIndex == [node |-> <<NonLeaf("root", <<>>, <<>>)>>, free |-> <<>>,
             rootPage |-> 1, leftmostLeaf |-> Begin]

(* AllocatePage: the page disposed of last, else one at the end of the file. *)
NewPage(x) == IF x.free # <<>> THEN Head(x.free) ELSE Len(x.node) + 1

(* Mutant: the page given out stays on the list. *)
AllocateKept(x, contents) ==
  IF x.free # <<>>
  THEN [x EXCEPT !.node[Head(x.free)] = contents]
  ELSE [x EXCEPT !.node = Append(@, contents)]

Allocate(x, contents) ==
  IF x.free # <<>>
  THEN [x EXCEPT !.node[Head(x.free)] = contents, !.free = Tail(@)]
  ELSE [x EXCEPT !.node = Append(@, contents)]

DisposePage(x, p) ==
  [x EXCEPT !.node[p] = Disposed, !.free = <<p>> \o @]

-------------------------------------------------------------------------------
(* Searching. *)

(* Mutant: a key equal to the one searched for is on the right of the subtree. *)
KeyIndexLow(e, n) ==
  LET greater == SelectInSeq(n.keys, LAMBDA k : ~Before(k, e))
  IN  IF greater = 0 THEN Len(n.keys) ELSE greater - 1

(* FindSubtreePtr: how many keys of non-leaf n are passed before one greater
   than e is met, and the child on the left of that one. *)
KeyIndex(e, n) ==
  LET greater == SelectInSeq(n.keys, LAMBDA k : Before(e, k))
  IN  IF greater = 0 THEN Len(n.keys) ELSE greater - 1

Subtree(e, n) == n.child[KeyIndex(e, n) + 1]

(* The pages from the root to the leaf where a search for e ends. *)
Path(x, e) ==
  LET down[p \in DOMAIN x.node] ==
        IF x.node[p].kind = "leaf" THEN <<p>>
        ELSE <<p>> \o down[Subtree(e, x.node[p])]
  IN  down[x.rootPage]

(* Goes from the leaf at the end of path back to the root: AtLeaf(x, p) at
   the leaf, then AtParent(result so far, p) at each node above it. *)
Unwind(path, atLeaf, AtParent(_, _)) ==
  LET up[i \in 1..Len(path)] ==
        IF i = Len(path) THEN atLeaf ELSE AtParent(up[i + 1], path[i])
  IN  up[1]

Empty(x) == x.node[x.rootPage].child = <<>>

-------------------------------------------------------------------------------
(* Insertion.  A result is the index after it, what the parent has to take
   up (a new child and its key), the return code, and the pages left pinned. *)

InsertSorted(keys, e) ==
  LET greater == SelectInSeq(keys, LAMBDA k : Before(e, k))
  IN  IF greater = 0 THEN Append(keys, e) ELSE InsertAt(keys, greater, e)

(* InitializeFirstLeaf, when the root has no children. *)
WithFirstLeaf(x) ==
  LET p == NewPage(x)
  IN  IF ~Empty(x) THEN x
      ELSE [Allocate(x, Leaf(<<>>, End, Begin)) EXCEPT
              !.node[x.rootPage].child = <<p>>, !.leftmostLeaf = p]

(* Mutant: the keys that move stay in the old leaf as well. *)
SplitLeafKeep(x, p) ==
  LET q == NewPage(x)
      n == x.node[p]
      y == [Allocate(x, Leaf(SubSeq(n.keys, MaxKeysLeaf \div 2 + 1, MaxKeysLeaf), n.next, p))
              EXCEPT !.node[p].next = q]
  IN  IF n.next = End THEN y ELSE [y EXCEPT !.node[n.next].prev = q]

(* The second half of leaf p moves to a new leaf behind it. *)
SplitLeaf(x, p) ==
  LET q     == NewPage(x)
      n     == x.node[p]
      first == MaxKeysLeaf \div 2
      y     == [Allocate(x, Leaf(SubSeq(n.keys, first + 1, MaxKeysLeaf), n.next, p))
                  EXCEPT !.node[p].keys = SubSeq(@, 1, first), !.node[p].next = q]
  IN  IF n.next = End THEN y ELSE [y EXCEPT !.node[n.next].prev = q]

(* InsertEntryToLeaf: whether the key is there already is found out when it
   is put in its place, after the split. *)
InsertEntryToLeaf(x, p, e) ==
  LET split == Len(x.node[p].keys) = MaxKeysLeaf
      q     == NewPage(x)
      y     == IF split THEN SplitLeaf(x, p) ELSE x
      upKey == Head(y.node[q].keys)
      at    == IF split /\ ~Before(e, upKey) THEN q ELSE p
  IN  IF Contains(y.node[at].keys, e)
      THEN [ix |-> y, up |-> <<>>, rc |-> "duplicate", pins |-> IF split THEN {p, q} ELSE {p}]
      ELSE [ix |-> [y EXCEPT !.node[at].keys = InsertSorted(@, e)],
            up |-> IF split THEN <<[child |-> q, key |-> upKey]>> ELSE <<>>,
            rc |-> "ok", pins |-> {}]

(* InsertEntryToNonLeafHelper: key and child c go behind k keys. *)
WithChild(n, k, c) == [n EXCEPT !.keys = InsertAt(@, k + 1, c.key),
                                !.child = InsertAt(@, k + 2, c.child)]

(* InsertEntryToNonLeaf when there is no room, and AllocateNewRoot.  The key
   handed up stays the one handed in (newChildData), a new root gets the first
   key of the new node, and what is in the slot of the middle key then replaces
   that first key. *)
SplitNonLeaf(x, p, k, c) ==
  LET q      == NewPage(x)
      n      == x.node[p]
      middle == MaxKeysInternal \div 2
      left   == NonLeaf("internal", SubSeq(n.keys, 1, middle), SubSeq(n.child, 1, middle + 1))
      right  == NonLeaf("internal", SubSeq(n.keys, middle + 2, MaxKeysInternal),
                        SubSeq(n.child, middle + 2, MaxKeysInternal + 1))
      left2  == IF k <= middle THEN WithChild(left, k, c) ELSE left
      right2 == IF k <= middle THEN right ELSE WithChild(right, k - (middle + 1), c)
      slot   == IF k <= middle THEN left2.keys[middle + 1] ELSE n.keys[middle + 1]
      y      == [Allocate(x, [right2 EXCEPT !.keys[1] = slot]) EXCEPT !.node[p] = left2]
      root   == NonLeaf("root", <<right2.keys[1]>>, <<p, q>>)
  IN  [ix |-> IF n.kind = "root"
              THEN [Allocate(y, root) EXCEPT !.rootPage = NewPage(y)] ELSE y,
       up |-> <<[child |-> q, key |-> c.key]>>]

(* Mutant: one more key is let into a non-leaf that is full. *)
InsertEntryToNonLeafOver(e, r, p) ==
  LET n == r.ix.node[p]
      k == KeyIndex(e, n)
      s == SplitNonLeaf(r.ix, p, k, Head(r.up))
  IN  IF r.rc # "ok" THEN [r EXCEPT !.pins = @ \union {p}]
      ELSE IF r.up = <<>> THEN r
      ELSE IF Len(n.keys) <= MaxKeysInternal
      THEN [r EXCEPT !.ix.node[p] = WithChild(@, k, Head(r.up)), !.up = <<>>]
      ELSE [r EXCEPT !.ix = s.ix, !.up = s.up]

(* InsertEntryToNode, for an entry that belongs under non-leaf p. *)
InsertEntryToNonLeaf(e, r, p) ==
  LET n == r.ix.node[p]
      k == KeyIndex(e, n)
      s == SplitNonLeaf(r.ix, p, k, Head(r.up))
  IN  IF r.rc # "ok" THEN [r EXCEPT !.pins = @ \union {p}]
      ELSE IF r.up = <<>> THEN r
      ELSE IF Len(n.keys) < MaxKeysInternal
      THEN [r EXCEPT !.ix.node[p] = WithChild(@, k, Head(r.up)), !.up = <<>>]
      ELSE [r EXCEPT !.ix = s.ix, !.up = s.up]

InsertResult(e) ==
  LET x    == WithFirstLeaf(ix)
      path == Path(x, e)
  IN  Unwind(path, InsertEntryToLeaf(x, Last(path), e),
             LAMBDA r, p : InsertEntryToNonLeaf(e, r, p))

-------------------------------------------------------------------------------
(* Deletion.  A result is the index after it, whether the node was disposed
   of (childDeleted), the return code, and the pages left pinned. *)

(* AdjustSiblingPointers; leftmostLeaf of the header stays as it is. *)
Unlink(x, n) ==
  LET y == IF n.next = End THEN x ELSE [x EXCEPT !.node[n.next].prev = n.prev]
  IN  IF n.prev = Begin THEN y ELSE [y EXCEPT !.node[n.prev].next = n.next]

(* The scan has its current page pinned until it is at its end. *)
ScanPins == IF scan.state = "on" THEN {scan.page} ELSE {}

(* A node that became empty: DisposePage refuses a page that is pinned. *)
Dispose(x, p) ==
  IF p \in pinned \union ScanPins
  THEN [ix |-> x, gone |-> FALSE, rc |-> "pinned", pins |-> {}]
  ELSE [ix |-> DisposePage(x, p), gone |-> TRUE, rc |-> "ok", pins |-> {}]

(* DeleteEntryFromNode at leaf p, with DeleteEntryFromLeaf. *)
DeleteEntryFromLeaf(x, p, e) ==
  LET y == [x EXCEPT !.node[p].keys = SelectSeq(@, LAMBDA k : k # e)]
  IN  IF ~Contains(x.node[p].keys, e)
      THEN [ix |-> x, gone |-> FALSE, rc |-> "notfound", pins |-> {p}]
      ELSE IF y.node[p].keys # <<>>
      THEN [ix |-> y, gone |-> FALSE, rc |-> "ok", pins |-> {}]
      ELSE Dispose(Unlink(y, y.node[p]), p)

(* DeleteEntryFromNonLeaf: the child behind k keys goes, with the key on its
   right, or with the last key when there is none. *)
WithoutChild(n, k) ==
  [n EXCEPT !.child = RemoveAt(@, k + 1),
            !.keys = IF @ = <<>> THEN @ ELSE IF k < Len(@) THEN RemoveAt(@, k + 1) ELSE Front(@)]

(* DeleteEntryFromNode at non-leaf p; a root stays when it has no children. *)
DeleteEntryFromNonLeaf(e, r, p) ==
  LET n == WithoutChild(r.ix.node[p], KeyIndex(e, r.ix.node[p]))
      y == [r.ix EXCEPT !.node[p] = n]
  IN  IF r.rc # "ok" THEN [r EXCEPT !.pins = @ \union {p}]
      ELSE IF ~r.gone THEN r
      ELSE IF n.child = <<>> /\ n.kind = "internal" THEN Dispose(y, p)
      ELSE [r EXCEPT !.ix = y, !.gone = FALSE]

(* A childless root leads to a page that is disposed of, or to page 0. *)
DeleteResult(e) ==
  LET path == Path(ix, e)
  IN  IF Empty(ix) THEN [ix |-> ix, gone |-> FALSE, rc |-> "invalidpage", pins |-> {ix.rootPage}]
      ELSE Unwind(path, DeleteEntryFromLeaf(ix, Last(path), e),
             LAMBDA r, p : DeleteEntryFromNonLeaf(e, r, p))

-------------------------------------------------------------------------------
(* Scanning. *)

NoScan == [state |-> "none"]

(* FetchNextPage. *)
FetchNextPage(sc) ==
  IF sc.next = End THEN [sc EXCEPT !.state = "eof"]
  ELSE [sc EXCEPT !.page = sc.next, !.next = ix.node[sc.next].next, !.index = 0]

At(sc, p, i) ==
  [sc EXCEPT !.state = "on", !.page = p, !.index = i, !.next = ix.node[p].next]

(* A page that a scan can read as a leaf. *)
IsLeaf(p) == p \in DOMAIN ix.node /\ ix.node[p].kind = "leaf"

(* InitializeScanPtr, the part for EQ, GE and GT: from the leaf where the
   search for the least key with the value ends, along the list of leaves. *)
FirstFrom(sc, leaf) ==
  LET from[p \in DOMAIN ix.node \union {End}] ==
        LET keys == ix.node[p].keys
            hit  == SelectInSeq(keys, LAMBDA k : \/ Wanted(sc.op, sc.val, k)
                                                 \/ sc.op = "EQ" /\ sc.val < k[1])
        IN  IF p = End THEN [sc EXCEPT !.state = "eof"]
            ELSE IF hit = 0 THEN from[ix.node[p].next]
            ELSE IF Wanted(sc.op, sc.val, keys[hit]) THEN At(sc, p, hit - 1)
            ELSE [sc EXCEPT !.state = "eof"]
  IN  from[leaf]

FirstRid == CHOOSE r \in {e[2] : e \in Entries} : \A e \in Entries : r <= e[2]

(* Mutant: for EQ, GE and GT the search is for the last record of the value. *)
InitializeScanPtrLast(sc) ==
  IF sc.op \in {"NO", "LT", "LE"}
  THEN IF IsLeaf(ix.leftmostLeaf) THEN At(sc, ix.leftmostLeaf, 0)
       ELSE [sc EXCEPT !.state = "bad"]
  ELSE IF Empty(ix) THEN [sc EXCEPT !.state = "bad"]
  ELSE FirstFrom(sc, Last(Path(ix, <<sc.val, FirstRid + 1>>)))

(* InitializeScanPtr.  A page that is no leaf, found through leftmostLeaf or
   under a childless root, gives an error, or bytes that are no entry; a
   childless root whose unset child is itself is searched without end.  The
   state "bad" stands for all of these. *)
InitializeScanPtr(sc) ==
  IF sc.op \in {"NO", "LT", "LE"}
  THEN IF IsLeaf(ix.leftmostLeaf) THEN At(sc, ix.leftmostLeaf, 0)
       ELSE [sc EXCEPT !.state = "bad"]
  ELSE IF Empty(ix) THEN [sc EXCEPT !.state = "bad"]
  ELSE FirstFrom(sc, Last(Path(ix, <<sc.val, FirstRid>>)))

(* Mutant: never steps back. *)
RepositionForward(sc) ==
  IF sc.index = 0 THEN sc
  ELSE IF sc.index >= Len(ix.node[sc.page].keys) THEN FetchNextPage(sc) ELSE sc

(* From the second call on: back by one when the slot before the position
   does not hold what was returned last (it was deleted and the rest of the
   leaf moved up; in the last slot its bytes stay), then to the next leaf
   when the position is behind the last key. *)
Reposition(sc) ==
  LET keys  == ix.node[sc.page].keys
      moved == sc.index <= Len(keys) /\ keys[sc.index] # Last(sc.got)
      back  == IF moved THEN [sc EXCEPT !.index = @ - 1] ELSE sc
  IN  IF sc.index = 0 THEN sc
      ELSE IF back.index >= Len(keys) THEN FetchNextPage(back) ELSE back

(* Mutant: the leaf of a single entry is not left. *)
ReturnEntryStay(sc) ==
  LET key == ix.node[sc.page].keys[sc.index + 1]
  IN  IF sc.op \in {"EQ", "LT", "LE"} /\ ~Wanted(sc.op, sc.val, key)
      THEN [sc EXCEPT !.state = "eof"]
      ELSE [sc EXCEPT !.index = @ + 1, !.got = Append(@, key), !.owed = @ \ {key}]

(* Returns the entry at the position, and leaves the leaf when it has no
   other, or ends the scan when the entry does not meet the condition. *)
ReturnEntry(sc) ==
  LET keys == ix.node[sc.page].keys
      key  == keys[sc.index + 1]
      next == [sc EXCEPT !.index = @ + 1, !.got = Append(@, key), !.owed = @ \ {key}]
  IN  IF sc.op \in {"EQ", "LT", "LE"} /\ ~Wanted(sc.op, sc.val, key)
      THEN [sc EXCEPT !.state = "eof"]
      ELSE IF Len(keys) = 1 THEN FetchNextPage(next) ELSE next

GetNextResult ==
  LET sc == IF scan.state = "new" THEN InitializeScanPtr(scan) ELSE Reposition(scan)
  IN  IF sc.state = "on" THEN ReturnEntry(sc) ELSE sc

-------------------------------------------------------------------------------
(* The operations. *)

(* The header as the handle has it. *)
Hdr == [numKeys |-> numKeys, rootPage |-> ix.rootPage, leftmostLeaf |-> ix.leftmostLeaf]

Init ==
  /\ ix = NewIndex
  /\ numKeys = 0
  /\ handle = "closed" /\ hdrModified = FALSE /\ hdrPage = Hdr
  /\ pinned = {} /\ scan = NoScan /\ errors = 0 /\ calls = 0
  /\ given = [e \in Entries |-> 0]
  /\ nonLeafSplit = FALSE /\ hidden = "none"

NonLeaves(x) == {p \in DOMAIN x.node : x.node[p].kind \in {"root", "internal"}}
Leaves(x) == {p \in DOMAIN x.node : x.node[p].kind = "leaf"}

(* The header after a call that changed the count by one, or failed. *)
Count(ok, by) ==
  /\ numKeys' = IF ok THEN numKeys + by ELSE numKeys
  /\ hdrModified' = (hdrModified \/ ok)
  /\ UNCHANGED hdrPage
  /\ errors' = IF ok THEN errors ELSE errors + 1
  /\ calls < MaxCalls /\ calls' = calls + 1

(* InsertEntry, of a new entry or (an error) of one that is in. *)
InsertEntry(e) ==
  LET r  == InsertResult(e)
      ok == r.rc = "ok"
  IN  /\ handle = "open" /\ scan.state = "none" /\ hidden # "stub"
      /\ given[e] = 0 \/ errors < MaxErrors
      /\ ix' = r.ix
      /\ Count(ok, 1)
      /\ pinned' = pinned \union r.pins
      /\ given' = IF ok THEN [given EXCEPT ![e] = @ + 1] ELSE given
      /\ nonLeafSplit' = (nonLeafSplit \/ Cardinality(NonLeaves(r.ix)) > Cardinality(NonLeaves(ix)))
      /\ hidden' = IF ~ok /\ Leaves(r.ix) # Leaves(ix) THEN "leaf" ELSE hidden
      /\ UNCHANGED <<handle, scan>>

(* DeleteEntry, of an entry that is in or (an error) of one that is not.
   During a scan callers delete only what it returned last. *)
DeleteEntry(e) ==
  LET r  == DeleteResult(e)
      ok == r.rc = "ok"
  IN  /\ handle = "open" /\ hidden # "stub"
      /\ given[e] > 0 \/ errors < MaxErrors
      /\ scan.state # "none" => given[e] > 0 /\ scan.got # <<>> /\ e = Last(scan.got)
      /\ ix' = r.ix
      /\ Count(ok, -1)
      /\ pinned' = pinned \union r.pins
      /\ given' = IF ok THEN [given EXCEPT ![e] = @ - 1] ELSE given
      /\ hidden' = IF r.rc = "pinned" THEN "stub" ELSE hidden
      /\ UNCHANGED <<handle, scan, nonLeafSplit>>

FirstLeaves(x) == {p \in Leaves(x) : x.node[p].prev = Begin}

(* The leaf that the header calls the leftmost has been disposed of. *)
LeftmostStale == ix.leftmostLeaf \notin FirstLeaves(ix)

OpenScan(op, v) ==
  /\ handle = "open" /\ scan.state = "none" /\ hidden # "stub"
  /\ scan' = [state |-> "new", op |-> op, val |-> v, page |-> Begin, index |-> 0,
              next |-> End, got |-> <<>>, astray |-> op \in {"NO", "LT", "LE"} /\ LeftmostStale,
              owed |-> {e \in Entries : given[e] > 0 /\ Wanted(op, v, e)}]
  /\ UNCHANGED <<ix, numKeys, handle, hdrModified, hdrPage, pinned, errors, calls,
                 given, nonLeafSplit, hidden>>

GetNextEntry ==
  /\ scan.state \in {"new", "on"} /\ hidden # "stub"
  /\ scan' = GetNextResult
  /\ UNCHANGED <<ix, numKeys, handle, hdrModified, hdrPage, pinned, errors, calls,
                 given, nonLeafSplit, hidden>>

CloseScan ==
  /\ scan.state # "none"
  /\ scan' = NoScan
  /\ UNCHANGED <<ix, numKeys, handle, hdrModified, hdrPage, pinned, errors, calls,
                 given, nonLeafSplit, hidden>>

(* The handle takes its header from the header page. *)
OpenIndex ==
  /\ handle = "closed"
  /\ handle' = "open" /\ hdrModified' = FALSE
  /\ numKeys' = hdrPage.numKeys
  /\ ix' = [ix EXCEPT !.rootPage = hdrPage.rootPage, !.leftmostLeaf = hdrPage.leftmostLeaf]
  /\ UNCHANGED <<hdrPage, pinned, scan, errors, calls, given, nonLeafSplit, hidden>>

(* CloseIndex writes the header if it was modified; PF_Manager::CloseFile
   then gives up when a page is pinned. *)
CloseIndex ==
  /\ handle = "open" /\ scan.state = "none"
  /\ handle' = IF pinned = {} THEN "closed" ELSE "stuck"
  /\ hdrPage' = IF hdrModified THEN Hdr ELSE hdrPage
  /\ hdrModified' = FALSE
  /\ UNCHANGED <<ix, numKeys, pinned, scan, errors, calls, given, nonLeafSplit, hidden>>

Next ==
  \/ \E e \in Entries : InsertEntry(e) \/ DeleteEntry(e)
  \/ \E s \in Scans : OpenScan(s[1], s[2])
  \/ GetNextEntry
  \/ CloseScan
  \/ OpenIndex
  \/ CloseIndex

Spec == Init /\ [][Next]_vars

-------------------------------------------------------------------------------
(* Properties. *)

(* The leaves on the list that starts at the leaf without predecessor. *)
ListFrom(x) ==
  LET from[p \in DOMAIN x.node \union {End}] ==
        IF p = End THEN <<>> ELSE <<p>> \o from[x.node[p].next]
  IN  from

LeafList == IF FirstLeaves(ix) = {} THEN <<>>
            ELSE ListFrom(ix)[CHOOSE p \in FirstLeaves(ix) : TRUE]

ListKeys == FlattenSeq([i \in 1..Len(LeafList) |-> ix.node[LeafList[i]].keys])

(* No error has left the tree damaged, and no non-leaf has been split. *)
Sound == ~nonLeafSplit /\ hidden = "none"

(* Nodes and their fanout are as the header's limits allow, a non-leaf has one
   child more than keys, and only a root may have none. *)
TypeOK ==
  /\ \A p \in DOMAIN ix.node :
       LET n == ix.node[p] IN
       \/ n = Disposed
       \/ /\ n.kind = "leaf"
          /\ Len(n.keys) \in (IF hidden = "stub" THEN 0 ELSE 1)..MaxKeysLeaf
       \/ /\ n.kind \in {"root", "internal"}
          /\ Len(n.keys) \in 0..MaxKeysInternal
          /\ \/ Len(n.child) = Len(n.keys) + 1
             \/ n.child = <<>> /\ n.keys = <<>> /\ (n.kind = "root" \/ hidden = "stub")
          /\ (n.kind = "root") = (p = ix.rootPage)
  /\ handle \in {"open", "closed", "stuck"}
  /\ pinned \subseteq DOMAIN ix.node
  /\ scan.state \in {"none", "new", "on", "eof", "bad"}

(* The list of leaves holds exactly the entries that were inserted and not
   deleted, also after errors and after the splits of non-leaves that leave
   searches wrong: no split, no removal of a leaf ever drops an entry.  While
   the index is open its header counts them, however often it was closed and
   opened from its header page. *)
LeavesHoldEntries ==
  LET keys == ListKeys
  IN  hidden # "stub" =>
        /\ \A e \in Entries :
             Cardinality({i \in DOMAIN keys : keys[i] = e}) = given[e]
        /\ handle = "open" => numKeys = Len(keys)

(* Until a non-leaf is split, the leaves are in order and a search for an entry
   ends at the leaf that holds it, if any does. *)
SearchFindsEntries ==
  LET keys == ListKeys
  IN  Sound =>
    /\ \A i \in 1..(Len(keys) - 1) : Before(keys[i], keys[i + 1])
    /\ ~Empty(ix) =>
         \A e \in Entries :
           (given[e] > 0) = Contains(ix.node[Last(Path(ix, e))].keys, e)

(* A page is in the tree or on the list of disposed pages and never on both;
   only the leaf hidden by a refused insertion is in neither. *)
PagesAccounted ==
  LET tree == UNION {ToSet(ix.node[p].child) : p \in NonLeaves(ix)} \union {ix.rootPage}
      lost == DOMAIN ix.node \ (tree \union ToSet(ix.free))
  IN  /\ ToSet(ix.free) = {p \in DOMAIN ix.node : ix.node[p] = Disposed}
      /\ IsInjective(ix.free)
      /\ tree \intersect ToSet(ix.free) = {}
      /\ hidden = "none" => lost = {}
      /\ Cardinality(lost) <= errors

(* A scan that came to its end has returned every entry that meets its
   condition, and a scan fails only when there is no entry or when it starts
   from a leaf the header wrongly calls leftmost (astray, as is known when the
   scan is opened). *)
ScanComplete ==
  scan.state \in {"eof", "bad"} /\ Sound /\ ~scan.astray =>
    IF scan.state = "eof" THEN scan.owed = {} ELSE Empty(ix)

(* Deleting what a scan returned never meets the page the scan has pinned, so
   it always succeeds, down to the disposal of pages. *)
ScanLetsDelete ==
  [][scan.state # "none" /\ pinned = {} /\ Sound => errors' = errors]_vars

(* An index is a set of entries with a cursor over it, until a non-leaf is
   split or an error hides a page, and but for scans that start astray. *)
Store == INSTANCE IndexStore WITH
           entries <- {e \in Entries : given[e] > 0},
           cursor  <- IF scan.state = "none" THEN {} ELSE {scan.owed},
           got     <- IF scan.state = "none" THEN <<>> ELSE scan.got

Astray == scan.state # "none" /\ scan.astray

ImplementsStore ==
  Store!Init /\ [][~Sound' \/ Astray \/ Store!Next]_(Store!vars)

(* What the comment on splits says, of every index: the key that a split
   hands up lets a search find every entry.  It does not hold. *)
SearchFindsAlways ==
  ~Empty(ix) =>
    \A e \in Entries :
      (given[e] > 0) = Contains(ix.node[Last(Path(ix, e))].keys, e)
===============================================================================
