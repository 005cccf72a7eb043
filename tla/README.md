# A verification of RedBase's storage and recovery

`src/redbase/src` is a single-user relational database: paged files (PF), record
files (RM), B+ tree indexes (IX), catalogs and utilities (SM), query execution
(QL), and, as its extension, a write-ahead log with rollback and restart
recovery (LG). This directory holds TLA+ models of the parts of it whose
correctness depends on long histories, orders of writes and crashes, and of the
algorithms above them, from the B+ tree to the trees of operators of a query;
TLC configurations that check them on small instances; and TLAPS proofs, for
instances of any size, of the properties of record files, of the buffer pool,
of write-ahead logging and recovery, of the statements that change a relation,
and of the catalogs.

Paths below are relative to `src/redbase/src`.

## 1. The system

| part | files | state | operations | depends on |
|---|---|---|---|---|
| PF buffer manager | `pf_buffermgr.cc`, `pf_hashtable.cc` | `bufTable` (page, dirty bit, pin count, bytes), used list by last use, free list, hash table | `GetPage`, `AllocatePage`, `MarkDirty`, `UnpinPage`, `FlushPages`, `ForcePages`; console: `ClearBuffer`, `ResizeBuffer` | the files; `logfd` |
| PF file handle, manager | `pf_filehandle.cc`, `pf_manager.cc` | header: `numPages`, list of disposed pages; `bHdrChanged` | open, close, page walks, `AllocatePage`, `DisposePage`, `FlushPages`, `ForcePages` | buffer manager |
| RM record file | `rm_filehandle.cc`, `rm_filescan.cc`, `rm_manager.cc` | header `firstFree`, `numPages`, `hdrModified_`; per page `numRecords`, `nextFree`, `pageLSN`, bitmap, slots; a scan's position | `InsertRec`, `DeleteRec`, `UpdateRec`, `InsertRecAtRid`, `GetRec`, `UpdatePageLSN`, `OpenScan`, `GetNextRec`, `OpenFile`, `CloseFile` | PF, and LG: `InsertRec` logs itself |
| LG log manager | `lg_manager.cc`, `lg.h` | log file, `lastRec`, `currLogPage_`, `availableSpace`, `bInTransaction`, `currXID`, `dirtyFiles` | `BeginT`, `CommitT`, `AbortT`, `Checkpoint`, `InsertLogRec`, `Undo`, `Redo`, `Recover`, `CreateLog`, `DestroyLog` | PF for the log, RM to undo and redo |
| IX index | `ix_indexhandle.cc`, `ix_indexscan.cc`, `ix_manager.cc` | B+ tree nodes, root, leftmost leaf; a scan's position | `InsertEntry`, `DeleteEntry`, scan, open, close | PF |
| SM system management | `sm_manager.cc` | `relcat`, `attrcat` and their indexes | `OpenDb`, `CloseDb`, `CreateTable`, `DropTable`, `CreateIndex`, `DropIndex`, `Load`, `Set` | RM, IX, LG |
| QL execution | `ql_manager.cc`, `ql_node.cc` | a tree of operators, each with scans and buffers | `Select`, `Insert`, `Delete`, `Update` | RM, IX, SM, LG |
| shell | `parse.y`, `scan.l`, `nodes.c`, `interp.c`, `redbase.cc`, `dbcreate.cc`, `dbdestroy.cc`, `printer.cc`, `statistics.cc` | none between commands | | all |

How they interact. One process, one thread; every interaction is a call.
QL and SM open a relation, change records through RM, maintain the indexes,
close the relation (which flushes it) and only then commit; `Load` is the
exception and commits before it closes. RM's `InsertRec` and QL's delete and
update nodes write the log record, stamp the page with its LSN and change the
page. LG undoes and redoes through RM. Below all of them the buffer manager may
write any unpinned dirty page at any call, and `WritePage` forces the log
before it writes a page of any other file: this hook is the write-ahead rule.
The catalogs are written without logging.

What is hard. Nothing runs in parallel, so the difficulty is in (a) the process
dying between any two writes, of a statement, of a rollback or of a recovery;
(b) the order in which stolen, flushed and forced pages and the headers, which
do not go through the pool, reach the disk; (c) calls interleaved on one
object, a scan with changes to what it scans; (d) structures whose invariants
span pages and long histories: the free list, the log's chain of LSNs, the
lists and hash table of the pool, the tree; (e) error returns halfway through
a sequence of changes.

What makes each part correct:

- **RM**: the count of a page is that of its bitmap; the free list holds
  exactly the pages with room, also across close and open; a scan misses no
  record that was there all along; a RID names one record until it is deleted.
- **LG**: at most what committed, and all of it, is there after a crash, a
  rollback, an interrupted recovery; the log is on disk before the page it
  describes; the chain recovery follows is complete and ends; a checkpoint
  discards nothing that is still needed.
- **PF**: a page reads as what was last put in it however often it moved; a
  pinned page keeps its frame; no frame is lost or used twice.
- **IX**: the entries are those inserted and not deleted, in order, at the
  leaves; a scan returns exactly the matching ones, also when the caller
  deletes what it was given.
- **SM/QL**: catalogs agree with the files and indexes that exist; a plan's
  answer is that of the query.

## 2. The plan

Done, in this order: `RecordPage` and `RecordFile` with `RecordStore` (the base
of everything else), `LogRecovery` (the part with most to go wrong),
`BufferPool` with `PageStore` (the rule recovery relies on), the proofs about
`RecordFile` and about the log of `LogRecovery`; then `Index` with `IndexStore`,
`QueryPlan` and `Query` with the answer of a query as their reference,
`Statements` with the meaning of a statement, and `Catalog`; then the proofs
about `BufferPool`, the types and counts of `LogRecovery`, the free list of
`RecordFile`, `Statements`, recovery itself (`AtomicAndDurable` and
`CheckpointSafe` of `LogRecovery`), `Catalog`, the free list that recovery
leaves behind (`FreePageExists`), and that recovery does not fail but for the
reasons named (`RecoverySucceeds`).

Next, in this order:

1. The nodes of the catalogs' indexes in `Catalog`, from `Index`: what a tree torn
   by a crash still shows, and their header at a crash.
2. `Statements` beyond a statement that has left its files open: what later ones
   read from the pages written so far.

## 3. The modules

| module | models | what it is compared with |
|---|---|---|
| `RecordPage` | one data page: the edits of `InsertRec`, `DeleteRec`, `UpdateRec`, `InsertRecAtRid` and what they do to count, link and free list; shared by `RecordFile`, `LogRecovery` and `Catalog` | |
| `RecordFile` | a record file with its handle and a scan (`rm_*.cc`) | `RecordStore`, refined |
| `LogRecovery` | the log, transactions, rollback, recovery, checkpoint and one logged relation over a disk (`lg_manager.cc`, and the logging paths of RM, QL, SM and PF) | the history variable `goals` |
| `BufferPool` | the buffer manager (`pf_buffermgr.cc`, `pf_hashtable.cc`) | `PageStore`, refined |
| `IndexOrder` | the order of keys and the conditions of scans (`comp.cc`, `ix_indexscan.cc`) | |
| `Index` | an index file with its handle and a scan, on the pages PF allocates and disposes of (`ix_*.cc`, `pf_filehandle.cc`) | `IndexStore`, refined |
| `QueryPlan` | validation and the trees of operators (`ql_manager.cc`, constructors of `ql_node.cc`) | |
| `Query` | `Select` in the sessions of a database: the operators' `GetNext` and the temporary files of joins | `Answer`, a definition without plans |
| `Statements` | `Insert`, `Load`, `Delete`, `Update` with transactions, indexes and the count of tuples, beside joins and another relation | `Meaning`, and the relation at the last commit |
| `Catalog` | create and drop of tables and indexes over `relcat` and `attrcat`, with crashes between any two steps (`sm_manager.cc`) | `declared` and `indexed`, what finished statements asked for |
| `MC...` | instances for TLC | |
| `RecordPageProofs`, `RecordFileProofs`, `BufferPoolProofs`, `LogRecoveryProofs`, `LogTypeProofs`, `RecoveryProofs`, `StatementsProofs`, `CatalogProofs` | proofs | |

How the modules fit together. `Statements` and `Query` use `Index` through what
it promises (an index is a set of entries and a scan returns those that match)
and record files through `RecordStore`; `Query` and `Statements` share the
trees of `QueryPlan`. `Statements` takes from `LogRecovery` that undoing a
record restores the tuple and that the *first* crash on a log is recovered
from, and adds what `LogRecovery` leaves out: records of several files, some of
which are gone. `LogRecovery` takes the write-ahead rule and the writing of
pages at any time from `BufferPool`. `Catalog` stores its records in pages of
`RecordPage`.

Where the model of one part meets a state that only the pages of another could
describe, it ends there, in a named state (section 4, deadlock).

The definitions named `...` after a comment "Mutant:" are never used by a
specification: each is a definition of the model with a plausible mistake in
it, kept beside the definition it spoils to show that some property notices.

### RecordFile

| state | code |
|---|---|
| `valid`, `firstFree`, `hdrModified` | `RM_FileHandle::valid_`, `hdr_.firstFree`, `hdrModified_` |
| `savedFirst` | `firstFree` in the header page |
| `numPages`, `page` | data pages, numbered from 1; `num`, `next`, `rec` of a page are `numRecords`, `nextFree`, bitmap and slots |
| `scan`, `owed` | an `RM_FileScan`; `owed` is history: what the scan must still return |

One action per operation: `InsertRec` (two disjuncts: new page, free page),
`DeleteRec`, `UpdateRec`, `OpenScan`, `GetNextRec`, `CloseScan`, `CloseFile`,
`OpenFile`. Records are deleted and updated through RIDs that exist, as by
every caller. It is the file the unlogged catalogs are kept in, and what a
relation is between crashes and rollbacks. `GetNextRec` is one step to the next
match, not one per slot: between two calls nothing else runs.

### LogRecovery

A disk (`logDisk`, `relDisk` and the two PF headers and the RM header on it)
and a process that sees the files through the pool (`log`, `rel`, ...); a page
is dirty when the two differ. Any dirty data page may be written at any time,
which stands for eviction from a pool shared with everything else, but only
when the log is on disk (`LogFirst`). Log pages may be evicted when unpinned
and are forced after the header. Long calls are broken up at their writes by
`pc`: `open`, `closing`, `tocommit`, `committing`, `aborting`, `undo`,
`ending`, `redo`, and the ends `failed` (the database does not open) and
`wedged` (an error left a transaction, a pin or a file open; the session goes on
in the code, but its later requests are not modelled, only the writes of its
pages and its crash). Between any two
steps `Crash` may happen: memory is lost, the process starts and `CreateLog`
finds the old log. `CloseFile` of a relation runs in `closing`; undo and redo
open and close the file for each record and so pass through it too.

An LSN is a log page and a position on it rather than a byte offset. A page
holds `LogPageCap` records. The `lsn` of a page has a companion `era`, the
number of the log it comes from, which the code does not have: properties use
it to say whose LSN it is, and no guard of an action reads it except to record
history (`skipped`).

Things the code does that are in the model as they are:

- LSNs start at 0.0 in each log, and 0.0 is also what a fresh page reads as.
- After a recovery `lastRec` is unset and the old log stays: new records go on
  a new page and are not linked to the old ones.
- `InsertRecAtRid` sets the slot but neither counts it nor takes the page off
  the free list; so after a rolled back DELETE a full page may be offered to
  `InsertRec`, which finds no slot, but counts the page up, takes it off the
  list when that makes it full, and logs a record of an invalid RID before
  `UpdatePageLSN` fails (`InsertInFullPage`). That page stays pinned (`held`), so
  it never reaches the disk; all others' counts drift downwards only.
- `Undo` stamps a page before `GetRec` finds that the record to be restored is
  gone (`StampOnly`).
- A log page goes to disk in full, so a crash loses the records logged last on
  it, however many; it finds a file torn only if the header does not count a
  page yet or a page was never written (`Growing`, kept in `torn` until there is
  a new log).
- After a crash a file has the pages its PF header counts, whichever of them
  were written: one that was not reads as zeros, and one beyond the count is
  seen again when the count passes it. A free list that leads to the former
  makes `InsertRec` fail (`InsertInLostPage`); `FreePageExists` says that
  needs a log that was recovered from and written to again (`reused`).
- The compensation record of an update has no room for its image. `Garbage` is
  what redo then copies into the record. (`InsertLogRec` copies the image
  nevertheless, past the end of its buffer; what else that overwrites is not
  modelled.)
- Recovery leaves log page 0 pinned, so a checkpoint after it does not get
  through (`CheckpointBreaks`), or, when no record has been logged since,
  unpins whatever page number its uninitialised variable holds.
- `currXID` is whatever memory holds while recovery logs its compensation
  records (`StrayXids`).
- `CloseDb` destroys the log, with an open transaction's records in it. A
  transaction left open at `CloseDb` therefore stays in the relation;
  `CheckpointSafe` says that the disk then has it, and of everything it has not
  changed what committed, and the properties take the contents at that point as
  the new starting point.

### BufferPool

`bufTable`, `used`, `free`, `hash` as in the code, the lists as sequences and
the chained hash table as a function; `disk` is the files and `given`, history,
what callers last put in each page. One action per operation; `GetPage` is split
by whether the page is in the pool, is read, or cannot be read. A write of a
page of another file writes the dirty pages of the log as well (`Written`).
`ClearBuffer` may come between any two calls; `lost` holds the pages whose
changes it dropped, until they are written again. Its comment announces an
error when a page is pinned; the code passes such pages over and returns 0. A
page that was dropped before it was ever written can no longer be read, and the
attempt costs another page its frame (`GetPageFails`).

### Index

| state | code |
|---|---|
| `ix` | pages of the file (`node`), PF's list of disposed pages (`free`), `IX_FileHdr.rootPage` and `leftmostLeaf` |
| `numKeys`, `hdrModified`, `hdrPage` | `IX_FileHdr.numKeys`, `hdrModified_`; the header page, from which `OpenIndex` takes `numKeys`, `rootPage` and `leftmostLeaf` |
| `handle`, `pinned` | the handle is open, closed, or `stuck` after a close that failed; pages an error left pinned |
| `scan` | an `IX_IndexScan` with its place in a leaf; `owed`, `got`, `astray` are history |
| `given`, `nonLeafSplit`, `hidden` | history: what calls that returned 0 made of the entries; damage done |

An insertion or deletion is one action, since nothing runs between its page
accesses; the recursion to the leaf and back is a function over the path
(`Path`, `Unwind`). The scan is a separate actor: between two of its calls the
caller deletes what it was given, which may move entries in the leaf, empty it
and dispose of it. Faithful oddities:

- When a non-leaf splits (`SplitNonLeaf`), its parent gets the key that came up
  from below instead of the middle key, a new root the first key of the new
  node, and the middle key is written over that first key: searches go wrong
  from then on. Properties about searching hold until `nonLeafSplit`;
  `LeavesHoldEntries` holds beyond.
- A full leaf is split before the entry is found to be there already; the error
  return keeps the parent from hearing of the new leaf (`hidden` = "leaf") and
  leaves pages pinned, for which `CloseIndex` then fails.
- `DisposePage` refuses a page that is pinned, so a later deletion may leave an
  empty node in the tree (`hidden` = "stub").
- `leftmostLeaf` is not set by `CreateIndex` and not changed when that leaf is
  disposed of. A scan that starts there (no condition, `<`, `<=`) is `astray`;
  a scan of an index without entries follows a pointer that nothing has set and
  fails, or searches without end when the pointer is to the root itself ("bad"
  stands for both).

### QueryPlan and Query

| state | code |
|---|---|
| `tables` | the relations; not changed by a query |
| `temp`, `nextJoinID` | the files of joins on disk; `qJoin::nextJoinID`, static, 0 in a new process |
| `query`, `exec` | the query and its tree with the state of each node between two calls of the root's `GetNext` |
| `printed`, `rc` | the rows printed, as a bag; what `Select` returned |
| `excused` | history: numbers of joins that nothing closes |

`QueryPlan` is the code's way to a tree: the first usable index, conditions
used up one by one, branches joined in the order of a queue. `Answer` says what
the query means without any of it: combinations of records that meet every
condition, counted. The model keeps what a session leaves for the next: a join
whose left operand is empty returns the end from `Begin`, which does not
destroy the temporary file; so does a query that fails or is cut short; and a
later session's join of the same number then fails to create its file. An
index is chosen for `<>`, which an index scan refuses.

### Statements

| state | code |
|---|---|
| `rel`, `index`, `numTuples` | the relation, its indexes, the count in `relcat` |
| `xact`, `undo`, `logged` | `bInTransaction` and who began it; the records of the transaction; `dirtyFiles` and the files that records of the log name |
| `files`, `db` | which files exist; open, down, recovered, without a log, lost, or with a torn index |
| `disk` | what is surely on disk: the versions of the relation that its pages may have there, and the indexes as last closed |
| `leaked` | a statement has stopped and left its files open with changes |
| `stmt` | the statement in execution, down to single records and index entries |
| `committed`, `forgotten`, `suspect`, `miscount`, `done` | history |

A crash or, between statements, a rollback may come anywhere. Each opening of a
file has buffers of its own (`pf_manager.cc`), written when the file is closed
or, one by one, whenever the pool needs a frame. `Insert` closes the relation
and each index at once, `Load` the relation at its end; `qDelete` and `qUpdate`
have the relation and all indexes open to the end of the plan, and so any part
of their changes may be on disk at a crash (`IndexesOnDisk`). A plan that stops,
and a `Load` or `Insert` that returns with an error, closes nothing: the changes
are then seen by nobody who opens the files later (`leaked`), `Checkpoint`, which
opens them anew, does not force them and yet discards their log, and after the
end of the session, or after a crash that follows the checkpoint, each place of
the relation has its tuple of one of the versions (`TableOnDisk`, `forgotten`).
What later statements would read meanwhile depends on the pages written so far;
after a leak only `CommitT`, `AbortT`, `Checkpoint`, crashes and the end of the
session are modelled, and after a `Load` that stopped not `AbortT` either. An
index of which a crash, an exit or a refused duplicate may have left a half done
split is `torn`, where the model ends. What the code
does, as it is: undo restores records and nothing else, so index entries and
the count of an undone statement stay (`suspect`, `miscount`); `Delete` and
`Update` commit and return 0 whatever stopped their plan; `Insert` and `Load`
return at once when an index refuses an entry or `InsertRec` fails on a full
page (`AddFails`; `LogRecovery` has the pages, here any earlier undoing, crash or
error may have led to one), and the transaction they began stays open and is
taken for the user's; a join inside a transaction logs the records of its
temporary file, and rollback, recovery and checkpoint stop with an error at a
record whose file is gone.

### Catalog

| state | code |
|---|---|
| `mem`, `disk` | `relcat`, `attrcat` (pages and header) and their indexes, as the open handles and the pool have them, and as written |
| `dirty` | the indexes changed since they were last forced |
| `files` | files of relations (`<<rel>>`), indexes (`<<rel, n>>`) and the log |
| `stmt` | what the statement has still to do, in the order of the code |
| `db` | "corrupt" after a write outside the slots of a page or an insertion on a page never written, "lost" when recovery has taken a relation for the log, "torn" when the tree of an index may be |
| `declared`, `indexed`, `broken`, `failed`, `dropped`, `headers` | history |

A statement is a sequence of small steps fixed when it begins, because the code
reads all it needs first; a step may fail, which ends the statement and undoes
nothing. Pages go to disk one by one, in a force (whose end is `ForcePages`) or
when the buffer needs a frame (`Write`), and the number of pages, in the header,
before a page that is new: one not written yet is a `Hole`. Of an index the
model has the entries and not the nodes, so a crash finds any subset of the
changed entries on disk, and, if the index was `dirty`, maybe a tree torn in a
split, where the model ends. That is a superset of what pages can hold: entries
on one page are in fact written together. `Write` is offered as long as a
crash, or an exit without a log, may still come to see what it did. `Exit` is
`CloseDb` up to any of its four closes. In the model as in the code: `ForcePages` does
not write the header of a record file, so the start of the free list on disk
may be old after a crash and lead `InsertRec` to a full page; `CreateIndex` and
`DropIndex` change files before the catalogs, and a crash between leaves an
index nobody knows, or a known one without file, on which later statements on
that relation fail; a relation may have the name of the log, and dropping it
destroys the log; after a drop new attributes may be put before others, so that
the order in `attrcat` is no longer that of the declaration.

## 4. The runs

Passing:

| run | instance | shows |
|---|---|---|
| `RecordFile` | 2 pages of 2 slots, 2 values, one scan; 30 thousand states | counts, free list (complete: no page lost, none listed that is full), scans complete and finite, implements `RecordStore` |
| `LogCrash` | 1 page of 1 slot, 2 values, load/update/delete, 2 transactions, 2 crashes; 0.8 million | `TypeOK`, `AtomicAndDurable`, `RecoverySucceeds`, `LogChain` |
| `LogReset` | 2 pages of 2 slots, load/delete, 2 logs, 2 crashes, 1 transaction between recoveries; 2.5 million | `WALRule`, `FreePageExists`, `NumRecordsNeverOver`, `CheckpointSafe` over two logs |
| `LogLive` | insert/delete/update, 1 transaction, 2 crashes, stray `currXID`; 39 thousand | `CallsReturn` |
| `BufferPool` | 2 frames, 3 pages, at most 2 of them of the log or of another file, 2 contents, 2 pins; 0.3 million, with deadlock checked | lists, table and frames agree; no change lost but by `ClearBuffer`; log before data; implements `PageStore` |
| `Index` | 6 entries, leaves of 2, non-leaves of 3, 7 calls of which 1 wrong, a scan by each operator; 2.4 million | entries never lost and counted, also when closed and opened; searches right until a non-leaf splits; pages accounted for; scans complete while their caller deletes; implements `IndexStore` |
| `Query` | 14 queries on 12 databases, 3 in a row, 2 sessions; 20 thousand | what is printed is the answer; errors and leftover files only for the reasons named |
| `Statements` | 2 indexes, 3 records, 2 loads, 6 changes, 3 statements, 2 crashes or aborts; 1.7 million | statements do what they mean; indexes, count and relation part only where undoing, errors or files left open part them; nothing uncommitted stays; a log is discarded only with the relation on disk |
| `Catalog` | names `t`, `u`, `log`, 2 records to a page, 4 statements, 1 crash between any two pages written; 4.7 million | finished statements survive, interrupted ones harm their own relation only |

Runs that show a disagreement between the code and what it says of itself (each
checks one property and finds it violated; PROJECT.json "findings" has the
places):

| run | property | what happens |
|---|---|---|
| `SecondCrash` | `RecoveryConsistent` | what was logged after a first recovery is invisible to the second |
| `IndexSplit` | `SearchFindsAlways` | the key a split of a non-leaf hands up is not the middle one: an entry that is in its leaf is not found |
| `StatementsAbort` | `AbortDiscards` | a join inside the transaction makes its rollback stop halfway |

The passing properties are stated on the other side of these and of other
disagreements that have no run of their own; each is a named exception, so the
properties also say that there is no further one on the instances checked:

- Recovery holds for the first recovery on a log (`fresh`), but for the records
  redo passed over since a page carried the LSN of an earlier log (`skipped`)
  and the bytes of `Garbage`, the image that the compensation record of an
  update lacks, and unless a process that died left pages in a file that the
  file's header does not count (`leftover`): a later process that extends the
  file makes them part of it again. For the relation that is a page of a log
  long gone; for the log, pages written before its header, which the new log
  then continues in. The proof of `AtomicAndDurable` came upon both; they need
  more crashes and pages than the instances have. `RecoverySucceeds` has the
  same exception for `leftover`. Recovery fails only when, since the log was
  created, a crash has come between the writes that add a page to a file, its
  header and the page (`torn`), after an insertion into
  a full page (`InsertInFullPage`), or when an update of a record that an
  interrupted rollback already removed is to be undone (`UpdateOfOwnInsert`).
- `CheckpointSafe` excepts, besides `skipped` and `Garbage`, the records that a
  transaction open at `CloseDb` has logged a change of (`TouchedByOpen`): those
  hold what that transaction made of them. `NumRecordsNeverOver` excepts the page
  that an error left pinned (`held`).
- `Index`: `Sound` and `astray`, and `hidden` for what counts and searches see of
  a node that could not be disposed of. `Query`: `excused`, and the errors of
  `FailsOnly`. `Statements`: `suspect`, `miscount` and `forgotten`. `Catalog`:
  `broken`, a stale header, and the relation named as the log, any statement on
  which may fail.
- `CheckpointWrites` excepts a log that is discarded after a deletion, update or
  load has stopped and left its files open (`leaked`): `Checkpoint` opens each
  file anew and forces the pages of that opening, of which the stopped statement
  changed none, and its log is gone, contrary to the comment at
  `lg_manager.cc:294`.
- `FreePageExists` holds until a recovered log is written to (`reused`): a
  second recovery does not see the new records and so does not stop at a page
  that was lost.

Bounds. `MaxLog` bounds the log records after which no new operation starts
(ends of transactions and compensation records come on top), `MaxXid` the
transactions per log, `MaxCrashes` crashes, `MaxEras` logs, `MaxPages` pages,
`MaxPins` pins per page. Two of each thing is where the effects live: two
records on a page make it full, not full and empty; two pages make a free list
with a link; two records to a log page make a chain within and across pages;
two crashes make an interrupted recovery; two logs make stale LSNs; two frames
for three pages (`ThreePages`) make the third allocation, and each read after it, an eviction. `LogCrash`
has one slot per page so that its longer histories stay checkable, `LogReset`
two slots and one value. Record values are symmetric in `LogCrash`.

`Index` bounds calls (`MaxCalls`) and wrong calls (`MaxErrors`): the smallest
capacities the split code is written for, 2 keys to a leaf and 3 to a non-leaf,
make a leaf split at the third insertion and a non-leaf at the sixth, so seven
calls reach the splits at each level, removals that dispose of a leaf, and reuse
of disposed pages. The disposal of a leaf's parent needs at least eight, the six
insertions that put a non-leaf below the root and the removal of what is under
it, and is not reached; three entries of one value and two of
another make equal values lie on two leaves. `Query` bounds queries and
sessions; three in a row are a failing one, one that leaves a file and one that
meets it. The contents include duplicates and empty relations, the queries each
access method, joins of two and three relations, and every error. `Statements`
bounds statements and rollbacks (`MaxStatements`, `MaxRollbacks`); three
statements fill the relation, change it through an index and meet what a
rollback left, and two crashes or aborts let one undo what the other left
behind. `Catalog` bounds statements and crashes; create, index, drop and
create again are four, and two records to a page make the free lists of both
catalogs change within them. `Names \ {LogFile}` are symmetric: the invariants
treat them alike and no definition chooses one.

Fairness. `RecordFile`: weak fairness of `GetNextRec` alone, since a caller
that opened a scan asks until it ends (all of QL and SM do); insertions are
unrestricted, so `ScanEnds` does not lean on them stopping. `LogLive`: weak
fairness of the steps of a call in progress and of writes, since the one thread
waits for nothing but the disk; new requests and crashes are not fair. The other
specifications are safety only: their calls are single steps or finite lists of
them.

Deadlock is off where the system may stop: a record file that is full and has
nothing to do is still live, but bounds on the log and on transactions make an
idle database stop in `LogRecovery`, as `failed` and `wedged` do. So do the
bounds on calls, queries and statements in `Index`, `Query`, `Statements` and
`Catalog`, and their ends "stuck" (a handle that cannot be closed), "lost" (a
database that does not open), "corrupt" (a catalog page overwritten) and "torn"
(an index with half a split on disk).

## 5. The proofs

`RecordFileProofs` proves, for every page capacity, set of values and number
of pages, from `PageAssumption` (at least one slot; the empty mark is no value)
and `MaxPagesAssumption` (a natural number):

- `InvHolds`: `Spec => []Inv`
- `TypeCorrect`, `CountsExact`, `FreePageFound`, `ScansComplete`: the run's
  properties `TypeOK`, `NumRecordsExact`, `FreePageHasRoom`, `ScanComplete`
- `FreeListReachesRoom`: the property `FreeListComplete`
- `FileImplementsStore`: `Spec => ImplementsRecordStore`, the refinement

The properties are not inductive. That a free page has room needs that the
*next* page on the list has room when the head fills, hence a statement about
every link (`FreeListShape`): full pages are marked and nothing links to them,
and no page is linked to twice, since otherwise a page that fills would leave
a second link to it behind. It is stated on counts; that a count below the
capacity means an empty slot is `NumRecordsExact` and a fact about cardinality
(`CountTests` in `RecordPageProofs`). That a scan is complete needs that
everything it owes lies ahead of its position (`ScanOwes`), and deleting a
record keeps that only because the count of the page does not reach 0 while
another record is on it: `NumRecordsExact` again. That every page with room is
on the list is reachability along the links; it is stated by the sets that are
closed under them (`FollowsList`): each that has the head of the list has every
page with room (`Reached`), which needs no counting of steps. `HeaderKept` carries the
list's head across `CloseFile` and `OpenFile`. There is one lemma per action,
with one step per conjunct, and `NextInv` puts them together. The refinement
uses `Inv` to know that the slot an insertion takes was free and that each edit
touches one slot of one page.

`RecordPageProofs` has the lemmas on a single page; they do not depend on the
other fields of a page, so they apply to logged pages too.

`LogRecoveryProofs` proves, for every page capacity, number of pages, records,
transactions, crashes and logs, from the assumptions of `LogRecovery` (the
bounds are natural numbers; statements are of the four kinds):

- `WriteAhead`: `Spec => []WALRule`, through `LogInvHolds`
- `ChainHolds`: `Spec => []LogChain`, through `ChainInvHolds`

`WALRule` is about the disk alone and a page is written to disk with the stamp
it has in the pool, so the invariant `LogInv` adds that stamps of this log name
records of it (`StampLogged`), also in the pool, that none is of a log yet to
come (`Stamps`, which is what makes starting a new log harmless here and the
stale stamps of `skipped` possible), and that the next record is newer than
every other (`LastNewest`): a record logged later is then no earlier record of
any page. After a crash the log *is* the log on disk, and `WALRule` itself gives
`StampLogged` back. `LogChain` needs to know when records are logged outside the
chain, namely in recovery, and that a transaction which begins on a log with
records that `lastRec` does not know of is on one that is no longer `fresh`
(`ChainInv`). `LogInv` and `ChainInv` were checked with TLC on the instances of
`LogReset` and `LogCrash` before they were proved.

`LogTypeProofs` builds on both and proves `TypeCorrect` (`TypeOK`) and
`CountNeverOver` (`NumRecordsNeverOver`) through `TypeInvHolds`. That an LSN
which recovery follows leads to a record is needed even for the types: the
compensation record is made from what is found there. The invariant says that
the chain backwards from `lastRec`, and from where `Undo` is, stays among the
records there are (`UndoTrail`, by a closed set again), that `Redo` has found
every record up to where it is (`RedoReached`), and that a record that is
written back has an image (`Imaged`).

`RecoveryProofs` builds on these and proves, from the same assumptions:

- `AtomicHolds`: `Spec => []AtomicAndDurable`, through `AtomicInvHolds`
- `CheckpointHolds`: `Spec => CheckpointSafe`
- `FreePageHolds`: `Spec => []FreePageExists`, through `FreeInvHolds`
- `SuccessHolds`: `Spec => []RecoverySucceeds`, through `RestartInvHolds`

What the relation holds after a crash depends on which pages were written, and
what recovery makes of it on the whole log, so an invariant on the variables
alone would have to compute with logs. Instead `AtomicInv` says that there is a
*history* `H`: for each record, the contents of the relation once it was
applied, the records of the relation its transaction had then open, and what
the transaction is to be rolled back to. `Means` says what it is for `H` to fit
a record; it is local (a record and the ones its `prev` and `undonext` lead
to), so appending a record extends `H` at one place and a crash only forgets
the end.

- In a normal run (`Normal`): `H` fits the log in the pool, the contents after
  `lastRec` are those of the relation, each page holds the contents after the
  record that stamped it (or from before the log), and the record and all before
  it are on disk when the page is (`Durable`). Rolling back to any record since
  the last commit on disk leads to a member of `goals`. `Undo` on behalf of
  `AbortT` has restored the contents after the record it is at (`NormalUndo`).
- From a crash to the next transaction (`Recovery`): the log on disk ends at one
  record `z` (`Ends`; no record past it can be reached, and those recovery logs
  are not linked to it, which is why a crash during recovery finds the same
  `z` again). `Redo` has brought the pages up to its record (`RecoveryRedo`), so
  that they hold the contents at `z` when it ends (`RedoneAll`); a page stamped
  by an interrupted recovery holds, but for records open at `z`, what will be
  rolled back to (`AtRest`). `Undo` leaves open what is open at its record
  (`RecoveryUndo`), and at the end nothing (`RecoveryDone`).

There is a lemma per action for each of the two (`...Normal`, `Restart...`) and
one for each way between them: a crash leads from `Normal` to `Recovery`
(`NormalCrash`) unless the log has no page yet (`EmptyCrash`), `Checkpoint` and
`CloseDb` lead back (`NewLogNormal`). `AtomicInv` quantifies over functions and
has no instance for TLC to enumerate; what it implies is checked by `LogCrash`
and `LogReset`. `CheckpointSafe` follows from it and from the relation being on
disk whenever it is closed (`ClosedInv`).

`FreePageExists` says that `InsertRec` is not led to a page that does not exist.
In a normal run that is simple: the list is threaded through the pages of the
relation (`Threaded`). What a crash leaves is not: header and pages are written
at any time, so the list on disk may lead to a page whose allocation never
reached the disk. `NormalFree` therefore says of each page the list on disk
leads to that it is on disk, or that the log on disk is certain to lead `Redo`
to a change of it (`Saved`): whoever threaded it had logged the change, and a
page is written only after its record. After a crash, either no page of the list
is missing (`Whole`), which `Redo` and `Undo` preserve, or `Redo` comes to a
record of a page it cannot read before it is over, in this recovery and in every
later one (`Doomed`), so that no transaction ever uses the list. `FreeInv` was
checked with TLC on the instance of `LogReset` before it was proved.

`RecoverySucceeds` says why `Redo` and `Undo` may fail. Both read the page a
record tells of, and for an update the record of the relation that is there.
`RestartInv` is about logs on which no crash has come between the writes that add
a page (`torn`). Before such a crash (`NormalRestart`) every page the log tells
of is there (`Located`), and the log pages on disk are whole (`LogWhole`): a page
is written with all its records, so what the disk lacks is what was logged
last. The crash therefore finds a chain that ends at one record `z`, the first
whose successor is missing or whose link was not set yet, and pages of the
relation that no record past `z` had stamped, since the log goes first. From
then on (`RestartAt`) the pages of the records up to `z` are there
(`RecoveryLocated`). That the record of the relation is, `RestartInv` shows in
two ways. Where `Redo` may go by an LSN of an earlier log (`Stale`), the log up
to `z` does nothing but update the record, which is then there in memory and on
disk all the time (`RecoveryStale`): a statement only inserts, only deletes or
only updates, and forces the relation when it closes it, so that kinds differ
only if the page was forced in between and carries an LSN of this log
(`NormalStale`). Otherwise the page has what the history says, at `Redo` by
`RecoveryRedo` and at `Undo` by `Retained`: `Base` is not enough there, because
it says what `Undo` leads to and not what it finds on the way. A page on which an
interrupted recovery has undone something must still have each record that was
there at `z`, unless the transaction being undone inserted it (`OwnInsert`); an
update of such a record is the case `UpdateOfOwnInsert` that the property
excepts. The parts of `RestartInv` that do not mention a history were checked
with TLC on smaller instances of `LogCrash` and `LogReset` before they were
proved.

`BufferPoolProofs` proves, for any number of frames, pages and contents:
`TypeCorrect`, `FramesPartitioned`, `HashExact`, `PagesCoherent` (the invariants
of the run), `PinnedPagesStay` and `LogReachesDiskFirst` (its action
properties), and `PoolImplementsStore`, the refinement of `PageStore`. The
invariants are inductive together (`InvHolds`) with `PagesKnown`: an eviction
writes the right page only because no page has two frames, and a page that is
allocated has no frame yet only because every page in the pool or on disk was
allocated before. The lists are sequences edited by removing frames
(`Unlinked`); the lemmas about them count positions (`RankIsBijective`).

`StatementsProofs` proves, for every schema, relation, set of loads and of
changes, from `SchemaAssumption` (no two attributes share a place or an index)
and `StatementsAssumption` (tuples have the attributes, an update names existing
ones):

- `RollbacksComplete`: `RolledBack`
- `IndexesFollow`: `IndexesExceptSuspect`
- `StatementsExact`: `StatementExact`
- `CountsExact`: `CountExact`
- `CheckpointsWrite`: `CheckpointWrites`, from `DiskOK`

`RolledBack` is about the end of a transaction, so the invariant says of every
moment in it that undoing its records would give the relation of the last commit
(`Kept`), but at places `forgotten`. Undoing is a fold; what is needed of it (the record logged last is
undone first; undoing behind and then up to a position undoes all) is proved by
induction over positions, in the form of a least counterexample. `Excused` says
of the indexes what they may differ from the relation in while a statement runs
or after a crash, and `InProgress` that whatever a statement has changed is in
the log, so that undoing it makes no difference that is not suspect. `DiskOK` says
when memory and disk are the same: between statements that left no file open, in
an insertion, and in a deletion or update that has changed nothing or has closed
its files; a crash at any other moment makes what differs suspect, or, when the
log does not have it, `forgotten`.
`StatementExact` compares the relation after a statement with its meaning for
the relation before. Plan and scan are proved to split the conditions without
losing one (`PlanOK`) and to return each tuple that meets the scan's condition
(`ScanExact`, from the agreement of index and relation and `InOrderOK`);
`Outcome` then says at every step that each tuple has been treated or is still
to come, once and unchanged. `CountOK` says what is still missing in the count.

`CatalogProofs` proves, for any names, declarations, page capacity and number
of statements, errors and crashes, from `CatalogConstants` (a page has a slot; a
declaration is a sequence of distinct attributes, as `CreateTable` requires; the
mark of an empty slot is no record):

- `CatalogInvariant`: `Spec => []Inv`
- `TablesStayIntact`: `Spec => []TablesIntact`
- `StatementsFailOnlyWhenBroken`: `Spec => []FailsOnlyWhenBroken`

`TablesIntact` is about the moments between statements; what a crash leaves
depends on how far a statement had come and on which pages of the four files
reached the disk by themselves. So `Inv` says of each relation that is not
`broken` one of two things. Outside its own statements it is `Settled`: catalogs,
indexes and files say what `declared` and `indexed` say, and for this relation
disk and memory are the same in all four files (`AgreeOn`), whatever single pages
are written, so that every mixture of them that a crash leaves says it too. During a statement it is as the first `k` items
of it leave it, for some `k`: `Creating`, `Dropping`, `Indexing` and
`Unindexing` give the items left (`CreatePlan` and so on), the records, entries
and files so far, and which files have been forced for this relation
(`FlushedUpTo`). The `k` need not be kept anywhere; each item leads from `k` to
`k + 1` (one lemma for each kind of item of each statement), and after the last
the relation is `Settled` again. That other relations stay `Settled` is one
lemma for each edit of a file, on what it says of a relation (`View`, `Effect`):
a step changes the view of the relation it names and of no other.

Two things about pages carry this. An insertion takes a slot that is free: the
free list leads to pages with room (`Shape`) until a crash, or an exit that closed nothing, brings back an older
header, when `headers` is "stale" and the files are only well formed (`Sane`).
And the attributes are found in the order of their declaration because RIDs
ascend (`Unlinked`, `InsertsAscend`): pages are filled one after another until
something is deleted, after which the properties no longer say so (`dropped`).
`LogOK` is about the relation with the name of the log, whose `CreateFile` fails
as long as the log exists. The parts of `Inv` that TLC can evaluate were checked
with it, with three statements, before it was proved.

Only model-checked: `ScanEnds` and `CallsReturn` (liveness), and everything about
`Index` and `Query`. The tree of `Index` is computed by recursion over data, and `Query` declares RECURSIVE
operators: what they compute for every input is out of the provers' reach.

## 6. Not modelled

- `ResizeBuffer`, a console command. With nothing pinned it is `ClearBuffer`
  with another number of frames; with pages pinned it enters each of them in
  the hash table under the same frame, without its contents, and frees that
  frame: nothing can be said of the pool after it. `PrintBuffer` and `PrintLog`
  change nothing; `AllocateBlock` and `DisposeBlock` are called by nothing.
- A file opened twice, page by page: the copies of its header and of its pages
  under two file descriptors (`pf_manager.cc`), and several handles of one index.
  `qDelete::Begin` and `qUpdate::Begin` open the relation and the indexes that
  the scan below them has open too, and files a stopped statement has left open
  are opened again. `Statements` has of this that a scan may return what has been
  deleted since it began, and what changes under an opening never closed come to
  (`leaked`, `disk`); statements on the relation after that are not modelled.
- A torn tree: what descents and scans find in an index of which a crash, or the
  refusal of a duplicate at a full leaf, left a split or a disposal half done.
  `Statements` and `Catalog` end there ("torn"). So is the header (root, leftmost
  leaf) of a catalog's index that a crash brings back.
- More than one logged relation on the level of pages; `Statements` has
  several files on the level of records.
- PF's walks over files with disposed pages (`GetNextPage` from a page that
  has been disposed of), which nothing makes.
- Failures of read and write calls, and single pages written in part.
- Text: scanning and parsing of commands, the layout of what is printed, plans
  as printed, `Help` and `Set`; statistics. None of it keeps state that another
  part reads. What each parsed command calls is in the next-state relations.
- Test drivers (`*_test*.cc`), which are more than half of the lines of the
  directory: they use the interfaces modelled here and are no part of the
  system. With the parser, the printer and the statistics they are
  why a good part of the source has no counterpart in the modules.
