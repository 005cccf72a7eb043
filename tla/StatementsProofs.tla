--------------------------- MODULE StatementsProofs ---------------------------
(***************************************************************************)
(* Proofs about Statements.  Undoing is a fold over the log, which the     *)
(* first part turns into facts about single records: undoing the record    *)
(* logged last, and undoing in two parts.  Inv says how the log, the       *)
(* relation and the indexes hang together while a statement is executed;   *)
(* ExactInv what the statement has done and has still to do.               *)
(***************************************************************************)
EXTENDS Statements, FiniteSetTheorems, SequenceTheorems, WellFoundedInduction,
        TLAPS

LEMMA LeastNatural ==
  ASSUME NEW T, T \subseteq Nat, T # {}
  PROVE  \E x \in T : \A y \in T : x <= y
<1> DEFINE Less == OpToRel(<, Nat)
<1>1. IsWellFoundedOn(Less, Nat)
  BY NatLessThanWellFounded
<1>2. \A x, y \in Nat : <<y, x>> \notin Less => x <= y
  BY DEF OpToRel
<1> HIDE DEF Less
<1>3. PICK x \in T : \A y \in T : ~(<<y, x>> \in Less)
  BY <1>1, WFMin
<1> QED
  BY <1>2, <1>3

(* Induction, for the members of a set. *)
LEMMA Induction ==
  ASSUME NEW T, 0 \in T, \A k \in Nat : k \in T => k + 1 \in T
  PROVE  Nat \subseteq T
<1> SUFFICES ASSUME Nat \ T # {}
             PROVE  FALSE
  OBVIOUS
<1>1. PICK x \in Nat \ T : \A y \in Nat \ T : x <= y
  BY LeastNatural
<1>2. x - 1 \in Nat /\ x - 1 \in T
  BY <1>1
<1>3. (x - 1) + 1 \in T
  BY <1>2
<1> QED
  BY <1>1, <1>3

LEMMA MinFound ==
  ASSUME NEW s, s \subseteq Nat, s # {}
  PROVE  Min(s) \in s /\ \A y \in s : Min(s) <= y
<1>1. \E x \in s : \A y \in s : x <= y
  BY LeastNatural
<1> QED
  BY <1>1 DEF Min

-------------------------------------------------------------------------------
(* Undoing the records u of a transaction, from the last back to the first. *)
Restored(u, t) == FoldRight(LAMBDA r, x : UndoOne(x, r), u, t)

(* FoldRight goes over sets of positions; the sets it comes to are the       *)
(* positions from i on, and Back is its value for them.                      *)
FoldStep(u, t, f, s) ==
  IF s = {} THEN t ELSE UndoOne(f[s \ {Min(s)}], u[Min(s)])
IsFold(u, t, f, D) == f = [s \in SUBSET D |-> FoldStep(u, t, f, s)]
Fold(u, t) == CHOOSE f : IsFold(u, t, f, DOMAIN u)
Back(u, t, i) == Fold(u, t)[i .. Len(u)]

(* A fold over fewer positions extends to one more in front of them.       *)
LEMMA FoldExtends ==
  ASSUME NEW u, NEW t, NEW m \in Nat, NEW n \in Nat, NEW g,
         IsFold(u, t, g, (m + 1) .. n)
  PROVE  \E f : IsFold(u, t, f, m .. n)
<1> DEFINE D == m .. n
           E == (m + 1) .. n
           f == [s \in SUBSET D |-> FoldStep(u, t, g, s)]
<1>1. E \subseteq D /\ D \subseteq Nat
  OBVIOUS
<1>2. ASSUME NEW s \in SUBSET D, s # {}
      PROVE  s \ {Min(s)} \in SUBSET E
  <2>1. Min(s) \in s /\ \A y \in s : Min(s) <= y
    BY <1>1, <1>2, MinFound
  <2>2. ASSUME NEW y \in s, y # Min(s)
        PROVE  y \in E
    <3>1. y \in D /\ Min(s) \in D /\ Min(s) <= y
      BY <2>1
    <3> QED
      BY <2>2, <3>1
  <2> QED
    BY <2>2
<1>3. \A s \in SUBSET E : g[s] = FoldStep(u, t, g, s)
  <2> HIDE DEF E
  <2> QED
    BY DEF IsFold, E
<1> HIDE DEF D, E
<1>4. \A s \in SUBSET E : f[s] = g[s]
  BY <1>1, <1>3
<1>5. \A s \in SUBSET D : FoldStep(u, t, g, s) = FoldStep(u, t, f, s)
  <2> HIDE DEF f
  <2> QED
    BY <1>2, <1>4 DEF FoldStep
<1>6. f = [s \in SUBSET D |-> FoldStep(u, t, f, s)]
  BY <1>5
<1> QED
  BY <1>6 DEF IsFold, D

LEMMA FoldExists ==
  ASSUME NEW S, NEW u \in Seq(S), NEW t
  PROVE  IsFold(u, t, Fold(u, t), 1 .. Len(u))
<1> DEFINE n == Len(u)
           T == {k \in Nat : k <= n => \E f : IsFold(u, t, f, (n + 1 - k) .. n)}
<1>1. n \in Nat /\ DOMAIN u = 1 .. n
  OBVIOUS
<1> HIDE DEF n
<1>2. 0 \in T
  <2> DEFINE f == [s \in SUBSET {} |-> t]
  <2>1. f = [s \in SUBSET {} |-> FoldStep(u, t, f, s)]
    BY DEF FoldStep
  <2>2. (n + 1 - 0) .. n = {}
    BY <1>1
  <2>3. IsFold(u, t, f, (n + 1 - 0) .. n)
    <3> HIDE DEF f
    <3> QED
      BY <2>1, <2>2 DEF IsFold
  <2> QED
    BY <2>3
<1>3. ASSUME NEW k \in Nat, k \in T
      PROVE  k + 1 \in T
  <2> SUFFICES ASSUME k + 1 <= n
               PROVE  \E f : IsFold(u, t, f, (n + 1 - (k + 1)) .. n)
    BY DEF T
  <2>1. PICK g : IsFold(u, t, g, (n + 1 - k) .. n)
    BY <1>1, <1>3
  <2>2. n - k \in Nat /\ n + 1 - k = (n - k) + 1 /\ n + 1 - (k + 1) = n - k
    BY <1>1
  <2> QED
    BY <1>1, <2>1, <2>2, FoldExtends
<1>4. n \in T
  <2> HIDE DEF T
  <2> QED
    BY <1>1, <1>2, <1>3, Induction
<1>5. (n + 1 - n) .. n = 1 .. n
  BY <1>1
<1>6. \E f : IsFold(u, t, f, DOMAIN u)
  BY <1>1, <1>4, <1>5
<1>7. IsFold(u, t, Fold(u, t), DOMAIN u)
  BY <1>6 DEF Fold
<1> QED
  BY <1>1, <1>7 DEF n

LEMMA RestoredIsFold ==
  ASSUME NEW S, NEW u \in Seq(S), NEW t
  PROVE  Restored(u, t) = Back(u, t, 1)
<1>1. Restored(u, t) = Fold(u, t)[DOMAIN u]
  BY DEF Restored, FoldRight, MapThenFoldSet, Fold, FoldStep, IsFold
<1>2. DOMAIN u = 1 .. Len(u)
  OBVIOUS
<1> QED
  BY <1>1, <1>2 DEF Back

LEMMA BackStep ==
  ASSUME NEW S, NEW u \in Seq(S), NEW t
  PROVE  /\ Back(u, t, Len(u) + 1) = t
         /\ \A i \in 1 .. Len(u) : Back(u, t, i) = UndoOne(Back(u, t, i + 1), u[i])
<1> DEFINE n == Len(u)
           f == Fold(u, t)
<1>1. n \in Nat /\ DOMAIN u = 1 .. n
  OBVIOUS
<1>2. \A s \in SUBSET (1 .. n) : f[s] = FoldStep(u, t, f, s)
  <2>1. f = [s \in SUBSET (1 .. n) |-> FoldStep(u, t, f, s)]
    BY FoldExists DEF IsFold
  <2> HIDE DEF f, n
  <2> QED
    BY <2>1
<1>3. Back(u, t, n + 1) = t
  <2>1. (n + 1) .. n = {}
    BY <1>1
  <2>2. f[{}] = t
    <3> HIDE DEF f, n
    <3> QED
      BY <1>2 DEF FoldStep
  <2> QED
    BY <2>1, <2>2 DEF Back
<1>4. ASSUME NEW i \in 1 .. n
      PROVE  Back(u, t, i) = UndoOne(Back(u, t, i + 1), u[i])
  <2>1. i .. n \in SUBSET (1 .. n) /\ i \in i .. n
    BY <1>1
  <2>2. Min(i .. n) = i
    <3>1. Min(i .. n) \in i .. n /\ \A y \in i .. n : Min(i .. n) <= y
      BY <1>1, <2>1, MinFound
    <3> QED
      BY <2>1, <3>1
  <2>3. (i .. n) \ {i} = (i + 1) .. n
    BY <1>1
  <2>4. f[i .. n] = UndoOne(f[(i + 1) .. n], u[i])
    <3> HIDE DEF f, n
    <3> QED
      BY <1>2, <2>1, <2>2, <2>3 DEF FoldStep
  <2> QED
    BY <2>4 DEF Back
<1> QED
  BY <1>3, <1>4

(* Two folds whose records agree from some position on and that start from *)
(* the same table behind it agree from that position on.                   *)
LEMMA BackAgree ==
  ASSUME NEW S, NEW u \in Seq(S), NEW w \in Seq(S), NEW d \in Nat, NEW t, NEW x,
         Len(w) + d <= Len(u),
         \A i \in 1 .. Len(w) : w[i] = u[i + d],
         Back(u, t, Len(w) + 1 + d) = x
  PROVE  Restored(w, x) = Back(u, t, 1 + d)
<1> DEFINE n == Len(w)
           T == {k \in Nat : k <= n => Back(w, x, n + 1 - k) = Back(u, t, n + 1 - k + d)}
<1>1. n \in Nat /\ Len(u) \in Nat
  OBVIOUS
<1>2. /\ Back(w, x, n + 1) = x
      /\ \A i \in 1 .. n : Back(w, x, i) = UndoOne(Back(w, x, i + 1), w[i])
  BY BackStep
<1>3. \A i \in 1 .. Len(u) : Back(u, t, i) = UndoOne(Back(u, t, i + 1), u[i])
  BY BackStep
<1>4. /\ n + d <= Len(u)
      /\ \A i \in 1 .. n : w[i] = u[i + d]
      /\ Back(u, t, n + 1 + d) = x
  OBVIOUS
<1> HIDE DEF n
<1>5. 0 \in T
  BY <1>1, <1>2, <1>4
<1>6. ASSUME NEW k \in Nat, k \in T
      PROVE  k + 1 \in T
  <2> SUFFICES ASSUME k + 1 <= n
               PROVE  Back(w, x, n + 1 - (k + 1)) = Back(u, t, n + 1 - (k + 1) + d)
    BY DEF T
  <2> DEFINE i == n - k
  <2>1. /\ i \in 1 .. n /\ i + d \in 1 .. Len(u)
        /\ n + 1 - (k + 1) = i /\ n + 1 - (k + 1) + d = i + d
        /\ n + 1 - k = i + 1 /\ n + 1 - k + d = (i + d) + 1
    BY <1>1, <1>4
  <2>2. Back(w, x, i + 1) = Back(u, t, (i + d) + 1)
    <3>1. k <= n
      BY <1>1
    <3>2. Back(w, x, n + 1 - k) = Back(u, t, n + 1 - k + d)
      BY <1>6, <3>1 DEF T
    <3> QED
      BY <2>1, <3>2
  <2> HIDE DEF i
  <2> QED
    BY <1>2, <1>3, <1>4, <2>1, <2>2
<1>7. n \in T
  <2> HIDE DEF T
  <2> QED
    BY <1>1, <1>5, <1>6, Induction
<1>8. n + 1 - n = 1 /\ n + 1 - n + d = 1 + d
  BY <1>1
<1>9. Back(w, x, 1) = Back(u, t, 1 + d)
  BY <1>7, <1>8
<1> QED
  BY <1>9, RestoredIsFold

LEMMA RestoredEmpty == \A t : Restored(<<>>, t) = t
<1> SUFFICES ASSUME NEW t PROVE Restored(<<>>, t) = t
  OBVIOUS
<1>1. <<>> \in Seq({}) /\ Len(<<>>) + 1 = 1
  OBVIOUS
<1>2. Back(<<>>, t, Len(<<>>) + 1) = t
  BY <1>1, BackStep, Zenon
<1>3. Restored(<<>>, t) = Back(<<>>, t, 1)
  BY <1>1, RestoredIsFold, Zenon
<1> QED
  BY <1>1, <1>2, <1>3, Zenon

(* The record logged last is undone first.                                 *)
LEMMA RestoredAppend ==
  ASSUME NEW S, NEW u \in Seq(S), NEW r \in S, NEW t
  PROVE  Restored(Append(u, r), t) = Restored(u, UndoOne(t, r))
<1> DEFINE w == Append(u, r)
           n == Len(u)
<1>1. /\ w \in Seq(S) /\ Len(w) = n + 1 /\ w[n + 1] = r /\ n \in Nat
      /\ \A i \in 1 .. n : w[i] = u[i]
  OBVIOUS
<1>2. /\ Back(w, t, Len(w) + 1) = t
      /\ \A i \in 1 .. Len(w) : Back(w, t, i) = UndoOne(Back(w, t, i + 1), w[i])
  BY <1>1, BackStep
<1> HIDE DEF w
<1>3. n + 1 \in 1 .. Len(w)
  BY <1>1
<1>4. Back(w, t, n + 1) = UndoOne(t, r)
  BY <1>1, <1>2, <1>3
<1>5. /\ 0 \in Nat /\ n + 0 <= Len(w) /\ \A i \in 1 .. n : u[i] = w[i + 0]
      /\ n + 1 + 0 = n + 1 /\ 1 + 0 = 1
  BY <1>1
<1>6. Back(w, t, n + 1 + 0) = UndoOne(t, r)
  BY <1>4, <1>5
<1>7. Restored(u, UndoOne(t, r)) = Back(w, t, 1 + 0)
  <2>1. w \in Seq(S)
    BY <1>1
  <2>2. /\ 0 \in Nat /\ Len(u) + 0 <= Len(w)
        /\ \A i \in 1 .. Len(u) : u[i] = w[i + 0]
        /\ Back(w, t, Len(u) + 1 + 0) = UndoOne(t, r)
    BY <1>5, <1>6
  <2> HIDE DEF n
  <2> QED
    BY <2>1, <2>2, BackAgree, ZenonT(60)
<1>8. Restored(w, t) = Back(w, t, 1)
  BY <1>1, RestoredIsFold
<1> QED
  BY <1>5, <1>7, <1>8 DEF w

(* Undoing the records behind j and then those up to j undoes them all.    *)
LEMMA RestoredSplit ==
  ASSUME NEW S, NEW u \in Seq(S), NEW j \in 0 .. Len(u), NEW t
  PROVE  Restored(u, t) = Restored(SubSeq(u, 1, j),
                                   Restored(SubSeq(u, j + 1, Len(u)), t))
<1> DEFINE n == Len(u)
           v == SubSeq(u, 1, j)
           w == SubSeq(u, j + 1, n)
<1>1. n \in Nat /\ j \in Nat /\ j <= n
  OBVIOUS
<1>2. /\ v \in Seq(S) /\ Len(v) = j
      /\ \A i \in 1 .. j : v[i] = u[i]
  BY <1>1, SubSeqProperties
<1>3. /\ w \in Seq(S) /\ Len(w) = n - j
      /\ \A i \in 1 .. n - j : w[i] = u[i + j]
  BY <1>1, SubSeqProperties
<1>4. Back(u, t, n + 1) = t
  BY BackStep
<1> HIDE DEF v, w
<1>5. Restored(w, t) = Back(u, t, 1 + j)
  <2>1. /\ Len(w) + j <= n /\ Len(w) + 1 + j = n + 1
        /\ \A i \in 1 .. Len(w) : w[i] = u[i + j]
    BY <1>1, <1>3
  <2>2. Back(u, t, Len(w) + 1 + j) = t
    BY <1>4, <2>1
  <2> QED
    BY <1>1, <1>3, <2>1, <2>2, BackAgree, Zenon
<1>6. Restored(v, Back(u, t, 1 + j)) = Back(u, t, 1 + 0)
  <2>1. /\ Len(v) + 0 <= n /\ Len(v) + 1 + 0 = 1 + j /\ 0 \in Nat
        /\ \A i \in 1 .. Len(v) : v[i] = u[i + 0]
    BY <1>1, <1>2
  <2>2. Back(u, t, Len(v) + 1 + 0) = Back(u, t, 1 + j)
    BY <2>1
  <2> QED
    BY <1>2, <2>1, <2>2, BackAgree, Zenon
<1>7. Restored(u, t) = Back(u, t, 1 + 0)
  BY RestoredIsFold
<1> QED
  BY <1>5, <1>6, <1>7 DEF v, w

-------------------------------------------------------------------------------
(* The inductive invariant. *)

Offsets == {a.offset : a \in ToSet(Attrs)}
IsTuple(t) == t \in [Offsets -> Int]
IsTable(t) == /\ t = [i \in DOMAIN t |-> t[i]]
              /\ DOMAIN t \subseteq Rids
              /\ \A i \in DOMAIN t : IsTuple(t[i])

Changing == stmt.type \in {"delete", "update", "changeCommit"}

(* The statement in execution: what is still to be added or changed. *)
StmtOK ==
  \/ stmt = Idle
  \/ /\ DOMAIN stmt = {"type", "load", "todo", "entries", "rid", "count", "suspect"}
     /\ stmt.type = "add"
     /\ stmt.todo \in Seq(ToSet(stmt.todo))
     /\ \A t \in ToSet(stmt.todo) : IsTuple(t)
     /\ stmt.entries \subseteq IndexNos
     /\ stmt.entries # {} => stmt.rid \in DOMAIN rel
  \/ DOMAIN stmt = {"type", "count"} /\ stmt.type = "addCount"
  \/ /\ DOMAIN stmt = {"type", "change", "count", "rc", "changed", "before",
                       "suspect", "scanned", "filter", "todo"}
     /\ Changing
     /\ stmt.change \in Changes
     /\ stmt.type \in {stmt.change.type, "changeCommit"}

(* A record of the log names a file the log is known to name, and one of r *)
(* has the tuple before the change.                                        *)
LogOK ==
  /\ undo \in Seq(ToSet(undo))
  /\ \A r \in ToSet(undo) :
       /\ r.file \in logged
       /\ r.file = "r" => r.rid \in Rids /\ (r.old = <<>> \/ IsTuple(r.old))

(* Records are logged, and r is changed, in a transaction only, and not     *)
(* between a crash and its recovery.                                       *)
XactOK ==
  /\ stmt.type = "add" \/ Changing => xact # "none"
  /\ xact = "none" => undo = <<>>
  /\ db \notin {"open", "recovered", "torn"} => stmt = Idle

(* Undoing the transaction gives the relation of the last commit, but at    *)
(* the places that were left in open files.                                *)
Kept == \A rid \in Rids \ forgotten :
          TupleAt(Restored(undo, rel), rid) = TupleAt(committed, rid)

(* The entries of the tuples that the records u, with table t after them,  *)
(* have replaced or put in.                                                *)
TouchedBy(u, t, n, e) ==
  \E r \in ToSet(u) :
    /\ r.file = "r"
    /\ \/ r.old # <<>> /\ e = Entry(n, r.rid, r.old)
       \/ r.rid \in DOMAIN t /\ e = Entry(n, r.rid, t[r.rid])

Differ(A, B) == (A \ B) \union (B \ A)

(* An index and the relation differ in suspect entries, in those that the  *)
(* insertion in execution has still to make, and, after a crash, in those  *)
(* of changes that recovery is going to undo.                              *)
Excused(n, e) ==
  \/ <<n, e>> \in suspect
  \/ /\ stmt.type = "add" /\ n \in stmt.entries
     /\ e = Entry(n, stmt.rid, rel[stmt.rid])
  \/ db = "down" /\ TouchedBy(undo, rel, n, e)

IndexOK ==
  /\ DOMAIN index = IndexNos
  /\ db \notin {"lost", "torn"} =>
       \A n \in IndexNos : \A e \in Differ(index[n], EntriesOf(n, rel)) : Excused(n, e)

(* The record whose entries are put in is in the log. *)
InProgress ==
  stmt.type = "add" /\ stmt.entries # {} =>
    \E r \in ToSet(undo) : r.file = "r" /\ r.rid = stmt.rid

Closed == disk.rel = {rel} /\ disk.index = index

(* What is in memory is on disk, but for the changes of the statement in   *)
(* execution, or of one that has stopped and left its files open.          *)
DiskOK ==
  /\ DOMAIN disk = {"rel", "index"}
  /\ \A t \in disk.rel : IsTable(t)
  /\ stmt # Idle => leaked = "no"
  /\ stmt = Idle /\ leaked = "no" => Closed
  /\ stmt.type \in {"add", "addCount"} => disk.index = index
  /\ stmt.type = "add" /\ ~stmt.load => Closed
  /\ Changing /\ (~stmt.changed \/ (stmt.type = "changeCommit" /\ stmt.rc = "ok")) => Closed

Inv == /\ IsTable(rel)
       /\ StmtOK
       /\ LogOK
       /\ XactOK
       /\ Kept
       /\ IndexOK
       /\ InProgress
       /\ DiskOK

-------------------------------------------------------------------------------
(* Tuples and tables. *)

LEMMA TupleNotEmpty == \A t : IsTuple(t) => t # <<>>
<1>1. Attrs[1] \in ToSet(Attrs)
  BY SchemaAssumption DEF ToSet
<1>2. Offsets # {}
  BY <1>1 DEF Offsets
<1> QED
  BY <1>2 DEF IsTuple

LEMMA PutTable ==
  ASSUME NEW t, IsTable(t), NEW rid \in Rids, NEW x, x = <<>> \/ IsTuple(x)
  PROVE  IsTable(Put(t, rid, x))
<1>1. PICK p : p = Put(t, rid, x)
  OBVIOUS
<1>2. /\ DOMAIN p = IF x = <<>> THEN DOMAIN t \ {rid} ELSE DOMAIN t \union {rid}
      /\ x # <<>> => p[rid] = x
      /\ \A i \in DOMAIN t : i # rid => p[i] = t[i]
      /\ p = [i \in DOMAIN p |-> p[i]]
  BY <1>1 DEF Put
<1>3. DOMAIN p \subseteq Rids
  BY <1>2 DEF IsTable
<1>4. \A i \in DOMAIN p : IsTuple(p[i])
  BY <1>2 DEF IsTable
<1> QED
  BY <1>1, <1>2, <1>3, <1>4 DEF IsTable

(* Putting back what was there undoes a change. *)
LEMMA PutBack ==
  ASSUME NEW t, IsTable(t), NEW rid, NEW x, NEW old,
         \/ rid \in DOMAIN t /\ old = t[rid]
         \/ rid \notin DOMAIN t /\ old = <<>>
  PROVE  Put(Put(t, rid, x), rid, old) = t
<1>1. PICK p : p = Put(t, rid, x)
  OBVIOUS
<1>2. PICK q : q = Put(p, rid, old)
  OBVIOUS
<1>3. rid \in DOMAIN t => old # <<>>
  BY TupleNotEmpty DEF IsTable
<1>4. /\ DOMAIN p = IF x = <<>> THEN DOMAIN t \ {rid} ELSE DOMAIN t \union {rid}
      /\ \A i \in DOMAIN t : i # rid => p[i] = t[i]
  BY <1>1 DEF Put
<1>5. /\ DOMAIN q = IF old = <<>> THEN DOMAIN p \ {rid} ELSE DOMAIN p \union {rid}
      /\ old # <<>> => q[rid] = old
      /\ \A i \in DOMAIN p : i # rid => q[i] = p[i]
      /\ q = [i \in DOMAIN q |-> q[i]]
  BY <1>2 DEF Put
<1>6. DOMAIN q = DOMAIN t
  BY <1>3, <1>4, <1>5
<1>7. \A i \in DOMAIN t : q[i] = t[i]
  BY <1>3, <1>4, <1>5
<1>8. t = [i \in DOMAIN t |-> t[i]]
  BY DEF IsTable
<1>9. q = t
  BY <1>5, <1>6, <1>7, <1>8
<1> QED
  BY <1>1, <1>2, <1>9

LEMMA EntryParts ==
  \A n, rid, t, m, i, x : Entry(n, rid, t) = Entry(m, i, x) => rid = i
BY DEF Entry

-------------------------------------------------------------------------------
(* What undoing makes of a table: a record that some log record names has  *)
(* the tuple of one of those or is gone, the others stay.                  *)
Undoes(u, t, r) ==
  /\ IsTable(r)
  /\ \A i \in DOMAIN r :
       \/ i \in DOMAIN t /\ r[i] = t[i]
       \/ \E q \in ToSet(u) : q.file = "r" /\ q.rid = i /\ q.old # <<>> /\ q.old = r[i]
  /\ \A i \in DOMAIN t :
       \/ i \in DOMAIN r /\ r[i] = t[i]
       \/ \E q \in ToSet(u) : q.file = "r" /\ q.rid = i

LEMMA UndoOneUndoes ==
  ASSUME NEW u, NEW t, NEW r, Undoes(u, t, r), NEW q \in ToSet(u),
         q.file = "r" => q.rid \in Rids /\ (q.old = <<>> \/ IsTuple(q.old))
  PROVE  Undoes(u, t, UndoOne(r, q))
<1>1. CASE q.file # "r"
  BY <1>1 DEF UndoOne
<1>2. CASE q.file = "r"
  <2>1. PICK p : p = Put(r, q.rid, q.old)
    OBVIOUS
  <2>2. UndoOne(r, q) = p /\ IsTable(p)
    BY <1>2, <2>1, PutTable DEF UndoOne, Undoes
  <2>3. /\ DOMAIN p = IF q.old = <<>> THEN DOMAIN r \ {q.rid}
                      ELSE DOMAIN r \union {q.rid}
        /\ q.old # <<>> => p[q.rid] = q.old
        /\ \A i \in DOMAIN r : i # q.rid => p[i] = r[i]
    BY <2>1 DEF Put
  <2>4. \A i \in DOMAIN p :
          \/ i \in DOMAIN t /\ p[i] = t[i]
          \/ \E k \in ToSet(u) : k.file = "r" /\ k.rid = i /\ k.old # <<>> /\ k.old = p[i]
    BY <1>2, <2>3 DEF Undoes
  <2>5. \A i \in DOMAIN t :
          \/ i \in DOMAIN p /\ p[i] = t[i]
          \/ \E k \in ToSet(u) : k.file = "r" /\ k.rid = i
    BY <1>2, <2>3 DEF Undoes
  <2> QED
    BY <2>2, <2>4, <2>5 DEF Undoes
<1> QED
  BY <1>1, <1>2

LEMMA RestoredUndoes ==
  ASSUME NEW S, NEW u \in Seq(S), NEW t, IsTable(t),
         \A q \in ToSet(u) :
           q.file = "r" => q.rid \in Rids /\ (q.old = <<>> \/ IsTuple(q.old))
  PROVE  Undoes(u, t, Restored(u, t))
<1> DEFINE n == Len(u)
           T == {k \in Nat : k <= n => Undoes(u, t, Back(u, t, n + 1 - k))}
<1>1. n \in Nat /\ \A i \in 1 .. n : u[i] \in ToSet(u)
  BY DEF ToSet
<1>2. /\ Back(u, t, n + 1) = t
      /\ \A i \in 1 .. n : Back(u, t, i) = UndoOne(Back(u, t, i + 1), u[i])
  BY BackStep
<1> HIDE DEF n
<1>3. 0 \in T
  <2>1. Undoes(u, t, t)
    BY DEF Undoes
  <2>2. n + 1 - 0 = n + 1
    BY <1>1
  <2> QED
    BY <1>2, <2>1, <2>2
<1>4. ASSUME NEW k \in Nat, k \in T
      PROVE  k + 1 \in T
  <2> SUFFICES ASSUME k + 1 <= n
               PROVE  Undoes(u, t, Back(u, t, n + 1 - (k + 1)))
    BY DEF T
  <2> DEFINE i == n - k
  <2>1. i \in 1 .. n /\ n + 1 - (k + 1) = i /\ n + 1 - k = i + 1 /\ k <= n
    BY <1>1
  <2>2. Undoes(u, t, Back(u, t, i + 1))
    BY <1>4, <2>1
  <2> HIDE DEF i
  <2>3. u[i] \in ToSet(u) /\ Back(u, t, i) = UndoOne(Back(u, t, i + 1), u[i])
    BY <1>1, <1>2, <2>1
  <2>4. Undoes(u, t, UndoOne(Back(u, t, i + 1), u[i]))
    BY <2>2, <2>3, UndoOneUndoes
  <2> QED
    BY <2>1, <2>3, <2>4
<1>5. n \in T
  <2> HIDE DEF T
  <2> QED
    BY <1>1, <1>3, <1>4, Induction
<1>6. n + 1 - n = 1
  BY <1>1
<1>7. Undoes(u, t, Back(u, t, 1))
  BY <1>1, <1>5, <1>6
<1> QED
  BY <1>7, RestoredIsFold

-------------------------------------------------------------------------------
(* Sequences as the sets of what is in them. *)

LEMMA SeqOwn ==
  ASSUME NEW S, NEW u \in Seq(S)
  PROVE  u \in Seq(ToSet(u)) /\ ToSet(u) \subseteq S
         /\ \A i \in 1 .. Len(u) : u[i] \in ToSet(u)
BY DEF ToSet

LEMMA TailOwn ==
  ASSUME NEW S, NEW u \in Seq(S), u # <<>>
  PROVE  /\ Head(u) \in ToSet(u)
         /\ Tail(u) \in Seq(ToSet(Tail(u))) /\ ToSet(Tail(u)) \subseteq ToSet(u)
<1>1. Len(u) \in Nat \ {0} /\ Head(u) = u[1]
  BY EmptySeq
<1>2. Head(u) \in ToSet(u)
  BY <1>1, SeqOwn
<1>3. /\ Tail(u) \in Seq(S) /\ Len(Tail(u)) = Len(u) - 1
      /\ \A i \in 1 .. Len(Tail(u)) : Tail(u)[i] = u[i + 1]
  BY HeadTailProperties
<1>4. ToSet(Tail(u)) \subseteq ToSet(u)
  <2> SUFFICES ASSUME NEW x \in ToSet(Tail(u)) PROVE x \in ToSet(u)
    OBVIOUS
  <2>1. PICK i \in 1 .. Len(Tail(u)) : x = Tail(u)[i]
    BY <1>3 DEF ToSet
  <2>2. x = u[i + 1] /\ i + 1 \in 1 .. Len(u)
    BY <1>1, <1>3, <2>1
  <2> QED
    BY <2>2, SeqOwn
<1> QED
  BY <1>2, <1>3, <1>4, SeqOwn

LEMMA AppendOwn ==
  ASSUME NEW S, NEW u \in Seq(S), NEW r
  PROVE  /\ Append(u, r) \in Seq(ToSet(u) \union {r})
         /\ ToSet(Append(u, r)) = ToSet(u) \union {r}
         /\ Append(u, r) \in Seq(ToSet(Append(u, r)))
<1> DEFINE T == ToSet(u) \union {r}
           w == Append(u, r)
<1>1. u \in Seq(T) /\ Len(u) \in Nat
  BY SeqOwn, SeqMonotonic
<1>2. /\ w \in Seq(T) /\ Len(w) = Len(u) + 1
      /\ \A i \in 1 .. Len(u) : w[i] = u[i]
      /\ w[Len(u) + 1] = r
  <2> HIDE DEF T
  <2>1. r \in T
    BY DEF T
  <2> QED
    BY <1>1, <2>1, AppendProperties
<1> HIDE DEF w
<1>3. ToSet(w) \subseteq T
  BY <1>2, SeqOwn
<1>4. T \subseteq ToSet(w)
  <2>1. r \in ToSet(w)
    BY <1>1, <1>2, SeqOwn
  <2>2. ASSUME NEW x \in ToSet(u) PROVE x \in ToSet(w)
    <3>1. PICK i \in 1 .. Len(u) : x = u[i]
      BY DEF ToSet
    <3>2. i \in 1 .. Len(w) /\ w[i] = x
      BY <1>1, <1>2, <3>1
    <3> QED
      BY <1>2, <3>2, SeqOwn
  <2> QED
    BY <2>1, <2>2
<1> QED
  BY <1>2, <1>3, <1>4 DEF w

LEMMA SubSeqOwn ==
  ASSUME NEW S, NEW u \in Seq(S), NEW i \in Int, NEW j \in Int,
         i >= 1, j <= Len(u)
  PROVE  /\ SubSeq(u, i, j) \in Seq(ToSet(SubSeq(u, i, j)))
         /\ ToSet(SubSeq(u, i, j)) \subseteq ToSet(u)
<1>1. \A k \in i .. j : u[k] \in ToSet(u)
  BY SeqOwn
<1>2. SubSeq(u, i, j) \in Seq(ToSet(u))
  BY <1>1, SubSeqProperties
<1> QED
  BY <1>2, SeqOwn

-------------------------------------------------------------------------------
(* A change of a record, and the record of the log that undoes it. *)

LEMMA LogGrows ==
  ASSUME LogOK, NEW r, Logged(r),
         r.file = "r" => r.rid \in Rids /\ (r.old = <<>> \/ IsTuple(r.old))
  PROVE  /\ LogOK'
         /\ ToSet(undo') = ToSet(undo) \union {r}
         /\ \A t : Restored(undo', t) = Restored(undo, UndoOne(t, r))
<1>1. undo' = Append(undo, r) /\ logged' = logged \union {r.file}
  BY DEF Logged
<1>2. undo \in Seq(ToSet(undo))
  BY DEF LogOK
<1>3. ToSet(undo') = ToSet(undo) \union {r} /\ undo' \in Seq(ToSet(undo'))
  BY <1>1, <1>2, AppendOwn
<1>4. LogOK'
  BY <1>1, <1>3 DEF LogOK
<1>5. \A t : Restored(undo', t) = Restored(undo, UndoOne(t, r))
  <2>1. undo \in Seq(ToSet(undo) \union {r}) /\ r \in ToSet(undo) \union {r}
    BY <1>2, SeqMonotonic
  <2> QED
    BY <1>1, <2>1, RestoredAppend
<1> QED
  BY <1>3, <1>4, <1>5

LEMMA ChangeLogged ==
  ASSUME IsTable(rel), LogOK, Kept, NEW rid \in Rids, NEW x,
         x = <<>> \/ IsTuple(x),
         NEW old, \/ rid \in DOMAIN rel /\ old = rel[rid]
                  \/ rid \notin DOMAIN rel /\ old = <<>>,
         Logged(Change(rid, old)), rel' = Put(rel, rid, x),
         UNCHANGED <<committed, forgotten>>
  PROVE  IsTable(rel)' /\ LogOK' /\ Kept'
         /\ ToSet(undo') = ToSet(undo) \union {Change(rid, old)}
<1> DEFINE r == Change(rid, old)
<1>1. r.file = "r" /\ r.rid = rid /\ r.old = old
  BY DEF Change
<1>2. old = <<>> \/ IsTuple(old)
  BY DEF IsTable
<1> HIDE DEF r
<1>3. Logged(r)
  BY DEF r
<1>4. /\ LogOK' /\ ToSet(undo') = ToSet(undo) \union {r}
      /\ Restored(undo', rel') = Restored(undo, UndoOne(rel', r))
  BY <1>1, <1>2, <1>3, LogGrows
<1>5. UndoOne(rel', r) = rel
  BY <1>1, PutBack DEF UndoOne
<1>6. Kept'
  BY <1>4, <1>5 DEF Kept, TupleAt
<1>7. IsTable(rel')
  BY PutTable
<1> QED
  BY <1>4, <1>6, <1>7 DEF r

LEMMA ChangeEntries ==
  ASSUME NEW rid, NEW x, rel' = Put(rel, rid, x), NEW n, NEW e
  PROVE  e \in EntriesOf(n, rel') <=>
           \/ x # <<>> /\ e = Entry(n, rid, x)
           \/ /\ e \in EntriesOf(n, rel)
              /\ rid \in DOMAIN rel => e # Entry(n, rid, rel[rid])
<1>1. /\ DOMAIN rel' = IF x = <<>> THEN DOMAIN rel \ {rid} ELSE DOMAIN rel \union {rid}
      /\ x # <<>> => rel'[rid] = x
      /\ \A i \in DOMAIN rel : i # rid => rel'[i] = rel[i]
  BY DEF Put
<1>2. /\ e \in EntriesOf(n, rel') <=> \E i \in DOMAIN rel' : e = Entry(n, i, rel'[i])
      /\ e \in EntriesOf(n, rel) <=> \E i \in DOMAIN rel : e = Entry(n, i, rel[i])
  BY DEF EntriesOf
<1>3. \A i, t, j, y : Entry(n, i, t) = Entry(n, j, y) => i = j
  BY EntryParts
<1> QED
  BY <1>1, <1>2, <1>3

-------------------------------------------------------------------------------
(* Rolling back. *)

LEMMA MaxFound ==
  ASSUME NEW m \in Nat, NEW s, s \subseteq 1 .. m, s # {}
  PROVE  Max(s) \in s
<1> DEFINE T == {m - x : x \in s}
<1>1. T \subseteq Nat /\ T # {}
  <2>1. \A x \in s : m - x \in Nat
    <3> TAKE x \in s
    <3>1. x \in 1 .. m
      OBVIOUS
    <3> QED
      BY <3>1
  <2> QED
    BY <2>1
<1>2. PICK k \in T : \A y \in T : k <= y
  <2> HIDE DEF T
  <2> QED
    BY <1>1, LeastNatural
<1>3. PICK x \in s : k = m - x
  OBVIOUS
<1>4. \A y \in s : x >= y
  <2> TAKE y \in s
  <2>1. m - x <= m - y
    BY <1>2, <1>3
  <2>2. x \in 1 .. m /\ y \in 1 .. m
    OBVIOUS
  <2> QED
    BY <2>1, <2>2
<1> QED
  BY <1>3, <1>4 DEF Max

(* The records that are undone are the last ones of the log, and all of them *)
(* when every file that the log names exists.                                *)
LEMMA UndoableIsTail ==
  ASSUME LogOK
  PROVE  \E j \in 0 .. Len(undo) : /\ Undoable = SubSeq(undo, j + 1, Len(undo))
                                   /\ logged \subseteq files => j = 0
<1> DEFINE I == {i \in 1 .. Len(undo) : undo[i].file \notin files}
           j == IF I # {} THEN Max(I) ELSE 0
<1>1. Undoable = SubSeq(undo, j + 1, Len(undo))
  BY DEF Undoable, SelectLastInSeq
<1>2. Len(undo) \in Nat
  BY DEF LogOK
<1>3. j \in 0 .. Len(undo)
  <2>1. CASE I = {}
    BY <1>2, <2>1
  <2>2. CASE I # {}
    <3>1. I \subseteq 1 .. Len(undo)
      OBVIOUS
    <3>2. Max(I) \in I
      <4> HIDE DEF I
      <4> QED
        BY <1>2, <2>2, <3>1, MaxFound
    <3> QED
      BY <2>2, <3>2
  <2> QED
    BY <2>1, <2>2
<1>4. logged \subseteq files => I = {}
  BY DEF LogOK, ToSet
<1> QED
  BY <1>1, <1>3, <1>4

LEMMA EverythingUndoable ==
  ASSUME LogOK, logged \subseteq files
  PROVE  Undoable = undo
<1>1. Undoable = SubSeq(undo, 0 + 1, Len(undo))
  BY UndoableIsTail
<1>2. 0 + 1 = 1
  OBVIOUS
<1>3. Undoable = SubSeq(undo, 1, Len(undo))
  BY <1>1, <1>2
<1>4. undo \in Seq(ToSet(undo))
  BY DEF LogOK
<1> QED
  BY <1>3, <1>4, SubSeqFull

LEMMA RollBackOK ==
  ASSUME IsTable(rel), LogOK, Kept, RollBack,
         UNCHANGED <<committed, forgotten, logged>>
  PROVE  /\ IsTable(rel)' /\ LogOK' /\ Kept'
         /\ Undoes(Undoable, rel, rel')
         /\ Undoable = undo => undo' = <<>>
<1>1. /\ undo \in Seq(ToSet(undo)) /\ Len(undo) \in Nat
      /\ rel' = Restored(Undoable, rel)
      /\ undo' = SubSeq(undo, 1, Len(undo) - Len(Undoable))
  <2>1. undo \in Seq(ToSet(undo)) /\ Len(undo) \in Nat
    BY DEF LogOK
  <2>2. rel' = Undone(rel) /\ undo' = SubSeq(undo, 1, Len(undo) - Len(Undoable))
    BY DEF RollBack
  <2>3. Undone(rel) = Restored(Undoable, rel)
    BY DEF Undone, Restored
  <2> QED
    BY <2>1, <2>2, <2>3
<1>2. PICK j \in 0 .. Len(undo) : Undoable = SubSeq(undo, j + 1, Len(undo))
  BY UndoableIsTail
<1>3. /\ Undoable \in Seq(ToSet(undo)) /\ Len(undo) - Len(Undoable) = j
      /\ ToSet(Undoable) \subseteq ToSet(undo)
  <2>1. \A i \in j + 1 .. Len(undo) : undo[i] \in ToSet(undo)
    BY <1>1, SeqOwn
  <2>2. /\ Undoable \in Seq(ToSet(undo))
        /\ Len(Undoable) = IF j + 1 <= Len(undo) THEN Len(undo) - (j + 1) + 1 ELSE 0
    BY <1>1, <1>2, <2>1, SubSeqProperties
  <2>3. Len(undo) - Len(Undoable) = j
    BY <1>1, <2>2
  <2> QED
    BY <2>2, <2>3, SeqOwn
<1>4. /\ undo' = SubSeq(undo, 1, j)
      /\ undo' \in Seq(ToSet(undo')) /\ ToSet(undo') \subseteq ToSet(undo)
  <2>1. undo' = SubSeq(undo, 1, j)
    BY <1>1, <1>3
  <2>2. 1 \in Int /\ j \in Int /\ 1 >= 1 /\ j <= Len(undo)
    BY <1>1
  <2> QED
    BY <1>1, <2>1, <2>2, SubSeqOwn
<1>5. LogOK'
  BY <1>4 DEF LogOK
<1>6. Kept'
  <2>1. Restored(undo, rel) = Restored(undo', rel')
    BY <1>1, <1>2, <1>4, RestoredSplit
  <2> QED
    BY <2>1 DEF Kept, TupleAt
<1>7. Undoes(Undoable, rel, rel')
  <2>1. \A q \in ToSet(Undoable) :
          q.file = "r" => q.rid \in Rids /\ (q.old = <<>> \/ IsTuple(q.old))
    BY <1>3 DEF LogOK
  <2> QED
    BY <1>1, <1>3, <2>1, RestoredUndoes
<1>8. Undoable = undo => undo' = <<>>
  <2> SUFFICES ASSUME Undoable = undo PROVE undo' = <<>>
    OBVIOUS
  <2>1. j = 0
    BY <1>1, <1>3
  <2>2. SubSeq(undo, 1, 0) = <<>>
    BY SubSeqEmpty
  <2> QED
    BY <1>4, <2>1, <2>2
<1> QED
  BY <1>5, <1>6, <1>7, <1>8 DEF Undoes

LEMMA TouchedAll ==
  ASSUME NEW n \in IndexNos, NEW e, TouchedBy(Undoable, rel, n, e)
  PROVE  <<n, e>> \in Touched
<1>1. PICK r \in ToSet(Undoable) :
        /\ r.file = "r"
        /\ \/ r.old # <<>> /\ e = Entry(n, r.rid, r.old)
           \/ r.rid \in DOMAIN rel /\ e = Entry(n, r.rid, rel[r.rid])
  BY DEF TouchedBy
<1> DEFINE rids == {q.rid : q \in {u \in ToSet(Undoable) : u.file = "r"}}
           Had(rid) == Tuples(rid) \union (IF rid \in DOMAIN rel THEN {rel[rid]} ELSE {})
<1>2. r.rid \in rids
  BY <1>1
<1>3. PICK x \in Had(r.rid) : e = Entry(n, r.rid, x)
  <2>1. CASE r.old # <<>> /\ e = Entry(n, r.rid, r.old)
    <3>1. r.old \in Tuples(r.rid)
      BY <1>1, <2>1 DEF Tuples
    <3> QED
      BY <2>1, <3>1
  <2>2. CASE r.rid \in DOMAIN rel /\ e = Entry(n, r.rid, rel[r.rid])
    BY <2>2
  <2> QED
    BY <1>1, <2>1, <2>2
<1> DEFINE P == UNION {{rid} \X Had(rid) : rid \in rids}
<1>4. PICK p \in P : p = <<r.rid, x>>
  <2> HIDE DEF Had, rids
  <2>1. <<r.rid, x>> \in {r.rid} \X Had(r.rid)
    BY <1>3
  <2> QED
    BY <1>2, <2>1
<1>5. <<n, Entry(n, p[1], p[2])>> \in Touched
  <2>1. Touched = {<<m, Entry(m, q[1], q[2])>> : m \in IndexNos, q \in P}
    BY DEF Touched
  <2> HIDE DEF P
  <2> QED
    BY <2>1
<1>6. p[1] = r.rid /\ p[2] = x
  BY <1>4
<1> QED
  BY <1>3, <1>5, <1>6

(* The entries in which a table and what undoing makes of it differ.       *)
LEMMA UndoneEntries ==
  ASSUME NEW u, NEW t, NEW r, Undoes(u, t, r), NEW n, NEW e,
         e \in Differ(EntriesOf(n, r), EntriesOf(n, t))
  PROVE  TouchedBy(u, t, n, e)
<1>1. CASE e \in EntriesOf(n, r) /\ e \notin EntriesOf(n, t)
  <2>1. PICK i \in DOMAIN r : e = Entry(n, i, r[i])
    BY <1>1 DEF EntriesOf
  <2>2. ~(i \in DOMAIN t /\ r[i] = t[i])
    BY <1>1, <2>1 DEF EntriesOf
  <2>3. PICK q \in ToSet(u) : q.file = "r" /\ q.rid = i /\ q.old # <<>> /\ q.old = r[i]
    BY <2>2 DEF Undoes
  <2> QED
    BY <2>1, <2>3 DEF TouchedBy
<1>2. CASE e \in EntriesOf(n, t) /\ e \notin EntriesOf(n, r)
  <2>1. PICK i \in DOMAIN t : e = Entry(n, i, t[i])
    BY <1>2 DEF EntriesOf
  <2>2. ~(i \in DOMAIN r /\ r[i] = t[i])
    BY <1>2, <2>1 DEF EntriesOf
  <2>3. PICK q \in ToSet(u) : q.file = "r" /\ q.rid = i
    BY <2>2 DEF Undoes
  <2> QED
    BY <2>1, <2>3 DEF TouchedBy
<1> QED
  BY <1>1, <1>2 DEF Differ

(* What undoing makes the indexes and r differ in is suspect.              *)
LEMMA RollBackIndexes ==
  ASSUME RollBack, Undoes(Undoable, rel, rel'), NEW n \in IndexNos,
         index' = index,
         \A e \in Differ(index[n], EntriesOf(n, rel)) :
           <<n, e>> \in suspect \/ TouchedBy(Undoable, rel, n, e)
  PROVE  \A e \in Differ(index'[n], EntriesOf(n, rel')) : <<n, e>> \in suspect'
<1> SUFFICES ASSUME NEW e \in Differ(index'[n], EntriesOf(n, rel'))
             PROVE  <<n, e>> \in suspect'
  OBVIOUS
<1>1. suspect' = suspect \union Touched
  BY DEF RollBack
<1>2. \/ e \in Differ(index[n], EntriesOf(n, rel))
      \/ e \in Differ(EntriesOf(n, rel'), EntriesOf(n, rel))
  BY DEF Differ
<1>3. <<n, e>> \in suspect \/ TouchedBy(Undoable, rel, n, e)
  BY <1>2, UndoneEntries
<1> QED
  BY <1>1, <1>3, TouchedAll

-------------------------------------------------------------------------------
(* Every step preserves the invariant. *)

(* Executing, and not after a crash. *)
Working == db \in {"open", "recovered"}

LEMMA ExcusedWhenIdle ==
  ASSUME Inv, stmt = Idle, db \notin {"down", "lost", "torn"}, NEW n \in IndexNos,
         NEW e \in Differ(index[n], EntriesOf(n, rel))
  PROVE  <<n, e>> \in suspect
BY DEF Inv, IndexOK, Excused, Idle

LEMMA AddBeginInv ==
  ASSUME Inv, Ready, NEW ts \in Loads, AddBegin(ts), UNCHANGED <<db, leaked>>
  PROVE  Inv'
<1>1. /\ stmt = Idle /\ db \notin {"down", "lost", "torn"} /\ db' = db /\ Working
      /\ stmt' = [type |-> "add", load |-> Len(ts) > 1, todo |-> ts, entries |-> {},
                  rid |-> 0, count |-> Len(ts), suspect |-> suspect]
      /\ UNCHANGED <<rel, index, undo, logged, disk, leaked, committed, forgotten, suspect>>
      /\ leaked = "no"
  BY DEF Ready, Running, AddBegin, Working
<1>2. IsTable(rel)' /\ LogOK' /\ Kept'
  BY <1>1 DEF Inv, LogOK, Kept, TupleAt
<1>3. StmtOK'
  <2>1. ts \in Seq(ToSet(ts)) /\ \A t \in ToSet(ts) : IsTuple(t)
    <3>1. ts \in Seq(Tuple)
      BY StatementsAssumption
    <3>2. ts \in Seq(ToSet(ts)) /\ ToSet(ts) \subseteq Tuple
      BY <3>1, SeqOwn
    <3> QED
      BY <3>2 DEF IsTuple, Offsets, Tuple
  <2> QED
    BY <1>1, <2>1 DEF StmtOK
<1>4. XactOK'
  BY <1>1 DEF Inv, XactOK, AddBegin, Begin, Changing, Working
<1>5. IndexOK'
  <2>1. \A n \in IndexNos : \A e \in Differ(index[n], EntriesOf(n, rel)) :
          <<n, e>> \in suspect
    BY <1>1, ExcusedWhenIdle
  <2>2. DOMAIN index = IndexNos
    BY DEF Inv, IndexOK
  <2> QED
    BY <1>1, <2>1, <2>2 DEF IndexOK, Excused, EntriesOf
<1>6. InProgress' /\ DiskOK'
  BY <1>1 DEF InProgress, Changing, Inv, DiskOK, Closed
<1> QED
  BY <1>2, <1>3, <1>4, <1>5, <1>6 DEF Inv

LEMMA AddRecordInv ==
  ASSUME Inv, Working, AddRecord
  PROVE  Inv'
<1>1. /\ stmt.type = "add" /\ stmt.entries = {} /\ stmt.todo # <<>> /\ stmt # Idle
      /\ UNCHANGED <<index, xact, committed, forgotten, suspect, leaked, db>>
      /\ disk' = IF stmt.load THEN disk ELSE [disk EXCEPT !.rel = {rel'}]
  BY DEF AddRecord, Idle
<1>2. /\ DOMAIN stmt = {"type", "load", "todo", "entries", "rid", "count", "suspect"}
      /\ stmt.todo \in Seq(ToSet(stmt.todo)) /\ \A t \in ToSet(stmt.todo) : IsTuple(t)
  BY <1>1 DEF Inv, StmtOK, Changing
<1>3. PICK rid \in Rids \ DOMAIN rel :
        /\ Logged(Change(rid, <<>>))
        /\ rel' = Put(rel, rid, Head(stmt.todo))
        /\ stmt' = [stmt EXCEPT !.todo = Tail(@), !.rid = rid, !.entries = IndexNos]
  BY DEF AddRecord
<1> DEFINE x == Head(stmt.todo)
<1>4. /\ IsTuple(x) /\ x # <<>>
      /\ Tail(stmt.todo) \in Seq(ToSet(Tail(stmt.todo)))
      /\ \A t \in ToSet(Tail(stmt.todo)) : IsTuple(t)
  BY <1>1, <1>2, TailOwn, TupleNotEmpty
<1>5. /\ stmt'.type = "add" /\ stmt'.todo = Tail(stmt.todo) /\ stmt'.rid = rid
      /\ stmt'.entries = IndexNos /\ DOMAIN stmt' = DOMAIN stmt
      /\ stmt'.load = stmt.load /\ stmt' # Idle
  <2>1. stmt' = [stmt EXCEPT !.todo = Tail(@), !.rid = rid, !.entries = IndexNos]
    BY <1>3
  <2> QED
    BY <1>1, <1>2, <2>1 DEF Idle
<1>6. rid \in DOMAIN rel' /\ rel'[rid] = x
  BY <1>3, <1>4 DEF Put
<1>7. /\ IsTable(rel)' /\ LogOK' /\ Kept'
      /\ ToSet(undo') = ToSet(undo) \union {Change(rid, <<>>)}
  BY <1>1, <1>3, <1>4, ChangeLogged DEF Inv
<1>8. StmtOK'
  BY <1>2, <1>4, <1>5, <1>6 DEF StmtOK
<1>9. XactOK'
  BY <1>1, <1>5 DEF Inv, XactOK, Changing, Working
<1>10. IndexOK'
  <2>1. ASSUME NEW n \in IndexNos, NEW e \in Differ(index[n], EntriesOf(n, rel'))
        PROVE  Excused(n, e)'
    <3>1. CASE e = Entry(n, rid, x)
      BY <1>5, <1>6, <3>1 DEF Excused
    <3>2. CASE e # Entry(n, rid, x)
      <4>1. e \in EntriesOf(n, rel') <=> e \in EntriesOf(n, rel)
        BY <1>3, <3>2, ChangeEntries
      <4>2. e \in Differ(index[n], EntriesOf(n, rel))
        BY <4>1 DEF Differ
      <4>3. Excused(n, e)
        BY <4>2 DEF Inv, IndexOK, Working
      <4> QED
        BY <1>1, <4>3 DEF Excused, Working
    <3> QED
      BY <3>1, <3>2
  <2>2. DOMAIN index = IndexNos
    BY DEF Inv, IndexOK
  <2>3. \A n : EntriesOf(n, rel)' = EntriesOf(n, rel')
    BY DEF EntriesOf
  <2> QED
    BY <1>1, <2>1, <2>2, <2>3 DEF IndexOK
<1>11. InProgress'
  <2>1. /\ Change(rid, <<>>) \in ToSet(undo') /\ Change(rid, <<>>).file = "r"
        /\ Change(rid, <<>>).rid = rid
    BY <1>7 DEF Change
  <2> QED
    BY <1>5, <2>1 DEF InProgress, Changing
<1>12. DiskOK'
  <2>1. /\ DOMAIN disk = {"rel", "index"} /\ disk.index = index /\ leaked = "no"
        /\ \A t \in disk.rel : IsTable(t)
    BY <1>1 DEF Inv, DiskOK
  <2>2. /\ DOMAIN disk' = {"rel", "index"} /\ disk'.index = index
        /\ disk'.rel = IF stmt.load THEN disk.rel ELSE {rel'}
    BY <1>1, <2>1
  <2> QED
    BY <1>1, <1>5, <1>7, <2>1, <2>2 DEF DiskOK, Closed, Changing
<1> QED
  BY <1>7, <1>8, <1>9, <1>10, <1>11, <1>12 DEF Inv

LEMMA AddFailsInv ==
  ASSUME Inv, Working, AddFails
  PROVE  Inv'
<1>1. /\ stmt.type = "add" /\ stmt.entries = {} /\ stmt' = Idle /\ leaked' = "add"
      /\ Logged(Nowhere) /\ xact # "none"
      /\ UNCHANGED <<rel, index, xact, disk, db, committed, forgotten, suspect>>
  BY DEF AddFails, Inv, XactOK
<1>2. Nowhere.file # "r"
  BY DEF Nowhere, Elsewhere
<1>3. LogOK' /\ Restored(undo', rel) = Restored(undo, UndoOne(rel, Nowhere))
  BY <1>1, <1>2, LogGrows DEF Inv
<1>4. UndoOne(rel, Nowhere) = rel
  BY <1>2 DEF UndoOne
<1>5. IsTable(rel)' /\ Kept'
  BY <1>1, <1>3, <1>4 DEF Inv, Kept, TupleAt
<1>6. StmtOK' /\ XactOK' /\ InProgress'
  BY <1>1 DEF Inv, StmtOK, XactOK, InProgress, Changing, Idle, Working
<1>7. IndexOK'
  <2>1. \A n \in IndexNos : \A e \in Differ(index[n], EntriesOf(n, rel)) :
          <<n, e>> \in suspect
    BY <1>1 DEF Inv, IndexOK, Excused, Working
  <2> QED
    BY <1>1, <2>1 DEF Inv, IndexOK, Excused, EntriesOf
<1>8. DiskOK'
  BY <1>1 DEF Inv, DiskOK, Changing, Idle
<1> QED
  BY <1>3, <1>5, <1>6, <1>7, <1>8 DEF Inv

LEMMA NextIndexOK ==
  ASSUME stmt.entries \subseteq IndexNos, stmt.entries # {}
  PROVE  NextIndex \in stmt.entries
<1> DEFINE I == {i \in 1 .. Len(Attrs) : Attrs[i].indexNo \in stmt.entries}
<1>1. PICK n \in stmt.entries : n \in IndexNos
  OBVIOUS
<1>2. PICK a \in ToSet(Attrs) : a.indexNo = n
  BY <1>1 DEF IndexNos
<1>3. PICK i \in DOMAIN Attrs : a = Attrs[i]
  BY DEF ToSet
<1>4. i \in I
  BY <1>1, <1>2, <1>3, SchemaAssumption
<1>5. NextIndex = Attrs[Min(I)].indexNo
  BY <1>4 DEF NextIndex, SelectInSeq
<1>6. I \subseteq Nat
  OBVIOUS
<1>7. Min(I) \in I
  <2> HIDE DEF I
  <2> QED
    BY <1>4, <1>6, MinFound
<1> QED
  BY <1>5, <1>7

LEMMA AddEntryInv ==
  ASSUME Inv, Working, AddEntry
  PROVE  Inv'
<1> DEFINE n == NextIndex
           e == Entry(n, stmt.rid, rel[stmt.rid])
<1>1. /\ stmt.type = "add" /\ stmt.entries # {} /\ stmt # Idle
      /\ UNCHANGED <<rel, xact, undo, logged, committed, forgotten>>
  BY DEF AddEntry, Idle
<1>2. /\ DOMAIN stmt = {"type", "load", "todo", "entries", "rid", "count", "suspect"}
      /\ stmt.todo \in Seq(ToSet(stmt.todo)) /\ \A t \in ToSet(stmt.todo) : IsTuple(t)
      /\ stmt.entries \subseteq IndexNos /\ stmt.rid \in DOMAIN rel
  BY <1>1 DEF Inv, StmtOK, Changing
<1>3. IsTable(rel)' /\ LogOK' /\ Kept'
  BY <1>1 DEF Inv, LogOK, Kept, TupleAt
<1>4. DOMAIN index = IndexNos /\ \A m : EntriesOf(m, rel)' = EntriesOf(m, rel)
  BY <1>1 DEF Inv, IndexOK, EntriesOf
<1>5. n \in stmt.entries /\ n \in IndexNos
  BY <1>1, <1>2, NextIndexOK
<1>6. e \in EntriesOf(n, rel)
  BY <1>2 DEF EntriesOf
<1>7. ASSUME NEW m \in IndexNos, NEW f \in Differ(index[m], EntriesOf(m, rel))
      PROVE  \/ <<m, f>> \in suspect
             \/ m \in stmt.entries /\ f = Entry(m, stmt.rid, rel[stmt.rid])
  <2>1. Excused(m, f) /\ db # "down"
    BY DEF Inv, IndexOK, Working
  <2> QED
    BY <2>1 DEF Excused
<1>8. CASE e \in index[n]
  <2>1. /\ stmt' = Idle /\ index' = index /\ disk' = disk
        /\ leaked' = IF stmt.load THEN "add" ELSE leaked
        /\ suspect' = suspect \union
             {<<m, Entry(m, stmt.rid, rel[stmt.rid])>> : m \in stmt.entries}
    BY <1>8 DEF AddEntry
  <2>2. IndexOK'
    BY <1>1, <1>2, <1>4, <1>7, <2>1 DEF IndexOK, Excused
  <2>3. StmtOK' /\ XactOK' /\ InProgress'
    BY <1>1, <2>1 DEF Inv, StmtOK, XactOK, InProgress, Changing, Idle
  <2>4. DiskOK'
    BY <1>1, <2>1 DEF Inv, DiskOK, Closed, Changing, Idle
  <2> QED
    BY <1>3, <2>2, <2>3, <2>4 DEF Inv
<1>9. CASE e \notin index[n]
  <2>1. /\ index' = [index EXCEPT ![n] = @ \union {e}]
        /\ stmt' = [stmt EXCEPT !.entries = @ \ {n}]
        /\ disk' = [disk EXCEPT !.index = index']
        /\ UNCHANGED <<leaked, db, suspect>>
    BY <1>9 DEF AddEntry
  <2>2. /\ stmt'.type = "add" /\ stmt'.entries = stmt.entries \ {n}
        /\ stmt'.todo = stmt.todo /\ stmt'.rid = stmt.rid /\ DOMAIN stmt' = DOMAIN stmt
        /\ stmt'.load = stmt.load /\ stmt' # Idle
    BY <1>1, <1>2, <2>1 DEF Idle
  <2>3. /\ DOMAIN index' = IndexNos /\ index'[n] = index[n] \union {e}
        /\ \A m \in IndexNos : m # n => index'[m] = index[m]
    BY <1>4, <1>5, <2>1
  <2> HIDE DEF n, e
  <2>4. ASSUME NEW m \in IndexNos, NEW f \in Differ(index'[m], EntriesOf(m, rel))
        PROVE  \/ <<m, f>> \in suspect
               \/ m \in stmt'.entries /\ f = Entry(m, stmt.rid, rel[stmt.rid])
    <3>1. CASE m = n
      <4>1. f # e /\ f \in Differ(index[n], EntriesOf(n, rel))
        BY <1>6, <2>3, <3>1 DEF Differ
      <4> QED
        BY <1>5, <1>7, <3>1, <4>1 DEF e
    <3>2. CASE m # n
      BY <1>7, <2>2, <2>3, <3>2
    <3> QED
      BY <3>1, <3>2
  <2>5. IndexOK'
    BY <1>1, <1>4, <2>1, <2>2, <2>3, <2>4 DEF IndexOK, Excused
  <2>6. StmtOK' /\ XactOK' /\ InProgress'
    BY <1>1, <1>2, <2>1, <2>2 DEF Inv, StmtOK, XactOK, InProgress, Changing, Working
  <2>7. DiskOK'
    <3>1. DOMAIN disk = {"rel", "index"} /\ leaked = "no" /\ \A t \in disk.rel : IsTable(t)
      BY <1>1 DEF Inv, DiskOK
    <3>2. DOMAIN disk' = {"rel", "index"} /\ disk'.index = index' /\ disk'.rel = disk.rel
      BY <2>1, <3>1
    <3>3. ~stmt.load => disk.rel = {rel}
      BY <1>1 DEF Inv, DiskOK, Closed
    <3> QED
      BY <1>1, <2>1, <2>2, <3>1, <3>2, <3>3 DEF DiskOK, Closed, Changing
  <2> QED
    BY <1>3, <2>5, <2>6, <2>7 DEF Inv
<1> QED
  BY <1>8, <1>9

LEMMA CommitOK ==
  ASSUME IsTable(rel), LogOK, Kept, UNCHANGED <<rel, logged>>,
         Commit \/ UNCHANGED <<xact, undo, committed, forgotten>>
  PROVE  /\ IsTable(rel)' /\ LogOK' /\ Kept'
         /\ (xact = "none" => undo = <<>>) => (xact' = "none" => undo' = <<>>)
<1>1. IsTable(rel)'
  OBVIOUS
<1>2. CASE Commit
  <2>1. undo' = <<>> /\ committed' = rel
    BY <1>2 DEF Commit
  <2>2. LogOK'
    <3>1. <<>> \in Seq(ToSet(<<>>)) /\ ToSet(<<>>) = {}
      BY DEF ToSet
    <3> QED
      BY <2>1, <3>1 DEF LogOK
  <2>3. Kept'
    BY <2>1, RestoredEmpty DEF Kept, TupleAt
  <2> QED
    BY <1>1, <2>1, <2>2, <2>3
<1>3. CASE UNCHANGED <<xact, undo, committed, forgotten>>
  BY <1>1, <1>3 DEF LogOK, Kept, TupleAt
<1> QED
  BY <1>2, <1>3

LEMMA AddCommitInv ==
  ASSUME Inv, Working, AddCommit
  PROVE  Inv'
<1>1. /\ stmt.type = "add" /\ stmt.entries = {}
      /\ stmt' = [type |-> "addCount", count |-> stmt.count]
      /\ UNCHANGED <<rel, index, logged, suspect, disk, leaked, db>>
      /\ Commit \/ UNCHANGED <<xact, undo, committed, forgotten>>
  BY DEF AddCommit
<1>2. /\ IsTable(rel)' /\ LogOK' /\ Kept'
      /\ (xact = "none" => undo = <<>>) => (xact' = "none" => undo' = <<>>)
  BY <1>1, CommitOK DEF Inv
<1>3. StmtOK' /\ XactOK' /\ InProgress'
  BY <1>1, <1>2 DEF Inv, StmtOK, XactOK, InProgress, Changing, Working
<1>4. DiskOK'
  BY <1>1 DEF Inv, DiskOK, Closed, Changing, Idle
<1>5. IndexOK'
  <2>1. \A n \in IndexNos : \A e \in Differ(index[n], EntriesOf(n, rel)) :
          <<n, e>> \in suspect
    BY <1>1 DEF Inv, IndexOK, Excused, Working
  <2> QED
    BY <1>1, <2>1 DEF Inv, IndexOK, Excused, EntriesOf
<1> QED
  BY <1>2, <1>3, <1>4, <1>5 DEF Inv

LEMMA AddCountInv ==
  ASSUME Inv, Working, AddCount
  PROVE  Inv'
<1>1. /\ stmt.type = "addCount" /\ stmt' = Idle /\ disk' = [disk EXCEPT !.rel = {rel}]
      /\ UNCHANGED <<rel, index, xact, undo, logged, leaked, committed, forgotten, suspect, db>>
  BY DEF AddCount
<1>2. IsTable(rel)' /\ LogOK' /\ Kept'
  BY <1>1 DEF Inv, LogOK, Kept, TupleAt
<1>3. StmtOK' /\ XactOK' /\ InProgress' /\ DiskOK'
  <2>1. DOMAIN disk = {"rel", "index"} /\ disk.index = index /\ IsTable(rel)
    BY <1>1 DEF Inv, DiskOK
  <2>2. DOMAIN disk' = {"rel", "index"} /\ disk'.index = index /\ disk'.rel = {rel}
    BY <1>1, <2>1
  <2>3. DiskOK'
    BY <1>1, <2>1, <2>2 DEF DiskOK, Closed, Changing, Idle
  <2> QED
    BY <1>1, <2>3 DEF Inv, StmtOK, XactOK, InProgress, Changing, Working, Idle
<1>4. IndexOK'
  <2>1. \A n \in IndexNos : \A e \in Differ(index[n], EntriesOf(n, rel)) :
          <<n, e>> \in suspect
    BY <1>1 DEF Inv, IndexOK, Excused, Working
  <2> QED
    BY <1>1, <2>1 DEF Inv, IndexOK, Excused, EntriesOf
<1> QED
  BY <1>2, <1>3, <1>4 DEF Inv

LEMMA ChangeBeginInv ==
  ASSUME Inv, Ready, NEW c \in Changes, ChangeBegin(c), UNCHANGED <<db, leaked>>
  PROVE  Inv'
<1>1. /\ stmt = Idle /\ db \notin {"down", "lost", "torn"} /\ db' = db /\ Working
      /\ UNCHANGED <<rel, index, undo, logged, disk, leaked, committed, forgotten, suspect>>
      /\ leaked = "no" /\ Begin
  BY DEF Ready, Running, ChangeBegin, Working
<1>2. /\ stmt'.type = c.type /\ stmt'.change = c /\ ~stmt'.changed
      /\ DOMAIN stmt' = {"type", "change", "count", "rc", "changed", "before",
                         "suspect", "scanned", "filter", "todo"}
  BY DEF ChangeBegin
<1>3. c.type \in {"delete", "update"}
  BY StatementsAssumption
<1>4. IsTable(rel)' /\ LogOK' /\ Kept'
  BY <1>1 DEF Inv, LogOK, Kept, TupleAt
<1>5. StmtOK'
  BY <1>2, <1>3 DEF StmtOK, Changing
<1>6. XactOK'
  BY <1>1, <1>2, <1>3 DEF Inv, XactOK, Begin, Changing, Working
<1>7. IndexOK'
  <2>1. \A n \in IndexNos : \A e \in Differ(index[n], EntriesOf(n, rel)) :
          <<n, e>> \in suspect
    BY <1>1, ExcusedWhenIdle
  <2>2. DOMAIN index = IndexNos
    BY DEF Inv, IndexOK
  <2> QED
    BY <1>1, <2>1, <2>2 DEF IndexOK, Excused, EntriesOf
<1>8. InProgress' /\ DiskOK'
  BY <1>1, <1>2, <1>3 DEF Inv, DiskOK, Closed, InProgress, Changing, Idle
<1> QED
  BY <1>4, <1>5, <1>6, <1>7, <1>8 DEF Inv

(* Of a deletion or update only what is left to do changes.                *)
LEMMA SameChange ==
  ASSUME StmtOK, Changing, DOMAIN stmt' = DOMAIN stmt,
         stmt'.type \in {stmt.type, "changeCommit"}, stmt'.change = stmt.change
  PROVE  StmtOK' /\ Changing'
<1>1. stmt # Idle
  BY DEF Changing, Idle
<1>2. /\ DOMAIN stmt = {"type", "change", "count", "rc", "changed", "before",
                        "suspect", "scanned", "filter", "todo"}
      /\ stmt.change \in Changes
      /\ stmt.type \in {stmt.change.type, "changeCommit"}
  BY <1>1 DEF StmtOK, Changing
<1> QED
  BY <1>2 DEF StmtOK, Changing

(* Only what the statement has still to do changes. *)
LEMMA NothingChanged ==
  ASSUME Inv, Working, Changing, Changing', StmtOK', DiskOK',
         UNCHANGED <<rel, index, xact, undo, logged, committed, forgotten, suspect, db>>
  PROVE  Inv'
<1>1. IsTable(rel)' /\ LogOK' /\ Kept'
  BY DEF Inv, LogOK, Kept, TupleAt
<1>2. XactOK'
  BY DEF Inv, XactOK, Changing, Working
<1>3. IndexOK'
  <2>1. \A n \in IndexNos : \A e \in Differ(index[n], EntriesOf(n, rel)) :
          <<n, e>> \in suspect
    BY DEF Inv, IndexOK, Excused, Working, Changing
  <2> QED
    BY <2>1 DEF Inv, IndexOK, Excused, EntriesOf
<1>4. InProgress'
  BY DEF InProgress, Changing
<1> QED
  BY <1>1, <1>2, <1>3, <1>4 DEF Inv

LEMMA ChangeFields ==
  ASSUME Inv, Changing
  PROVE  /\ stmt # Idle /\ stmt.change \in Changes
         /\ DOMAIN stmt = {"type", "change", "count", "rc", "changed", "before",
                           "suspect", "scanned", "filter", "todo"}
         /\ \A rc : /\ DOMAIN Passed = DOMAIN stmt /\ DOMAIN Stopped(rc) = DOMAIN stmt
                    /\ Passed.type = stmt.type /\ Stopped(rc).type = stmt.type
                    /\ Passed.change = stmt.change /\ Stopped(rc).change = stmt.change
                    /\ Passed.changed = stmt.changed /\ Stopped(rc).changed = stmt.changed
<1>1. stmt # Idle
  BY DEF Changing, Idle
<1>2. /\ stmt.change \in Changes
      /\ DOMAIN stmt = {"type", "change", "count", "rc", "changed", "before",
                        "suspect", "scanned", "filter", "todo"}
  BY <1>1 DEF Inv, StmtOK, Changing
<1>3. ASSUME NEW rc
      PROVE  /\ DOMAIN Passed = DOMAIN stmt /\ DOMAIN Stopped(rc) = DOMAIN stmt
             /\ Passed.type = stmt.type /\ Stopped(rc).type = stmt.type
             /\ Passed.change = stmt.change /\ Stopped(rc).change = stmt.change
             /\ Passed.changed = stmt.changed /\ Stopped(rc).changed = stmt.changed
  BY <1>2 DEF Passed, Stopped
<1> QED
  BY <1>1, <1>2, <1>3

LEMMA SkipTupleInv ==
  ASSUME Inv, Working, SkipTuple
  PROVE  Inv'
<1>1. /\ Changing /\ stmt' \in {Stopped("RECNOTEXIST"), Passed}
      /\ stmt.type # "changeCommit"
      /\ UNCHANGED <<rel, index, xact, undo, logged, disk, leaked, committed, forgotten,
                     suspect, db>>
  BY DEF SkipTuple, Changing
<1>2. /\ StmtOK' /\ Changing' /\ stmt # Idle
      /\ stmt'.changed = stmt.changed /\ stmt'.type = stmt.type
  BY <1>1, ChangeFields, SameChange DEF Inv
<1>3. DiskOK'
  BY <1>1, <1>2 DEF Inv, DiskOK, Closed, Changing, Idle
<1> QED
  BY <1>1, <1>2, <1>3, NothingChanged

LEMMA ChangeCountInv ==
  ASSUME Inv, Working, ChangeCount
  PROVE  Inv'
<1>1. /\ Changing /\ stmt' = [stmt EXCEPT !.type = "changeCommit"]
      /\ disk' = IF stmt.rc = "ok" THEN [rel |-> {rel}, index |-> index] ELSE disk
      /\ UNCHANGED <<rel, index, xact, undo, logged, leaked, committed, forgotten, suspect, db>>
  BY DEF ChangeCount, Changing
<1>2. /\ DOMAIN stmt' = DOMAIN stmt /\ stmt'.type = "changeCommit"
      /\ stmt'.change = stmt.change /\ stmt'.changed = stmt.changed
      /\ stmt'.rc = stmt.rc /\ stmt # Idle /\ stmt' # Idle
  BY <1>1, ChangeFields DEF Idle
<1>3. StmtOK' /\ Changing'
  BY <1>1, <1>2, SameChange DEF Inv
<1>4. DiskOK'
  <2>1. CASE stmt.rc = "ok"
    <3>1. Closed' /\ DOMAIN disk' = {"rel", "index"} /\ \A t \in disk'.rel : IsTable(t)
      BY <1>1, <2>1 DEF Closed, Inv
    <3> QED
      BY <1>1, <1>2, <3>1 DEF Inv, DiskOK, Closed, Changing
  <2>2. CASE stmt.rc # "ok"
    BY <1>1, <1>2, <2>2 DEF Inv, DiskOK, Closed, Changing
  <2> QED
    BY <2>1, <2>2
<1> QED
  BY <1>1, <1>2, <1>3, <1>4, NothingChanged

LEMMA ChangeCommitInv ==
  ASSUME Inv, Working, ChangeCommit
  PROVE  Inv'
<1>1. /\ stmt.type = "changeCommit" /\ stmt' = Idle
      /\ leaked' = IF stmt.rc # "ok" /\ stmt.changed THEN "change" ELSE leaked
      /\ UNCHANGED <<rel, index, logged, disk, suspect, db>>
      /\ Commit \/ UNCHANGED <<xact, undo, committed, forgotten>>
  BY DEF ChangeCommit
<1>2. /\ IsTable(rel)' /\ LogOK' /\ Kept'
      /\ (xact = "none" => undo = <<>>) => (xact' = "none" => undo' = <<>>)
  BY <1>1, CommitOK DEF Inv
<1>3. StmtOK' /\ XactOK' /\ InProgress'
  BY <1>1, <1>2 DEF Inv, StmtOK, XactOK, InProgress, Changing, Working, Idle
<1>4. IndexOK'
  <2>1. \A n \in IndexNos : \A e \in Differ(index[n], EntriesOf(n, rel)) :
          <<n, e>> \in suspect
    BY <1>1 DEF Inv, IndexOK, Excused, Working
  <2> QED
    BY <1>1, <2>1 DEF Inv, IndexOK, Excused, EntriesOf
<1>5. DiskOK'
  BY <1>1 DEF Inv, DiskOK, Closed, Changing, Idle
<1> QED
  BY <1>2, <1>3, <1>4, <1>5 DEF Inv

LEMMA DeleteTupleInv ==
  ASSUME Inv, Working, DeleteTuple
  PROVE  Inv'
<1> DEFINE old == rel[Rid]
<1>1. /\ stmt.type = "delete" /\ Changing /\ Rid \in DOMAIN rel
      /\ Logged(Change(Rid, old)) /\ rel' = Put(rel, Rid, <<>>)
      /\ stmt' \in {[Passed EXCEPT !.count = @ + 1, !.changed = TRUE],
                    [Stopped("ENTRYNOTFOUND") EXCEPT !.count = @ + 1, !.changed = TRUE]}
      /\ UNCHANGED <<xact, disk, leaked, committed, forgotten, db>>
  BY DEF DeleteTuple, Changing
<1>2. /\ DOMAIN index' = IndexNos
      /\ \A n \in IndexNos : \/ index'[n] = index[n]
                             \/ index'[n] = index[n] \ {Entry(n, Rid, old)}
      /\ suspect' = suspect \union
           {<<n, Entry(n, Rid, old)>> : n \in {m \in IndexNos : index'[m] = index[m]}}
  BY DEF DeleteTuple
<1>3. /\ Rid \in Rids /\ old # <<>> /\ DOMAIN index = IndexNos
  BY <1>1, TupleNotEmpty DEF Inv, IsTable, IndexOK
<1>4. /\ stmt'.type = stmt.type /\ stmt'.change = stmt.change
      /\ stmt'.changed /\ DOMAIN stmt' = DOMAIN stmt /\ stmt # Idle /\ stmt' # Idle
  <2>1. /\ DOMAIN Passed = DOMAIN stmt /\ DOMAIN Stopped("ENTRYNOTFOUND") = DOMAIN stmt
        /\ Passed.type = stmt.type /\ Stopped("ENTRYNOTFOUND").type = stmt.type
        /\ Passed.change = stmt.change /\ Stopped("ENTRYNOTFOUND").change = stmt.change
    BY <1>1, ChangeFields
  <2>2. PICK p : /\ stmt' = [p EXCEPT !.count = @ + 1, !.changed = TRUE]
                 /\ p \in {Passed, Stopped("ENTRYNOTFOUND")}
    BY <1>1
  <2>3. /\ DOMAIN p = DOMAIN stmt /\ p.type = stmt.type
        /\ p.change = stmt.change
    BY <2>1, <2>2
  <2>4. {"type", "change", "count", "changed"} \subseteq DOMAIN stmt
    BY <1>1, ChangeFields
  <2> QED
    BY <1>1, <2>2, <2>3, <2>4 DEF Idle
<1> HIDE DEF old
<1>5. /\ IsTable(rel)' /\ LogOK' /\ Kept'
      /\ ToSet(undo') = ToSet(undo) \union {Change(Rid, old)}
  BY <1>1, <1>3, ChangeLogged DEF Inv, old
<1>6. StmtOK' /\ Changing'
  BY <1>1, <1>4, SameChange DEF Inv
<1>7. XactOK'
  BY <1>1, <1>6 DEF Inv, XactOK, Changing, Working
<1>8. IndexOK'
  <2>1. ASSUME NEW n \in IndexNos, NEW e \in Differ(index'[n], EntriesOf(n, rel'))
        PROVE  <<n, e>> \in suspect'
    <3>1. e \in EntriesOf(n, rel') <=> e \in EntriesOf(n, rel) /\ e # Entry(n, Rid, old)
      BY <1>1, ChangeEntries DEF old
    <3>2. CASE e = Entry(n, Rid, old)
      <4>1. e \in index'[n]
        BY <3>1, <3>2 DEF Differ
      <4>2. index'[n] = index[n]
        BY <1>2, <3>2, <4>1
      <4> QED
        BY <1>2, <3>2, <4>2
    <3>3. CASE e # Entry(n, Rid, old)
      <4>1. e \in Differ(index[n], EntriesOf(n, rel))
        BY <1>2, <3>1, <3>3 DEF Differ
      <4>2. Excused(n, e)
        BY <4>1 DEF Inv, IndexOK, Working
      <4>3. <<n, e>> \in suspect
        BY <1>1, <4>2 DEF Excused, Working
      <4> QED
        BY <1>2, <4>3
    <3> QED
      BY <3>2, <3>3
  <2>2. \A n : EntriesOf(n, rel)' = EntriesOf(n, rel')
    BY DEF EntriesOf
  <2> QED
    BY <1>2, <2>1, <2>2 DEF IndexOK, Excused
<1>9. InProgress' /\ DiskOK'
  BY <1>1, <1>4, <1>6 DEF Inv, DiskOK, InProgress, Changing
<1> QED
  BY <1>5, <1>6, <1>7, <1>8, <1>9 DEF Inv

LEMMA InfoOK ==
  ASSUME NEW ref, AttrExists(ref, Attrs)
  PROVE  \E k \in DOMAIN Attrs : Info(ref, Attrs) = Attrs[k]
<1> DEFINE I == {i \in 1 .. Len(Attrs) :
                   Attrs[i].attr = ref.attr /\ ref.rel \in {Unnamed, Attrs[i].rel}}
<1>1. AttrAt(ref, Attrs) = IF I # {} THEN Min(I) ELSE 0
  BY DEF AttrAt, SelectInSeq
<1>2. I # {} /\ AttrAt(ref, Attrs) = Min(I)
  BY <1>1 DEF AttrExists
<1>3. I \subseteq Nat
  OBVIOUS
<1>4. Min(I) \in I
  <2> HIDE DEF I
  <2> QED
    BY <1>2, <1>3, MinFound
<1>5. Info(ref, Attrs) = Attrs[Min(I)]
  <2> HIDE DEF I
  <2> QED
    BY <1>2 DEF Info
<1>6. Min(I) \in DOMAIN Attrs
  BY <1>4, SchemaAssumption
<1> QED
  BY <1>5, <1>6

LEMMA UpdateFields ==
  ASSUME Inv, stmt.type = "update"
  PROVE  stmt.change \in Changes /\ stmt.change.type = "update"
<1>1. stmt # Idle
  BY DEF Idle
<1> QED
  BY <1>1 DEF Inv, StmtOK

(* What an update makes of a tuple. *)
SetIn(c, t) == [t EXCEPT ![SetInfo(c).offset] =
                  IF c.rhsIsAttr THEN t[Info(c.rhs, Attrs).offset] ELSE c.rhs.data]

LEMMA SetTuple ==
  ASSUME NEW c \in Changes, c.type = "update", NEW t, IsTuple(t)
  PROVE  IsTuple(SetIn(c, t))
<1>1. c.rhsIsAttr => t[Info(c.rhs, Attrs).offset] \in Int
  <2> SUFFICES ASSUME c.rhsIsAttr PROVE t[Info(c.rhs, Attrs).offset] \in Int
    OBVIOUS
  <2>1. AttrExists(c.rhs, Attrs)
    BY StatementsAssumption
  <2>2. PICK k \in DOMAIN Attrs : Info(c.rhs, Attrs) = Attrs[k]
    BY <2>1, InfoOK
  <2>3. Attrs[k].offset \in Offsets
    BY DEF Offsets, ToSet
  <2> QED
    BY <2>2, <2>3 DEF IsTuple
<1>2. ~c.rhsIsAttr => c.rhs.data \in Int
  BY StatementsAssumption
<1> QED
  BY <1>1, <1>2 DEF IsTuple, SetIn

LEMMA OfIndexOK ==
  ASSUME NEW n \in IndexNos
  PROVE  \E j \in DOMAIN Attrs : OfIndex(n) = Attrs[j] /\ Attrs[j].indexNo = n
<1>1. \E a \in ToSet(Attrs) : a.indexNo = n
  BY DEF IndexNos
<1>2. OfIndex(n) \in ToSet(Attrs) /\ OfIndex(n).indexNo = n
  BY <1>1 DEF OfIndex
<1> QED
  BY <1>2 DEF ToSet

(* Setting an attribute changes the entries of its own index only.         *)
LEMMA OtherEntry ==
  ASSUME NEW n \in IndexNos, NEW k \in DOMAIN Attrs, n # Attrs[k].indexNo,
         NEW t, IsTuple(t), NEW v, NEW rid
  PROVE  Entry(n, rid, [t EXCEPT ![Attrs[k].offset] = v]) = Entry(n, rid, t)
<1>1. PICK j \in DOMAIN Attrs : OfIndex(n) = Attrs[j] /\ Attrs[j].indexNo = n
  BY OfIndexOK
<1>2. Attrs[j].offset # Attrs[k].offset
  BY <1>1, SchemaAssumption
<1>3. Attrs[j].offset \in DOMAIN t
  BY <1>1 DEF IsTuple, Offsets, ToSet
<1> QED
  BY <1>1, <1>2, <1>3 DEF Entry

LEMMA UpdateTupleInv ==
  ASSUME Inv, Working, UpdateTuple
  PROVE  Inv'
<1> DEFINE c == stmt.change
           n == SetInfo(c).indexNo
           t == [rel[Rid] EXCEPT ![SetInfo(c).offset] =
                   IF c.rhsIsAttr THEN rel[Rid][Info(c.rhs, Attrs).offset] ELSE c.rhs.data]
           old == rel[Rid]
           E(m, x) == Entry(m, Rid, x)
<1>1. /\ stmt.type = "update" /\ Changing /\ Rid \in DOMAIN rel
      /\ stmt.type # "changeCommit"
      /\ db' \in {db, "torn"}
      /\ UNCHANGED <<xact, disk, leaked, committed, forgotten, suspect>>
  BY DEF UpdateTuple, Changing
<1>2. \/ /\ stmt' = Stopped("ENTRYNOTFOUND")
         /\ UNCHANGED <<rel, index, undo, logged, db>>
      \/ /\ Logged(Change(Rid, old)) /\ rel' = Put(rel, Rid, t)
         /\ index' = IF n = -1 THEN index
                     ELSE [index EXCEPT ![n] = Replaced(@, E(n, old), E(n, t))]
         /\ stmt' \in {[Stopped("DUPLICATEENTRY") EXCEPT !.changed = TRUE],
                       [Passed EXCEPT !.changed = TRUE]}
  BY DEF UpdateTuple
<1>3. /\ stmt'.type = stmt.type /\ stmt'.change = stmt.change
      /\ stmt'.changed = stmt.changed \/ stmt'.changed
      /\ DOMAIN stmt' = DOMAIN stmt /\ stmt # Idle /\ stmt' # Idle
  <2>1. {"type", "change", "changed"} \subseteq DOMAIN stmt /\ stmt # Idle
    BY <1>1, ChangeFields
  <2>2. PICK p \in {Passed, Stopped("ENTRYNOTFOUND"), Stopped("DUPLICATEENTRY")} :
          stmt' = p \/ stmt' = [p EXCEPT !.changed = TRUE]
    BY <1>2
  <2>3. /\ DOMAIN p = DOMAIN stmt /\ p.type = stmt.type
        /\ p.change = stmt.change /\ p.changed = stmt.changed
    BY <1>1, <2>2, ChangeFields
  <2> QED
    BY <1>1, <2>1, <2>2, <2>3 DEF Idle
<1>4. StmtOK' /\ Changing'
  BY <1>1, <1>3, SameChange DEF Inv
<1>5. CASE UNCHANGED <<rel, index, undo, logged, db>> /\ stmt' = Stopped("ENTRYNOTFOUND")
  <2>1. stmt'.changed = stmt.changed
    BY <1>1, <1>5, ChangeFields
  <2>2. DiskOK'
    BY <1>1, <1>3, <1>5, <2>1 DEF Inv, DiskOK, Closed, Changing
  <2> QED
    BY <1>1, <1>3, <1>4, <1>5, <2>2, NothingChanged
<1>6. CASE /\ Logged(Change(Rid, old)) /\ rel' = Put(rel, Rid, t)
           /\ index' = IF n = -1 THEN index
                       ELSE [index EXCEPT ![n] = Replaced(@, E(n, old), E(n, t))]
           /\ stmt'.changed
  <2>1. /\ Rid \in Rids /\ IsTuple(old) /\ IsTuple(t) /\ old # <<>> /\ t # <<>>
        /\ DOMAIN index = IndexNos
    <3>1. Rid \in Rids /\ IsTuple(old) /\ DOMAIN index = IndexNos
      BY <1>1 DEF Inv, IsTable, IndexOK
    <3>2. c \in Changes /\ c.type = "update"
      BY <1>1, UpdateFields
    <3>3. IsTuple(t)
      BY <3>1, <3>2, SetTuple DEF SetIn
    <3> QED
      BY <3>1, <3>3, TupleNotEmpty
  <2>2. PICK k \in DOMAIN Attrs : SetInfo(c) = Attrs[k]
    <3>1. AttrExists(c.set, Attrs)
      BY <1>1, UpdateFields, StatementsAssumption
    <3> QED
      BY <3>1, InfoOK DEF SetInfo
  <2>3. \A m \in IndexNos : m # n => E(m, t) = E(m, old)
    BY <2>1, <2>2, OtherEntry
  <2>4. n # -1 => n \in IndexNos
    BY <2>2 DEF IndexNos, ToSet
  <2>5. /\ DOMAIN index' = IndexNos
        /\ \A m \in IndexNos :
             index'[m] = IF m = n THEN (index[n] \ {E(n, old)}) \union {E(n, t)} ELSE index[m]
    BY <1>6, <2>1, <2>4 DEF Replaced, IndexNos
  <2> HIDE DEF c, n, t, old, E
  <2>6. /\ IsTable(rel)' /\ LogOK' /\ Kept'
        /\ ToSet(undo') = ToSet(undo) \union {Change(Rid, old)}
    BY <1>1, <1>6, <2>1, ChangeLogged DEF Inv, old
  <2>7. XactOK'
    BY <1>1, <1>4 DEF Inv, XactOK, Changing, Working
  <2>8. \A m \in IndexNos : \A e :
          /\ e \in EntriesOf(m, rel') <=>
               e = E(m, t) \/ (e \in EntriesOf(m, rel) /\ e # E(m, old))
          /\ E(m, old) \in EntriesOf(m, rel)
    BY <1>1, <1>6, <2>1, ChangeEntries DEF old, E, EntriesOf
  <2>9. \A m \in IndexNos : Differ(index'[m], EntriesOf(m, rel'))
                              \subseteq Differ(index[m], EntriesOf(m, rel))
    BY <2>3, <2>5, <2>8 DEF Differ
  <2>10. IndexOK'
    <3>1. ASSUME NEW m \in IndexNos, NEW e \in Differ(index'[m], EntriesOf(m, rel'))
          PROVE  <<m, e>> \in suspect'
      <4>1. e \in Differ(index[m], EntriesOf(m, rel))
        BY <2>9
      <4>2. Excused(m, e)
        BY <4>1 DEF Inv, IndexOK, Working
      <4> QED
        BY <1>1, <4>2 DEF Excused, Working
    <3>2. \A m : EntriesOf(m, rel)' = EntriesOf(m, rel')
      BY DEF EntriesOf
    <3> QED
      BY <2>5, <3>1, <3>2 DEF IndexOK, Excused
  <2>11. InProgress' /\ DiskOK'
    BY <1>1, <1>3, <1>4, <1>6 DEF Inv, DiskOK, InProgress, Changing
  <2> QED
    BY <1>4, <2>6, <2>7, <2>10, <2>11 DEF Inv
<1>7. \A p : p \in {Stopped("DUPLICATEENTRY"), Passed}
              => [p EXCEPT !.changed = TRUE].changed
  BY <1>1, ChangeFields
<1> QED
  BY <1>2, <1>5, <1>6, <1>7

LEMMA ElsewhereInv ==
  ASSUME Inv, Ready, JoinQuery \/ InsertElsewhere \/ DropElsewhere,
         UNCHANGED <<rel, index, xact, disk, leaked, stmt, committed, forgotten, suspect, db>>
  PROVE  Inv'
<1>1. /\ stmt = Idle /\ db \notin {"down", "lost", "torn"}
      /\ XactOK /\ IndexOK /\ StmtOK
  BY DEF Ready, Running, Inv
<1>2. /\ logged \subseteq logged' /\ (xact = "none" => undo' = undo)
      /\ \/ undo' = undo
         \/ \E file \in {"temp", "s"} : Logged(Elsewhere(file))
  BY DEF JoinQuery, InsertElsewhere, DropElsewhere, LoggedElsewhere, Logged
<1>3. IsTable(rel)'
  BY DEF Inv
<1>4. LogOK' /\ Kept'
  <2>1. CASE undo' = undo
    BY <1>2, <2>1 DEF Inv, LogOK, Kept, TupleAt
  <2>2. CASE \E file \in {"temp", "s"} : Logged(Elsewhere(file))
    <3>1. PICK file \in {"temp", "s"} : Logged(Elsewhere(file))
      BY <2>2
    <3>2. Elsewhere(file).file # "r"
      BY DEF Elsewhere
    <3>3. LogOK' /\ Restored(undo', rel) = Restored(undo, UndoOne(rel, Elsewhere(file)))
      BY <3>1, <3>2, LogGrows DEF Inv
    <3>4. UndoOne(rel, Elsewhere(file)) = rel
      BY <3>2 DEF UndoOne
    <3> QED
      BY <3>3, <3>4 DEF Inv, Kept, TupleAt
  <2> QED
    BY <1>2, <2>1, <2>2
<1>5. StmtOK' /\ XactOK' /\ InProgress' /\ DiskOK'
  BY <1>1, <1>2 DEF Inv, DiskOK, Closed, StmtOK, XactOK, InProgress, Changing, Idle
<1>6. IndexOK'
  <2>1. \A n \in IndexNos : \A e \in Differ(index[n], EntriesOf(n, rel)) :
          <<n, e>> \in suspect
    BY <1>1, ExcusedWhenIdle
  <2> QED
    BY <1>1, <2>1 DEF IndexOK, Excused, EntriesOf
<1> QED
  BY <1>3, <1>4, <1>5, <1>6 DEF Inv

(* Nothing is executed and the log is as it was, emptied when the          *)
(* transaction commits.                                                    *)
LEMMA IdleInv ==
  ASSUME Inv, stmt = Idle, db \notin {"down", "lost", "torn"},
         db' \notin {"down", "lost", "torn"},
         \/ Commit
         \/ /\ UNCHANGED <<undo, committed, forgotten>>
            /\ xact' # "none" /\ logged' = logged
         \/ /\ UNCHANGED <<xact, undo, committed, forgotten>>
            /\ undo = <<>>,
         UNCHANGED <<rel, index, disk, leaked, stmt, suspect>>
  PROVE  Inv'
<1>1. IsTable(rel)'
  BY DEF Inv
<1>2. <<>> \in Seq(ToSet(<<>>)) /\ ToSet(<<>>) = {}
  BY DEF ToSet
<1>3. LogOK'
  <2>1. CASE undo' = <<>>
    BY <1>2, <2>1 DEF LogOK
  <2>2. CASE undo' = undo /\ logged' = logged
    BY <2>2 DEF Inv, LogOK
  <2> QED
    BY <2>1, <2>2 DEF Commit
<1>4. Kept'
  BY RestoredEmpty DEF Inv, Kept, TupleAt, Commit
<1>5. StmtOK' /\ XactOK' /\ InProgress' /\ DiskOK'
  BY DEF Inv, DiskOK, Closed, StmtOK, XactOK, InProgress, Changing, Idle, Commit
<1>6. IndexOK'
  <2>1. \A n \in IndexNos : \A e \in Differ(index[n], EntriesOf(n, rel)) :
          <<n, e>> \in suspect
    BY ExcusedWhenIdle
  <2> QED
    BY <2>1 DEF Inv, IndexOK, Excused, EntriesOf
<1> QED
  BY <1>1, <1>3, <1>4, <1>5, <1>6 DEF Inv

LEMMA TransactionInv ==
  ASSUME Inv, BeginT \/ CommitT \/ Checkpoint
  PROVE  Inv'
<1>1. /\ stmt = Idle /\ db \notin {"down", "lost", "torn"}
      /\ db' \notin {"down", "lost", "torn"}
  BY DEF BeginT, CommitT, Checkpoint, Ready, Running
<1>2. UNCHANGED <<rel, index, disk, leaked, stmt, suspect>>
  BY DEF BeginT, CommitT, Checkpoint
<1>3. CASE BeginT
  BY <1>1, <1>2, <1>3, IdleInv DEF BeginT
<1>4. CASE CommitT
  BY <1>1, <1>2, <1>4, IdleInv DEF CommitT
<1>5. CASE Checkpoint
  <2>1. undo = <<>> /\ UNCHANGED <<xact, undo, committed, forgotten>>
    BY <1>5 DEF Checkpoint, Inv, XactOK
  <2> QED
    BY <1>1, <1>2, <2>1, IdleInv
<1> QED
  BY <1>3, <1>4, <1>5

LEMMA AbortTInv ==
  ASSUME Inv, AbortT
  PROVE  Inv'
<1>1. /\ stmt = Idle /\ db \in {"open", "recovered"}
      /\ RollBack /\ xact' = IF Undoable = undo THEN "none" ELSE xact
      /\ UNCHANGED <<index, logged, leaked, db, stmt, committed, forgotten>> /\ xact # "none"
  BY DEF AbortT, Running
<1>2. /\ IsTable(rel)' /\ LogOK' /\ Kept'
      /\ Undoes(Undoable, rel, rel')
      /\ Undoable = undo => undo' = <<>>
  BY <1>1, RollBackOK DEF Inv
<1>3. StmtOK' /\ XactOK' /\ InProgress'
  BY <1>1, <1>2 DEF Inv, StmtOK, XactOK, InProgress, Changing, Idle
<1>4. IndexOK'
  <2>1. ASSUME NEW n \in IndexNos
        PROVE  \A e \in Differ(index'[n], EntriesOf(n, rel')) : <<n, e>> \in suspect'
    <3>1. \A e \in Differ(index[n], EntriesOf(n, rel)) : <<n, e>> \in suspect
      BY <1>1, ExcusedWhenIdle
    <3> QED
      BY <1>1, <1>2, <3>1, RollBackIndexes
  <2>2. \A n : EntriesOf(n, rel)' = EntriesOf(n, rel')
    BY DEF EntriesOf
  <2> QED
    BY <1>1, <2>1, <2>2 DEF Inv, IndexOK, Excused
<1>5. DiskOK'
  <2>1. DOMAIN disk = {"rel", "index"} /\ IsTable(rel) /\ \A t \in disk.rel : IsTable(t)
    BY DEF Inv, DiskOK
  <2>2. /\ DOMAIN disk' = {"rel", "index"} /\ disk'.index = disk.index
        /\ disk'.rel = {rel'} \union IF leaked = "no" THEN {} ELSE disk.rel \union {rel}
    BY <1>1, <2>1 DEF RollBack
  <2>3. IsTable(rel')
    BY <1>2 DEF Undoes
  <2> QED
    BY <1>1, <2>1, <2>2, <2>3 DEF Inv, DiskOK, Closed, Changing, Idle
<1> QED
  BY <1>2, <1>3, <1>4, <1>5 DEF Inv

(* The log has no record of r: undoing it changes nothing.                 *)
LEMMA NothingOfR ==
  ASSUME LogOK, "r" \notin logged, NEW t, IsTable(t)
  PROVE  Restored(undo, t) = t
<1>1. undo \in Seq(ToSet(undo)) /\ \A q \in ToSet(undo) : q.file # "r"
  BY DEF LogOK
<1>2. Undoes(undo, t, Restored(undo, t))
  BY <1>1, RestoredUndoes
<1> DEFINE x == Restored(undo, t)
<1>3. IsTable(x) /\ DOMAIN x = DOMAIN t /\ \A i \in DOMAIN t : x[i] = t[i]
  BY <1>1, <1>2 DEF Undoes
<1> HIDE DEF x
<1>4. x = [i \in DOMAIN x |-> x[i]] /\ t = [i \in DOMAIN t |-> t[i]]
  BY <1>3 DEF IsTable
<1>5. x = t
  BY <1>3, <1>4
<1> QED
  BY <1>5 DEF x

(* An index on disk differs from the one in memory in what was not written. *)
LEMMA IndexesRead ==
  ASSUME IndexesOnDisk
  PROVE  /\ DOMAIN index' = IndexNos
         /\ \A n \in IndexNos : \A e \in Differ(index'[n], index[n]) : <<n, e>> \in Unwritten
<1>1. PICK written \in SUBSET Unwritten :
        index' = [n \in IndexNos |->
                    {e \in index[n] \union disk.index[n] :
                       IF <<n, e>> \in Unwritten \ written THEN e \in disk.index[n]
                       ELSE e \in index[n]}]
  BY DEF IndexesOnDisk
<1>2. ASSUME NEW n \in IndexNos, NEW e,
             e \in (index[n] \ disk.index[n]) \union (disk.index[n] \ index[n])
      PROVE  <<n, e>> \in Unwritten
  <2> DEFINE D(m) == (index[m] \ disk.index[m]) \union (disk.index[m] \ index[m])
  <2>1. <<n, e>> \in {n} \X D(n)
    BY <1>2
  <2>2. Unwritten = UNION {{m} \X D(m) : m \in IndexNos}
    BY DEF Unwritten
  <2> HIDE DEF D
  <2> QED
    BY <2>1, <2>2
<1>3. ASSUME NEW n \in IndexNos, NEW e \in Differ(index'[n], index[n])
      PROVE  <<n, e>> \in Unwritten
  <2>1. index'[n] = {d \in index[n] \union disk.index[n] :
                       IF <<n, d>> \in Unwritten \ written THEN d \in disk.index[n]
                       ELSE d \in index[n]}
    BY <1>1
  <2> QED
    BY <1>2, <2>1 DEF Differ
<1> QED
  BY <1>1, <1>3

(* The relation on disk has a tuple of one of the versions at every place,  *)
(* and the one in memory where they agree.                                 *)
LEMMA TableRead ==
  ASSUME Inv, TableOnDisk
  PROVE  /\ IsTable(rel')
         /\ \A rid \in Rids \ Unsettled : TupleAt(rel', rid) = TupleAt(rel, rid)
         /\ \A i \in DOMAIN rel' : \E t \in Versions : i \in DOMAIN t /\ rel'[i] = t[i]
<1>1. PICK from \in [Unsettled -> Versions] :
        LET At(rid) == TupleAt(IF rid \in Unsettled THEN from[rid] ELSE rel, rid)
        IN  rel' = [rid \in {i \in Rids : At(i) # <<>>} |-> At(rid)]
  BY DEF TableOnDisk
<1> DEFINE V(rid) == IF rid \in Unsettled THEN from[rid] ELSE rel
<1>2. /\ \A rid \in Rids : V(rid) \in Versions
      /\ \A rid \in Rids \ Unsettled : V(rid) = rel
  BY DEF Versions, Unsettled
<1>3. \A t \in Versions : IsTable(t)
  BY DEF Inv, DiskOK, Versions
<1>4. rel' = [rid \in {i \in Rids : TupleAt(V(i), i) # <<>>} |-> TupleAt(V(rid), rid)]
  BY <1>1
<1> HIDE DEF V
<1>5. /\ DOMAIN rel' = {i \in Rids : TupleAt(V(i), i) # <<>>}
      /\ rel' = [i \in DOMAIN rel' |-> rel'[i]]
      /\ \A i \in DOMAIN rel' : rel'[i] = TupleAt(V(i), i)
  BY <1>4
<1>6. \A i \in Rids : TupleAt(V(i), i) # <<>> => i \in DOMAIN V(i) /\ TupleAt(V(i), i) = V(i)[i]
  BY DEF TupleAt
<1>7. IsTable(rel')
  BY <1>2, <1>3, <1>5, <1>6 DEF IsTable
<1>8. \A rid \in Rids \ Unsettled : TupleAt(rel', rid) = TupleAt(rel, rid)
  BY <1>2, <1>5 DEF TupleAt
<1> QED
  BY <1>2, <1>5, <1>6, <1>7, <1>8

LEMMA TableReadEntries ==
  ASSUME Inv, TableOnDisk, NEW n \in IndexNos,
         NEW e \in Differ(EntriesOf(n, rel'), EntriesOf(n, rel))
  PROVE  <<n, e>> \in EntriesAt(Unsettled, Versions)
<1>1. \A i \in DOMAIN rel : IsTuple(rel[i]) /\ i \in Rids /\ rel[i] # <<>>
  BY TupleNotEmpty DEF Inv, IsTable
<1>2. /\ \A i \in DOMAIN rel' : i \in Rids /\ rel'[i] # <<>>
      /\ \A i \in DOMAIN rel' : \E t \in Versions : i \in DOMAIN t /\ rel'[i] = t[i]
      /\ \A rid \in Rids \ Unsettled : TupleAt(rel', rid) = TupleAt(rel, rid)
  BY TableRead, TupleNotEmpty DEF IsTable
<1>3. PICK i \in Unsettled, t \in Versions : i \in DOMAIN t /\ e = Entry(n, i, t[i])
  <2>1. CASE e \in EntriesOf(n, rel') /\ e \notin EntriesOf(n, rel)
    <3>1. PICK i \in DOMAIN rel' : e = Entry(n, i, rel'[i])
      BY <2>1 DEF EntriesOf
    <3>2. ~(i \in DOMAIN rel /\ rel[i] = rel'[i])
      BY <2>1, <3>1 DEF EntriesOf
    <3>3. i \in Unsettled
      BY <1>2, <3>2 DEF TupleAt
    <3> QED
      BY <1>2, <3>1, <3>3
  <2>2. CASE e \in EntriesOf(n, rel) /\ e \notin EntriesOf(n, rel')
    <3>1. PICK i \in DOMAIN rel : e = Entry(n, i, rel[i])
      BY <2>2 DEF EntriesOf
    <3>2. ~(i \in DOMAIN rel' /\ rel[i] = rel'[i])
      BY <2>2, <3>1 DEF EntriesOf
    <3>3. i \in Unsettled
      BY <1>1, <1>2, <3>2 DEF TupleAt
    <3> QED
      BY <3>1, <3>3 DEF Versions
  <2> QED
    BY <2>1, <2>2 DEF Differ
<1> DEFINE P == {q \in Unsettled \X Versions : q[1] \in DOMAIN q[2]}
<1>4. <<i, t>> \in P /\ <<i, t>>[1] = i /\ <<i, t>>[2] = t
  BY <1>3
<1>5. EntriesAt(Unsettled, Versions) = {<<m, Entry(m, p[1], p[2][p[1]])>> : m \in IndexNos, p \in P}
  BY DEF EntriesAt
<1> HIDE DEF P
<1> QED
  BY <1>3, <1>4, <1>5

LEMMA CrashInv ==
  ASSUME Inv, Crash
  PROVE  Inv'
<1>1. /\ db = "open" /\ db' \in {"down", "torn"} /\ stmt' = Idle /\ leaked' = "no"
      /\ disk' = [rel |-> {rel'}, index |-> index'] /\ IndexesOnDisk
      /\ UNCHANGED <<xact, undo, logged, committed>>
      /\ suspect \subseteq suspect' /\ Unwritten \subseteq suspect'
  BY DEF Crash, TornOr
<1>2. \/ UNCHANGED <<rel, forgotten>>
      \/ /\ Unlogged /\ TableOnDisk /\ forgotten' = forgotten \union Unsettled
         /\ EntriesAt(Unsettled, Versions) \subseteq suspect'
  BY DEF Crash
<1>3. IsTable(rel)' /\ LogOK' /\ Kept'
  <2>1. LogOK'
    BY <1>1 DEF Inv, LogOK
  <2>2. CASE UNCHANGED <<rel, forgotten>>
    BY <1>1, <2>1, <2>2 DEF Inv, Kept, TupleAt
  <2>3. CASE /\ Unlogged /\ TableOnDisk /\ forgotten' = forgotten \union Unsettled
    <3>1. IsTable(rel) /\ IsTable(rel') /\ "r" \notin logged
      BY <2>3, TableRead DEF Inv, Unlogged
    <3>2. Restored(undo, rel) = rel /\ Restored(undo', rel') = rel'
      BY <1>1, <3>1, NothingOfR DEF Inv
    <3>3. \A rid \in Rids \ forgotten' : TupleAt(rel', rid) = TupleAt(committed', rid)
      BY <1>1, <2>3, <3>2, TableRead DEF Inv, Kept, TupleAt
    <3> QED
      BY <2>1, <3>1, <3>2, <3>3 DEF Kept, TupleAt
  <2> QED
    BY <1>2, <2>2, <2>3
<1>4. StmtOK' /\ XactOK' /\ InProgress' /\ DiskOK'
  <2>1. IsTable(rel')
    BY <1>3
  <2> QED
    BY <1>1, <2>1 DEF Inv, StmtOK, XactOK, InProgress, DiskOK, Closed, Changing, Idle
<1>5. DOMAIN index' = IndexNos
  BY <1>1, IndexesRead
<1>6. IndexOK'
  <2>1. ASSUME NEW n \in IndexNos, NEW e \in Differ(index'[n], EntriesOf(n, rel'))
        PROVE  <<n, e>> \in suspect' \/ TouchedBy(undo', rel', n, e)
    <3>1. \/ e \in Differ(index'[n], index[n])
          \/ e \in Differ(index[n], EntriesOf(n, rel))
          \/ e \in Differ(EntriesOf(n, rel'), EntriesOf(n, rel))
      BY DEF Differ
    <3>2. CASE e \in Differ(index'[n], index[n])
      BY <1>1, <3>2, IndexesRead
    <3>3. CASE e \in Differ(index[n], EntriesOf(n, rel))
      <4>1. Excused(n, e)
        BY <1>1, <3>3 DEF Inv, IndexOK
      <4>2. CASE /\ stmt.type = "add" /\ n \in stmt.entries
                 /\ e = Entry(n, stmt.rid, rel[stmt.rid])
        <5>1. stmt.rid \in DOMAIN rel
          BY <4>2 DEF Inv, StmtOK, Idle, Changing
        <5>2. PICK r \in ToSet(undo) : r.file = "r" /\ r.rid = stmt.rid
          BY <4>2 DEF Inv, InProgress
        <5>3. stmt # Idle
          BY <4>2 DEF Idle
        <5>4. rel' = rel
          BY <1>2, <5>3 DEF Inv, DiskOK, Unlogged
        <5> QED
          BY <1>1, <4>2, <5>1, <5>2, <5>4 DEF TouchedBy
      <4> QED
        BY <1>1, <4>1, <4>2 DEF Excused
    <3>4. CASE e \in Differ(EntriesOf(n, rel'), EntriesOf(n, rel))
      <4>1. rel' # rel
        BY <3>4 DEF Differ
      <4> QED
        BY <1>2, <3>4, <4>1, TableReadEntries
    <3> QED
      BY <3>1, <3>2, <3>3, <3>4
  <2>2. /\ \A n : EntriesOf(n, rel)' = EntriesOf(n, rel')
        /\ \A n, e : TouchedBy(undo, rel, n, e)' = TouchedBy(undo', rel', n, e)
    BY DEF EntriesOf, TouchedBy
  <2> QED
    BY <1>1, <1>5, <2>1, <2>2 DEF IndexOK, Excused
<1> QED
  BY <1>3, <1>4, <1>6 DEF Inv

LEMMA ExitInv ==
  ASSUME Inv, Exit
  PROVE  Inv'
<1>1. /\ stmt = Idle /\ stmt' = Idle /\ db \notin {"down", "lost", "torn"}
      /\ db' \in {"open", "torn"} /\ leaked' = "no" /\ xact' = "none" /\ undo' = <<>>
      /\ disk' = [rel |-> {rel'}, index |-> index'] /\ IndexesOnDisk /\ TableOnDisk
      /\ suspect' = suspect \union Unwritten \union EntriesAt(Unsettled, Versions)
  BY DEF Exit, TornOr
<1>2. IsTable(rel')
  BY <1>1, TableRead
<1>3. LogOK'
  <2>1. <<>> \in Seq(ToSet(<<>>)) /\ ToSet(<<>>) = {}
    BY DEF ToSet
  <2> QED
    BY <1>1, <2>1 DEF LogOK
<1>4. Kept'
  <2>1. Restored(undo', rel') = rel'
    BY <1>1, RestoredEmpty
  <2>2. \A rid \in Rids \ forgotten' : TupleAt(rel', rid) = TupleAt(committed', rid)
    <3>1. CASE xact = "none"
      <4>1. undo = <<>> /\ forgotten' = forgotten \union Unsettled /\ committed' = committed
        BY <3>1 DEF Exit, Inv, XactOK
      <4>2. \A rid \in Rids \ forgotten : TupleAt(rel, rid) = TupleAt(committed, rid)
        BY <4>1, RestoredEmpty DEF Inv, Kept
      <4> QED
        BY <1>1, <4>1, <4>2, TableRead
    <3>2. CASE xact # "none"
      BY <3>2 DEF Exit
    <3> QED
      BY <3>1, <3>2
  <2> QED
    BY <2>1, <2>2 DEF Kept, TupleAt
<1>5. StmtOK' /\ XactOK' /\ InProgress' /\ DiskOK'
  BY <1>1, <1>2 DEF StmtOK, XactOK, InProgress, DiskOK, Closed, Changing, Idle
<1>6. IndexOK'
  <2>1. ASSUME NEW n \in IndexNos, NEW e \in Differ(index'[n], EntriesOf(n, rel'))
        PROVE  <<n, e>> \in suspect'
    <3>1. \/ e \in Differ(index'[n], index[n])
          \/ e \in Differ(index[n], EntriesOf(n, rel))
          \/ e \in Differ(EntriesOf(n, rel'), EntriesOf(n, rel))
      BY DEF Differ
    <3> QED
      BY <1>1, <3>1, IndexesRead, ExcusedWhenIdle, TableReadEntries
  <2>2. \A n : EntriesOf(n, rel)' = EntriesOf(n, rel')
    BY DEF EntriesOf
  <2>3. DOMAIN index' = IndexNos
    BY <1>1, IndexesRead
  <2> QED
    BY <2>1, <2>2, <2>3 DEF IndexOK, Excused
<1> QED
  BY <1>2, <1>3, <1>4, <1>5, <1>6 DEF Inv

LEMMA RecoverInv ==
  ASSUME Inv, Recover
  PROVE  Inv'
<1>1. /\ db = "down" /\ stmt = Idle
      /\ UNCHANGED <<index, logged, leaked, stmt, committed, forgotten>>
  BY DEF Recover, Inv, XactOK
<1>2. CASE logged \subseteq files
  <2>1. RollBack /\ xact' = "none" /\ db' = "recovered"
    BY <1>2 DEF Recover
  <2>2. Undoable = undo
    BY <1>2, EverythingUndoable DEF Inv
  <2>3. /\ IsTable(rel)' /\ LogOK' /\ Kept' /\ undo' = <<>>
        /\ Undoes(Undoable, rel, rel')
    BY <1>1, <2>1, <2>2, RollBackOK DEF Inv
  <2>4. StmtOK' /\ XactOK' /\ InProgress'
    BY <1>1, <2>1, <2>3 DEF Inv, StmtOK, XactOK, InProgress, Changing, Idle
  <2>5. IndexOK'
    <3>1. ASSUME NEW n \in IndexNos
          PROVE  \A e \in Differ(index'[n], EntriesOf(n, rel')) : <<n, e>> \in suspect'
      <4>1. \A e \in Differ(index[n], EntriesOf(n, rel)) :
              <<n, e>> \in suspect \/ TouchedBy(Undoable, rel, n, e)
        BY <1>1, <2>2 DEF Inv, IndexOK, Excused, Idle
      <4> QED
        BY <1>1, <2>1, <2>3, <4>1, RollBackIndexes
    <3>2. \A n : EntriesOf(n, rel)' = EntriesOf(n, rel')
      BY DEF EntriesOf
    <3> QED
      BY <1>1, <3>1, <3>2 DEF Inv, IndexOK, Excused
  <2>6. DiskOK'
    <3>1. DOMAIN disk = {"rel", "index"} /\ IsTable(rel) /\ \A t \in disk.rel : IsTable(t)
      BY DEF Inv, DiskOK
    <3>2. /\ DOMAIN disk' = {"rel", "index"} /\ disk'.index = disk.index
          /\ disk'.rel = {rel'} \union IF leaked = "no" THEN {} ELSE disk.rel \union {rel}
      BY <2>1, <3>1 DEF RollBack
    <3>3. IsTable(rel')
      BY <2>3 DEF Undoes
    <3> QED
      BY <1>1, <3>1, <3>2, <3>3 DEF Inv, DiskOK, Closed, Changing, Idle
  <2> QED
    BY <2>3, <2>4, <2>5, <2>6 DEF Inv
<1>3. CASE ~(logged \subseteq files)
  <2>1. db' = "lost" /\ UNCHANGED <<rel, undo, disk, suspect, xact>>
    BY <1>3 DEF Recover
  <2>2. IsTable(rel)' /\ LogOK' /\ Kept'
    BY <1>1, <2>1 DEF Inv, LogOK, Kept, TupleAt
  <2>3. StmtOK' /\ XactOK' /\ InProgress' /\ IndexOK' /\ DiskOK'
    BY <1>1, <2>1 DEF Inv, DiskOK, Closed, StmtOK, XactOK, InProgress, IndexOK, Changing, Idle
  <2> QED
    BY <2>2, <2>3 DEF Inv
<1> QED
  BY <1>2, <1>3

LEMMA InitInv ==
  ASSUME Init
  PROVE  Inv
<1>1. /\ rel = <<>> /\ undo = <<>> /\ committed = <<>> /\ stmt = Idle /\ db = "open"
      /\ index = [n \in IndexNos |-> {}] /\ xact = "none"
      /\ disk = [rel |-> {rel}, index |-> index] /\ leaked = "no"
  BY DEF Init
<1>2. DOMAIN <<>> = {} /\ ToSet(<<>>) = {} /\ <<>> \in Seq(ToSet(<<>>))
  BY DEF ToSet
<1>3. IsTable(rel)
  BY <1>1, <1>2 DEF IsTable
<1>4. LogOK
  BY <1>1, <1>2 DEF LogOK
<1>5. Kept
  BY <1>1, RestoredEmpty DEF Kept, TupleAt
<1>6. IndexOK
  BY <1>1, <1>2 DEF IndexOK, EntriesOf, Differ
<1>7. StmtOK /\ XactOK /\ InProgress /\ DiskOK
  BY <1>1, <1>3 DEF DiskOK, Closed, StmtOK, XactOK, InProgress, Changing, Idle
<1> QED
  BY <1>3, <1>4, <1>5, <1>6, <1>7 DEF Inv

LEMMA StatementInv ==
  ASSUME Inv, Statement
  PROVE  Inv'
<1>1. Ready /\ UNCHANGED <<leaked, db>>
  BY DEF Statement
<1>2. CASE \E ts \in Loads : AddBegin(ts)
  BY <1>1, <1>2, AddBeginInv
<1>3. CASE \E c \in Changes : ChangeBegin(c)
  BY <1>1, <1>3, ChangeBeginInv
<1>4. CASE /\ JoinQuery \/ InsertElsewhere \/ DropElsewhere
           /\ UNCHANGED <<rel, index, xact, disk, stmt, committed, forgotten, suspect>>
  BY <1>1, <1>4, ElsewhereInv
<1> QED
  BY <1>2, <1>3, <1>4 DEF Statement

LEMMA StepInv ==
  ASSUME Inv, Step
  PROVE  Inv'
<1>1. Working
  BY DEF Step, Working
<1>2. \/ AddRecord \/ AddFails \/ AddEntry \/ AddCommit \/ AddCount
      \/ SkipTuple \/ DeleteTuple \/ UpdateTuple \/ ChangeCount \/ ChangeCommit
  BY DEF Step
<1> QED
  BY <1>1, <1>2, AddRecordInv, AddFailsInv, AddEntryInv, AddCommitInv, AddCountInv,
     SkipTupleInv, DeleteTupleInv, UpdateTupleInv, ChangeCountInv, ChangeCommitInv

LEMMA StutterInv ==
  ASSUME Inv, UNCHANGED vars
  PROVE  Inv'
<1>1. /\ IsTable(rel)' /\ StmtOK' /\ LogOK' /\ XactOK' /\ Kept'
  BY DEF Inv, vars, IsTable, StmtOK, LogOK, XactOK, Kept, TupleAt, Changing
<1>2. IndexOK' /\ InProgress' /\ DiskOK'
  BY DEF Inv, vars, DiskOK, Closed, IsTable, IndexOK, InProgress, Excused, EntriesOf, TouchedBy, Changing
<1> QED
  BY <1>1, <1>2 DEF Inv

LEMMA NextInv ==
  ASSUME Inv, [Next]_vars
  PROVE  Inv'
<1>1. CASE BeginT \/ CommitT \/ Checkpoint
  BY <1>1, TransactionInv
<1> QED
  BY <1>1, StatementInv, StepInv, AbortTInv, CrashInv, RecoverInv, ExitInv, StutterInv DEF Next

(* The invariant holds in every state: the relation, the log and the       *)
(* statement in execution are well formed, the records of the transaction  *)
(* lead back to the last commit, and the indexes differ from the relation  *)
(* only as Excused says.  All of QL_Manager's and SM_Manager's changes.    *)
THEOREM InvHolds == Spec => []Inv
<1>1. Init => Inv
  BY InitInv
<1>2. Inv /\ [Next]_vars => Inv'
  BY NextInv
<1> QED
  BY <1>1, <1>2, PTL DEF Spec

(* When no transaction is open the relation is as the last commit left it: *)
(* AbortT and Recover undo every change since, and in the order that       *)
(* leads back there (LG_Manager::UndoTransaction, LG_Manager::Recover).    *)
(* Places are excepted whose committed tuple a stopped statement had in    *)
(* files still open when the session or, after a checkpoint, the process   *)
(* ended: pf_manager.cc:118-124 gives each opening pages of its own.       *)
THEOREM RollbacksComplete == Spec => []RolledBack
<1>1. Inv => RolledBack
  <2> SUFFICES ASSUME Inv, xact = "none"
               PROVE  \A rid \in Rids \ forgotten :
                        TupleAt(rel, rid) = TupleAt(committed, rid)
    BY DEF RolledBack
  <2>1. undo = <<>>
    BY DEF Inv, XactOK
  <2> QED
    BY <2>1, RestoredEmpty DEF Inv, Kept
<1> QED
  BY <1>1, InvHolds, PTL

(* Between statements an index and the relation differ only in entries of  *)
(* changes that were undone or stopped, or that were in no closed index    *)
(* when the process or session ended: InsertEntry and DeleteEntry are      *)
(* called for every index whose entry of the record changes, by            *)
(* QL_Manager::Insert, qDelete::GetNext and qUpdate::GetNext.              *)
THEOREM IndexesFollow == Spec => []IndexesExceptSuspect
<1>1. Inv => IndexesExceptSuspect
  <2> SUFFICES ASSUME Inv, Ready, NEW n \in IndexNos,
                      NEW e \in index[n] \union EntriesOf(n, rel),
                      e \notin index[n] \intersect EntriesOf(n, rel)
               PROVE  <<n, e>> \in suspect
    BY DEF IndexesExceptSuspect
  <2>1. e \in Differ(index[n], EntriesOf(n, rel))
    BY DEF Differ
  <2>2. stmt = Idle /\ db \notin {"down", "lost", "torn"}
    BY DEF Ready, Running
  <2> QED
    BY <2>1, <2>2, ExcusedWhenIdle
<1> QED
  BY <1>1, InvHolds, PTL

-------------------------------------------------------------------------------
(* Conditions, the plans of deletions and updates, and what they scan.     *)

CondMet(k, t) ==
  LET x == t[Info(k.lhs, Attrs).offset]
      y == IF k.rhsIsAttr THEN t[Info(k.rhs, Attrs).offset] ELSE k.rhs.data
  IN  IF k.op = "NE" THEN x # y ELSE Wanted(k.op, y, <<x>>)

LEMMA MetIs == \A cs, t : Met(cs, t) <=> \A i \in DOMAIN cs : CondMet(cs[i], t)
BY DEF Met, CondMet

(* A condition taken out of a sequence leaves the others.                  *)
LEMMA MetRemoved ==
  ASSUME NEW S, NEW cs \in Seq(S), NEW at \in 1 .. Len(cs), NEW t
  PROVE  Met(cs, t) <=> CondMet(cs[at], t) /\ Met(RemoveAt(cs, at), t)
<1> DEFINE r == RemoveAt(cs, at)
           n == Len(cs)
<1>1. n \in Nat /\ DOMAIN cs = 1 .. n
  OBVIOUS
<1>2. /\ DOMAIN r = 1 .. n - 1
      /\ \A i \in 1 .. n - 1 : r[i] = IF i < at THEN cs[i] ELSE cs[i + 1]
  <2> DEFINE a == SubSeq(cs, 1, at - 1)
             b == SubSeq(cs, at + 1, n)
  <2>1. /\ a \in Seq(S) /\ Len(a) = at - 1
        /\ \A i \in 1 .. at - 1 : a[i] = cs[i]
    <3>1. \A i \in 1 .. at - 1 : cs[i] \in S
      OBVIOUS
    <3>2. 1 \in Int /\ at - 1 \in Int
      OBVIOUS
    <3>3. /\ a \in Seq(S)
          /\ Len(a) = IF 1 <= at - 1 THEN at - 1 - 1 + 1 ELSE 0
          /\ \A i \in 1 .. at - 1 - 1 + 1 : a[i] = cs[1 + i - 1]
      BY <3>1, <3>2, SubSeqProperties
    <3> QED
      BY <3>3
  <2>2. /\ b \in Seq(S) /\ Len(b) = n - at
        /\ \A i \in 1 .. n - at : b[i] = cs[at + i]
    <3>1. \A i \in at + 1 .. n : cs[i] \in S
      OBVIOUS
    <3>2. at + 1 \in Int /\ n \in Int
      OBVIOUS
    <3>3. /\ b \in Seq(S)
          /\ Len(b) = IF at + 1 <= n THEN n - (at + 1) + 1 ELSE 0
          /\ \A i \in 1 .. n - (at + 1) + 1 : b[i] = cs[at + 1 + i - 1]
      BY <3>1, <3>2, SubSeqProperties
    <3> QED
      BY <3>3
  <2>3. r = a \o b
    BY DEF RemoveAt
  <2> HIDE DEF a, b, r
  <2>4. /\ r \in Seq(S) /\ Len(r) = Len(a) + Len(b)
        /\ \A i \in 1 .. Len(a) + Len(b) : r[i] = IF i <= Len(a) THEN a[i] ELSE b[i - Len(a)]
    BY <2>1, <2>2, <2>3, ConcatProperties
  <2>5. Len(r) = n - 1 /\ DOMAIN r = 1 .. n - 1
    BY <2>1, <2>2, <2>4
  <2>6. ASSUME NEW i \in 1 .. n - 1
        PROVE  r[i] = IF i < at THEN cs[i] ELSE cs[i + 1]
    <3>1. r[i] = IF i <= Len(a) THEN a[i] ELSE b[i - Len(a)]
      BY <2>4, <2>5
    <3>2. CASE i < at
      <4>1. i \in 1 .. at - 1
        BY <3>2
      <4> QED
        BY <2>1, <3>1, <3>2, <4>1
    <3>3. CASE i >= at
      <4>1. i - (at - 1) \in 1 .. n - at /\ ~(i <= at - 1) /\ at + (i - (at - 1)) = i + 1
        BY <3>3
      <4>2. b[i - (at - 1)] = cs[i + 1]
        BY <2>2, <4>1
      <4> QED
        BY <2>1, <3>1, <3>3, <4>1, <4>2
    <3> QED
      BY <3>2, <3>3
  <2> QED
    BY <2>5, <2>6
<1> HIDE DEF r, n
<1>3. ASSUME Met(cs, t) PROVE CondMet(cs[at], t) /\ Met(r, t)
  <2>1. \A i \in 1 .. n : CondMet(cs[i], t)
    BY <1>1, <1>3, MetIs
  <2>2. \A i \in 1 .. n - 1 : CondMet(r[i], t)
    BY <1>1, <1>2, <2>1
  <2> QED
    BY <1>1, <1>2, <2>1, <2>2, MetIs DEF n
<1>4. ASSUME CondMet(cs[at], t), Met(r, t) PROVE Met(cs, t)
  <2>1. \A i \in 1 .. n - 1 : CondMet(r[i], t)
    BY <1>2, <1>4, MetIs
  <2>2. ASSUME NEW i \in 1 .. n PROVE CondMet(cs[i], t)
    <3>1. CASE i < at
      <4>1. i \in 1 .. n - 1
        BY <1>1, <3>1 DEF n
      <4> QED
        BY <1>2, <2>1, <3>1, <4>1
    <3>2. CASE i > at
      <4>1. i - 1 \in 1 .. n - 1 /\ ~(i - 1 < at) /\ (i - 1) + 1 = i
        BY <1>1, <3>2 DEF n
      <4>2. r[i - 1] = cs[i]
        BY <1>2, <4>1
      <4> QED
        BY <2>1, <4>1, <4>2
    <3> QED
      BY <1>4, <3>1, <3>2
  <2> QED
    BY <1>1, <2>2, MetIs
<1> QED
  BY <1>3, <1>4 DEF r

LEMMA MetOne == \A k, t : /\ Met(<<>>, t)
                          /\ Met(<<k>>, t) <=> CondMet(k, t)
<1> TAKE k, t
<1>1. DOMAIN <<>> = {} /\ DOMAIN <<k>> = {1} /\ <<k>>[1] = k
  OBVIOUS
<1> QED
  BY <1>1, MetIs

(* The scan and the filter of a plan have all its conditions between them; *)
(* an index is scanned for a condition on its attribute with a value.      *)
PlanScan(c) == IF ChangeTree(c).type = "filter" THEN ChangeTree(c).child ELSE ChangeTree(c)
PlanFilter(c) == IF ChangeTree(c).type = "filter" THEN ChangeTree(c).conds ELSE <<>>

LEMMA PlanOK ==
  ASSUME NEW c \in Changes
  PROVE  /\ PlanScan(c).type \in {"table", "index"}
         /\ \A t : Met(c.conds, t) <=> Met(PlanScan(c).conds, t) /\ Met(PlanFilter(c), t)
         /\ PlanScan(c).type = "index" =>
              \E at \in DOMAIN c.conds :
                LET k == c.conds[at] IN
                /\ PlanScan(c).conds = <<k>>
                /\ ~k.rhsIsAttr /\ AttrExists(k.lhs, Attrs)
                /\ Info(k.lhs, Attrs).indexNo # -1
<1> DEFINE cs == c.conds
           except == IF c.type = "update" THEN SetInfo(c).indexNo ELSE -1
           indexed == FindIndexedAttrCond(Len(cs), cs, Attrs, except)
           valued == SelectInSeq(cs, LAMBDA k : ~k.rhsIsAttr)
           at == IF indexed # 0 THEN indexed ELSE valued
           scan == Scan(IF indexed # 0 THEN "index" ELSE "table", "r",
                        IF at # 0 THEN <<cs[at]>> ELSE <<>>)
           rest == IF at # 0 THEN RemoveAt(cs, at) ELSE cs
<1>1. ChangeTree(c) = IF rest = <<>> THEN scan ELSE Filter(scan, rest)
  BY DEF ChangeTree, ChangePlan, Attrs
<1>2. cs \in Seq(ToSet(cs)) /\ Len(cs) \in Nat /\ DOMAIN cs = 1 .. Len(cs)
  BY StatementsAssumption
<1>3. /\ scan.type = (IF indexed # 0 THEN "index" ELSE "table")
      /\ scan.conds = (IF at # 0 THEN <<cs[at]>> ELSE <<>>)
  BY DEF Scan
<1> DEFINE Fits(k) == /\ ~k.rhsIsAttr /\ AttrExists(k.lhs, Attrs)
                      /\ Info(k.lhs, Attrs).indexNo \notin {-1, except}
           I == {i \in 1 .. Len(SubSeq(cs, 1, Len(cs))) : Fits(SubSeq(cs, 1, Len(cs))[i])}
           V == {i \in 1 .. Len(cs) : ~cs[i].rhsIsAttr}
<1>4. indexed = IF I # {} THEN Min(I) ELSE 0
  BY DEF FindIndexedAttrCond, SelectInSeq
<1>5. valued = IF V # {} THEN Min(V) ELSE 0
  BY DEF SelectInSeq
<1>6. I = {i \in 1 .. Len(cs) : Fits(cs[i])}
  BY <1>2, SubSeqFull
<1>7. indexed # 0 => indexed \in 1 .. Len(cs) /\ Fits(cs[indexed])
  <2>1. I \subseteq Nat
    BY <1>6
  <2>2. I # {} => Min(I) \in I
    <3> HIDE DEF I
    <3> QED
      BY <2>1, MinFound
  <2> HIDE DEF indexed, Fits
  <2> QED
    BY <1>4, <1>6, <2>2
<1>8. valued # 0 => valued \in 1 .. Len(cs)
  <2>1. V \subseteq Nat
    OBVIOUS
  <2>2. V # {} => Min(V) \in V
    <3> HIDE DEF V
    <3> QED
      BY <2>1, MinFound
  <2> HIDE DEF valued
  <2> QED
    BY <1>5, <2>2
<1> HIDE DEF indexed, valued, scan
<1>9. at # 0 => at \in 1 .. Len(cs)
  BY <1>7, <1>8
<1>10. /\ PlanScan(c) = scan
       /\ PlanFilter(c) = rest
  <2>1. CASE rest = <<>>
    BY <1>1, <1>3, <2>1 DEF PlanScan, PlanFilter
  <2>2. CASE rest # <<>>
    BY <1>1, <2>2 DEF PlanScan, PlanFilter, Filter
  <2> QED
    BY <2>1, <2>2
<1> HIDE DEF at
<1>11. \A t : Met(cs, t) <=> Met(scan.conds, t) /\ Met(rest, t)
  <2> TAKE t
  <2>1. CASE at = 0
    BY <1>3, <2>1, MetOne
  <2>2. CASE at # 0
    BY <1>2, <1>3, <1>9, <2>2, MetOne, MetRemoved
  <2> QED
    BY <2>1, <2>2
<1>12. scan.type = "index" => /\ indexed \in DOMAIN cs /\ scan.conds = <<cs[indexed]>>
                              /\ Fits(cs[indexed])
  BY <1>2, <1>3, <1>7 DEF at
<1> HIDE DEF rest
<1> QED
  BY <1>3, <1>10, <1>11, <1>12

(* The entries are put in order without losing one. *)
LEMMA InOrderOK ==
  ASSUME NEW es, IsFiniteSet(es), es \subseteq Int \X Int
  PROVE  /\ Cardinality(es) \in Nat
         /\ InOrder(es) \in [1 .. Cardinality(es) -> es]
         /\ \A e \in es : \E i \in 1 .. Cardinality(es) : InOrder(es)[i] = e
<1> DEFINE n == Cardinality(es)
           Below(e) == {f \in es : Before(f, e)}
           rank == [e \in es |-> Cardinality(Below(e))]
<1>1. n \in Nat
  BY FS_CardinalityType
<1>2. \A e \in es : /\ IsFiniteSet(Below(e))
                    /\ rank[e] \in 0 .. n - 1
  <2> TAKE e \in es
  <2>1. e \notin Below(e)
    <3>1. e[1] \in Int /\ e[2] \in Int
      OBVIOUS
    <3> QED
      BY <3>1 DEF Before
  <2>2. Below(e) \in SUBSET es /\ Below(e) # es
    BY <2>1
  <2>3. /\ IsFiniteSet(Below(e)) /\ Cardinality(Below(e)) <= n
        /\ Cardinality(Below(e)) # n
    <3> HIDE DEF Below
    <3> QED
      BY <2>2, FS_Subset
  <2>4. Cardinality(Below(e)) \in Nat
    BY <2>3, FS_CardinalityType
  <2> QED
    BY <1>1, <2>3, <2>4
<1>3. \A e, f \in es : Before(e, f) => rank[e] < rank[f]
  <2> SUFFICES ASSUME NEW e \in es, NEW f \in es, Before(e, f) PROVE rank[e] < rank[f]
    OBVIOUS
  <2>1. e[1] \in Int /\ e[2] \in Int /\ f[1] \in Int /\ f[2] \in Int
    OBVIOUS
  <2>2. \A g \in es : Before(g, e) => Before(g, f)
    <3> TAKE g \in es
    <3>1. g[1] \in Int /\ g[2] \in Int
      OBVIOUS
    <3> QED
      BY <2>1, <3>1 DEF Before
  <2>3. Below(e) \in SUBSET Below(f) /\ Below(e) # Below(f)
    <3>1. e \in Below(f) /\ e \notin Below(e)
      BY <2>1 DEF Before
    <3> QED
      BY <2>2, <3>1
  <2>4. IsFiniteSet(Below(f)) /\ IsFiniteSet(Below(e))
    BY <1>2
  <2>5. /\ Cardinality(Below(e)) <= Cardinality(Below(f))
        /\ Cardinality(Below(e)) # Cardinality(Below(f))
        /\ Cardinality(Below(e)) \in Nat /\ Cardinality(Below(f)) \in Nat
    <3> HIDE DEF Below
    <3> QED
      BY <2>3, <2>4, FS_Subset, FS_CardinalityType
  <2> QED
    BY <2>5
<1>4. \A e, f \in es : e = f \/ Before(e, f) \/ Before(f, e)
  <2> TAKE e, f \in es
  <2>1. /\ e[1] \in Int /\ e[2] \in Int /\ f[1] \in Int /\ f[2] \in Int
        /\ e = <<e[1], e[2]>> /\ f = <<f[1], f[2]>>
    OBVIOUS
  <2> QED
    BY <2>1 DEF Before
<1>5. rank \in Injection(es, 0 .. n - 1)
  <2> HIDE DEF Below, n
  <2>1. rank \in [es -> 0 .. n - 1]
    BY <1>2
  <2>2. \A e, f \in es : rank[e] = rank[f] => e = f
    <3> TAKE e, f \in es
    <3>1. rank[e] \in Int /\ rank[f] \in Int
      BY <2>1, <1>1
    <3> QED
      BY <1>3, <1>4, <3>1
  <2> HIDE DEF rank
  <2> QED
    BY <2>1, <2>2 DEF Injection, IsInjective
<1>6. IsFiniteSet(0 .. n - 1) /\ Cardinality(0 .. n - 1) = n
  <2>1. 0 \in Int /\ n - 1 \in Int
    BY <1>1
  <2>2. IsFiniteSet(0 .. n - 1) /\ Cardinality(0 .. n - 1) = IF 0 > n - 1 THEN 0 ELSE n - 1 - 0 + 1
    <3> HIDE DEF n
    <3> QED
      BY <2>1, FS_Interval
  <2> QED
    BY <1>1, <2>2
<1>7. rank \in Surjection(es, 0 .. n - 1)
  <2> HIDE DEF rank
  <2> QED
    BY <1>5, <1>6, FS_Injection
<1>8. ASSUME NEW i \in 1 .. n
      PROVE  InOrder(es)[i] \in es /\ rank[InOrder(es)[i]] = i - 1
  <2>1. i - 1 \in 0 .. n - 1
    BY <1>1
  <2>2. \E e \in es : rank[e] = i - 1
    <3> HIDE DEF rank
    <3> QED
      BY <1>7, <2>1 DEF Surjection
  <2>3. \E e \in es : Cardinality(Below(e)) = i - 1
    BY <2>2
  <2>4. InOrder(es)[i] = CHOOSE e \in es : Cardinality(Below(e)) = i - 1
    BY DEF InOrder
  <2>5. InOrder(es)[i] \in es /\ Cardinality(Below(InOrder(es)[i])) = i - 1
    <3> HIDE DEF Below
    <3> QED
      BY <2>3, <2>4
  <2> QED
    BY <2>5
<1>9. InOrder(es) \in [1 .. n -> es]
  BY <1>8 DEF InOrder
<1>10. ASSUME NEW e \in es PROVE \E i \in 1 .. n : InOrder(es)[i] = e
  <2>1. rank[e] + 1 \in 1 .. n /\ (rank[e] + 1) - 1 = rank[e]
    <3>1. rank[e] \in 0 .. n - 1
      BY <1>2
    <3> HIDE DEF rank, n
    <3> QED
      BY <1>1, <3>1
  <2>2. /\ InOrder(es)[rank[e] + 1] \in es
        /\ rank[InOrder(es)[rank[e] + 1]] = (rank[e] + 1) - 1
    BY <1>8, <2>1
  <2>3. InOrder(es)[rank[e] + 1] = e
    <3> HIDE DEF rank
    <3> QED
      BY <1>5, <2>1, <2>2 DEF Injection, IsInjective
  <2> QED
    BY <2>1, <2>3
<1> QED
  BY <1>1, <1>9, <1>10

(* A scan returns the identifiers of its entries. *)
LEMMA ScannedOK ==
  ASSUME NEW scan, IsFiniteSet(ScanEntries(scan)), ScanEntries(scan) \subseteq Int \X Nat
  PROVE  /\ Scanned(scan) \in Seq(Nat)
         /\ \A rid : rid \in ToSet(Scanned(scan)) <=>
                       \E e \in ScanEntries(scan) : e[2] = rid
<1> DEFINE es == ScanEntries(scan)
           n == Cardinality(es)
           o == InOrder(es)
<1>1. /\ n \in Nat /\ o \in [1 .. n -> es]
      /\ \A e \in es : \E i \in 1 .. n : o[i] = e
  <2>1. es \subseteq Int \X Int
    OBVIOUS
  <2> HIDE DEF es
  <2> QED
    BY <2>1, InOrderOK DEF es
<1>2. Scanned(scan) = [i \in 1 .. n |-> o[i][2]]
  BY <1>1 DEF Scanned
<1>3. \A e \in es : e[2] \in Nat
  OBVIOUS
<1> HIDE DEF es, o, n
<1>4. Scanned(scan) \in Seq(Nat) /\ DOMAIN Scanned(scan) = 1 .. n
  BY <1>1, <1>2, <1>3
<1>5. \A i \in 1 .. n : Scanned(scan)[i] = o[i][2] /\ o[i] \in es
  BY <1>1, <1>2
<1>6. \A rid : rid \in ToSet(Scanned(scan)) <=> \E i \in 1 .. n : Scanned(scan)[i] = rid
  BY <1>4 DEF ToSet
<1> QED
  BY <1>1, <1>4, <1>5, <1>6 DEF es

-------------------------------------------------------------------------------
(* What a deletion or update has done so far.                              *)

Treated(rid) ==
  LET m == Meaning(stmt.change, stmt.before)
  IN  /\ rid \in DOMAIN rel <=> rid \in DOMAIN m
      /\ rid \in DOMAIN rel => rel[rid] = m[rid]

ToTreat(rid) ==
  /\ rid \in DOMAIN rel /\ rid \in DOMAIN stmt.before
  /\ rel[rid] = stmt.before[rid]
  /\ Met(stmt.filter, stmt.before[rid]) <=> Met(stmt.change.conds, stmt.before[rid])

(* Each tuple has been treated or is going to be treated, once.            *)
Outcome ==
  /\ stmt.todo \in Seq(Nat)
  /\ \A i, j \in DOMAIN stmt.todo : stmt.todo[i] = stmt.todo[j] => i = j
  /\ \A rid : IF rid \in ToSet(stmt.todo) THEN ToTreat(rid) ELSE Treated(rid)

Trusted == \A u \in stmt.suspect : u[1] # stmt.scanned

NotScannable(c) ==
  \E k \in ToSet(c.conds) :
    ~k.rhsIsAttr /\ Info(k.lhs, Attrs).indexNo # -1 /\ (k.op = "NE" \/ rel = <<>>)

ChangeOK ==
  Changing =>
    /\ stmt.count \in Nat
    /\ stmt.type = "changeCommit" => stmt.todo = <<>>
    /\ stmt.suspect \subseteq suspect
    /\ stmt.rc = "ok" => stmt.suspect = suspect
    /\ stmt.rc = "ok" /\ Trusted => Outcome
    /\ stmt.rc # "ok" =>
         \/ stmt.suspect # {}
         \/ /\ stmt.todo = <<>> /\ stmt.count = 0 /\ ~stmt.changed
            /\ rel = stmt.before /\ NotScannable(stmt.change)

(* An insertion makes entries that no index has, unless some were suspect  *)
(* when it began.                                                          *)
AddOK ==
  stmt.type = "add" =>
    /\ stmt.suspect = suspect
    /\ suspect = {} =>
         \A n \in stmt.entries : Entry(n, stmt.rid, rel[stmt.rid]) \notin index[n]

(* As long as nothing was undone, stopped or lost, the count differs from  *)
(* the number of tuples by what the statement in execution still has to    *)
(* add to it.                                                              *)
CountOK ==
  ~miscount =>
    /\ suspect = {} /\ leaked = "no"
    /\ db = "down" => undo = <<>>
    /\ numTuples + (IF stmt.type \in {"add", "addCount"} THEN stmt.count ELSE 0)
         = Cardinality(DOMAIN rel)
             + (IF stmt.type = "add" THEN Len(stmt.todo)
                ELSE IF stmt.type = "delete" THEN stmt.count ELSE 0)

ExactInv ==
  /\ numTuples \in Int
  /\ stmt.type \in {"add", "addCount"} => stmt.count \in Nat /\ done = NotDone
  /\ ChangeOK
  /\ AddOK
  /\ CountOK
  /\ StatementExact

LEMMA MeaningAt ==
  ASSUME NEW c \in Changes, NEW table, NEW rid
  PROVE  LET m == Meaning(c, table)
             hit == Met(c.conds, table[rid])
         IN  /\ rid \in DOMAIN m <=> rid \in DOMAIN table /\ ~(c.type = "delete" /\ hit)
             /\ rid \in DOMAIN m =>
                  m[rid] = IF c.type = "update" /\ hit THEN SetIn(c, table[rid]) ELSE table[rid]
<1>1. c.type = "delete" \/ c.type = "update"
  BY StatementsAssumption
<1> DEFINE hits == {r \in DOMAIN table : Met(c.conds, table[r])}
<1>2. CASE c.type = "delete"
  <2>1. Meaning(c, table) = [r \in DOMAIN table \ hits |-> table[r]]
    BY <1>2 DEF Meaning
  <2> QED
    BY <1>2, <2>1
<1>3. CASE c.type = "update"
  <2>1. Meaning(c, table) =
          [r \in DOMAIN table |-> IF r \in hits THEN SetIn(c, table[r]) ELSE table[r]]
    BY <1>3 DEF Meaning, SetIn
  <2> QED
    BY <1>3, <2>1
<1> QED
  BY <1>1, <1>2, <1>3

LEMMA EntriesFinite ==
  ASSUME IsTable(rel), NEW n \in IndexNos
  PROVE  /\ IsFiniteSet(EntriesOf(n, rel))
         /\ EntriesOf(n, rel) \subseteq Int \X Nat
<1> DEFINE f == [rid \in DOMAIN rel |-> Entry(n, rid, rel[rid])]
<1>1. IsFiniteSet(DOMAIN rel)
  <2>1. DOMAIN rel \in SUBSET Rids
    BY DEF IsTable
  <2> QED
    BY <2>1, FS_Subset, StatementsConstants
<1>2. f \in Surjection(DOMAIN rel, EntriesOf(n, rel))
  BY DEF Surjection, EntriesOf
<1>3. IsFiniteSet(EntriesOf(n, rel))
  BY <1>1, <1>2, FS_Surjection
<1>4. PICK j \in DOMAIN Attrs : OfIndex(n) = Attrs[j]
  BY OfIndexOK
<1>5. Attrs[j].offset \in Offsets
  BY DEF Offsets, ToSet
<1>6. \A rid \in DOMAIN rel : Entry(n, rid, rel[rid]) \in Int \X Nat
  BY <1>4, <1>5, StatementsConstants DEF Entry, IsTable, IsTuple
<1> QED
  BY <1>3, <1>6 DEF EntriesOf

(* A scan whose index agrees with r returns the tuples that meet its       *)
(* condition.                                                              *)
LEMMA ScanExact ==
  ASSUME IsTable(rel), NEW c \in Changes, ScanError(PlanScan(c)) = "ok",
         PlanScan(c).type = "index" =>
           LET n == Info(PlanScan(c).conds[1].lhs, Attrs).indexNo
           IN  index[n] = EntriesOf(n, rel)
  PROVE  /\ Scanned(PlanScan(c)) \in Seq(Nat)
         /\ \A rid : rid \in ToSet(Scanned(PlanScan(c))) <=>
                       rid \in DOMAIN rel /\ Met(PlanScan(c).conds, rel[rid])
<1> DEFINE scan == PlanScan(c)
<1>1. /\ scan.type \in {"table", "index"}
      /\ scan.type = "index" =>
           \E at \in DOMAIN c.conds :
             LET k == c.conds[at] IN
             /\ scan.conds = <<k>>
             /\ ~k.rhsIsAttr /\ AttrExists(k.lhs, Attrs)
             /\ Info(k.lhs, Attrs).indexNo # -1
  BY PlanOK
<1>2. /\ scan.type = "index" =>
           LET n == Info(scan.conds[1].lhs, Attrs).indexNo IN index[n] = EntriesOf(n, rel)
      /\ ScanError(scan) = "ok"
  OBVIOUS
<1> HIDE DEF scan
<1> SUFFICES /\ Scanned(scan) \in Seq(Nat)
             /\ \A rid : rid \in ToSet(Scanned(scan)) <=>
                           rid \in DOMAIN rel /\ Met(scan.conds, rel[rid])
  BY DEF scan
<1> SUFFICES /\ IsFiniteSet(ScanEntries(scan)) /\ ScanEntries(scan) \subseteq Int \X Nat
             /\ \A rid : (\E e \in ScanEntries(scan) : e[2] = rid) <=>
                           rid \in DOMAIN rel /\ Met(scan.conds, rel[rid])
  BY ScannedOK
<1>3. CASE scan.type = "table"
  <2> DEFINE S == {r \in DOMAIN rel : Met(scan.conds, rel[r])}
  <2>1. ScanEntries(scan) = {<<0, rid>> : rid \in S}
    BY <1>3 DEF ScanEntries
  <2>2. S \in SUBSET Rids
    BY DEF IsTable
  <2>3. [rid \in S |-> <<0, rid>>] \in Surjection(S, ScanEntries(scan))
    <3> HIDE DEF S
    <3> QED
      BY <2>1 DEF Surjection
  <2>4. IsFiniteSet(ScanEntries(scan))
    <3>1. IsFiniteSet(S)
      <4> HIDE DEF S
      <4> QED
        BY <2>2, FS_Subset, StatementsConstants
    <3> HIDE DEF S
    <3> QED
      BY <2>3, <3>1, FS_Surjection
  <2>5. ScanEntries(scan) \subseteq Int \X Nat
    <3> HIDE DEF S
    <3> QED
      BY <2>1, <2>2, StatementsConstants
  <2>6. \A rid : (\E e \in ScanEntries(scan) : e[2] = rid) <=> rid \in S
    <3> HIDE DEF S
    <3>1. \A e : e \in ScanEntries(scan) <=> \E r \in S : e = <<0, r>>
      BY <2>1
    <3>2. ASSUME NEW e \in ScanEntries(scan) PROVE e[2] \in S
      <4>1. PICK r \in S : e = <<0, r>>
        BY <3>1
      <4> QED
        BY <4>1
    <3>3. ASSUME NEW r \in S PROVE \E e \in ScanEntries(scan) : e[2] = r
      <4>1. <<0, r>> \in ScanEntries(scan) /\ <<0, r>>[2] = r
        BY <3>1
      <4> QED
        BY <4>1
    <3> QED
      BY <3>2, <3>3
  <2> QED
    BY <2>4, <2>5, <2>6
<1>4. CASE scan.type = "index"
  <2>1. PICK at \in DOMAIN c.conds :
               /\ scan.conds = <<c.conds[at]>>
               /\ ~c.conds[at].rhsIsAttr /\ AttrExists(c.conds[at].lhs, Attrs)
               /\ Info(c.conds[at].lhs, Attrs).indexNo # -1
    BY <1>1, <1>4
  <2> DEFINE k == c.conds[at]
             n == Info(k.lhs, Attrs).indexNo
  <2>2. scan.conds = <<k>> /\ scan.conds[1] = k /\ ~k.rhsIsAttr
    BY <2>1
  <2>3. PICK i \in DOMAIN Attrs : Info(k.lhs, Attrs) = Attrs[i]
    BY <2>1, InfoOK
  <2>4. n \in IndexNos
    BY <2>1, <2>3 DEF IndexNos, ToSet
  <2>5. PICK j \in DOMAIN Attrs : OfIndex(n) = Attrs[j] /\ Attrs[j].indexNo = n
    BY <2>4, OfIndexOK
  <2>6. OfIndex(n) = Info(k.lhs, Attrs)
    BY <2>1, <2>3, <2>5, SchemaAssumption
  <2> HIDE DEF k
  <2>7. ScanEntries(scan) = {e \in EntriesOf(n, rel) : Wanted(k.op, k.rhs.data, e)}
    BY <1>2, <1>4, <2>2 DEF ScanEntries
  <2>8. k.op # "NE"
    BY <1>2, <1>4, <2>2 DEF ScanError
  <2> HIDE DEF n
  <2>9. IsFiniteSet(ScanEntries(scan)) /\ ScanEntries(scan) \subseteq Int \X Nat
    <3>1. IsFiniteSet(EntriesOf(n, rel)) /\ EntriesOf(n, rel) \subseteq Int \X Nat
      BY <2>4, EntriesFinite
    <3>2. ScanEntries(scan) \in SUBSET EntriesOf(n, rel)
      BY <2>7
    <3> QED
      BY <3>1, <3>2, FS_Subset
  <2>10. ASSUME NEW rid \in DOMAIN rel
         PROVE  Wanted(k.op, k.rhs.data, Entry(n, rid, rel[rid])) <=> Met(scan.conds, rel[rid])
    <3> DEFINE x == rel[rid][Info(k.lhs, Attrs).offset]
    <3>1. Met(scan.conds, rel[rid]) <=> CondMet(k, rel[rid])
      BY <2>2, MetOne
    <3>2. CondMet(k, rel[rid]) <=> Wanted(k.op, k.rhs.data, <<x>>)
      BY <2>2, <2>8 DEF CondMet
    <3>3. Entry(n, rid, rel[rid]) = <<x, rid>>
      BY <2>6 DEF Entry
    <3>4. <<x>>[1] = x /\ <<x, rid>>[1] = x
      OBVIOUS
    <3> HIDE DEF x
    <3> QED
      BY <3>1, <3>2, <3>3, <3>4 DEF Wanted
  <2>11. \A rid : (\E e \in ScanEntries(scan) : e[2] = rid) <=>
                    rid \in DOMAIN rel /\ Met(scan.conds, rel[rid])
    <3>1. \A e : e \in EntriesOf(n, rel) <=> \E rid \in DOMAIN rel : e = Entry(n, rid, rel[rid])
      BY DEF EntriesOf
    <3>2. \A rid : Entry(n, rid, rel[rid])[2] = rid
      BY DEF Entry
    <3> QED
      BY <2>7, <2>10, <3>1, <3>2
  <2> QED
    BY <2>9, <2>11
<1> QED
  BY <1>1, <1>3, <1>4

-------------------------------------------------------------------------------
(* The exactness of statements is preserved. *)

LEMMA CardOK ==
  ASSUME IsTable(rel)
  PROVE  IsFiniteSet(DOMAIN rel) /\ Cardinality(DOMAIN rel) \in Nat
<1>1. DOMAIN rel \in SUBSET Rids
  BY DEF IsTable
<1> QED
  BY <1>1, FS_Subset, FS_CardinalityType, StatementsConstants

(* Nothing is executed any more, and r is as it was unless the history says *)
(* otherwise.                                                              *)
LEMMA IdleExact ==
  ASSUME ExactInv, stmt' = Idle, numTuples' = numTuples, leaked' \in {leaked, "no"},
         \/ done' = NotDone
         \/ stmt = Idle /\ UNCHANGED <<done, rel>>,
         ~miscount' => /\ ~miscount /\ stmt = Idle /\ UNCHANGED <<rel, suspect>>
                       /\ db' = "down" => undo' = <<>>
  PROVE  ExactInv'
<1>1. ChangeOK' /\ AddOK'
  BY DEF ChangeOK, AddOK, Changing, Idle
<1>2. CountOK'
  BY DEF ExactInv, CountOK, Idle
<1>3. StatementExact'
  <2>1. CASE done' = NotDone
    BY <2>1 DEF StatementExact, NotDone
  <2>2. CASE stmt = Idle /\ UNCHANGED <<done, rel>>
    BY <2>2 DEF ExactInv, StatementExact
  <2> QED
    BY <2>1, <2>2
<1> QED
  BY <1>1, <1>2, <1>3 DEF ExactInv, Idle

LEMMA AddBeginExact ==
  ASSUME Inv, ExactInv, Ready, NEW ts \in Loads, AddBegin(ts), UNCHANGED <<leaked, db>>
  PROVE  ExactInv'
<1>1. /\ stmt = Idle /\ stmt' # Idle /\ db' # "down"
      /\ stmt'.type = "add" /\ stmt'.todo = ts /\ stmt'.count = Len(ts)
      /\ stmt'.entries = {} /\ stmt'.suspect = suspect
      /\ done' = NotDone
      /\ UNCHANGED <<rel, numTuples, suspect, leaked, miscount>>
  BY DEF AddBegin, Ready, Running, Idle
<1>2. Len(ts) \in Nat
  BY StatementsAssumption
<1>3. ChangeOK' /\ AddOK' /\ StatementExact'
  BY <1>1 DEF ChangeOK, AddOK, Changing, StatementExact
<1>4. CountOK'
  <2>1. ASSUME ~miscount
        PROVE  suspect = {} /\ leaked = "no" /\ numTuples + 0 = Cardinality(DOMAIN rel) + 0
    BY <1>1, <2>1 DEF ExactInv, CountOK, Idle
  <2>2. numTuples \in Int /\ Cardinality(DOMAIN rel) \in Nat
    BY CardOK DEF Inv, ExactInv
  <2>3. ~miscount => numTuples + Len(ts) = Cardinality(DOMAIN rel) + Len(ts)
    BY <1>2, <2>1, <2>2
  <2> QED
    BY <1>1, <2>1, <2>3 DEF CountOK
<1> QED
  BY <1>1, <1>2, <1>3, <1>4 DEF ExactInv

LEMMA AddRecordExact ==
  ASSUME Inv, ExactInv, Working, AddRecord
  PROVE  ExactInv'
<1>1. /\ stmt.type = "add" /\ stmt.todo # <<>> /\ stmt # Idle
      /\ UNCHANGED <<index, numTuples, suspect, leaked, miscount, done, db>>
      /\ stmt.entries = {}
  BY DEF AddRecord, Idle
<1>2. /\ DOMAIN stmt = {"type", "load", "todo", "entries", "rid", "count", "suspect"}
      /\ stmt.todo \in Seq(ToSet(stmt.todo)) /\ \A t \in ToSet(stmt.todo) : IsTuple(t)
  BY <1>1 DEF Inv, StmtOK, Changing
<1>3. PICK rid \in Rids \ DOMAIN rel :
        /\ rel' = Put(rel, rid, Head(stmt.todo))
        /\ stmt' = [stmt EXCEPT !.todo = Tail(@), !.rid = rid, !.entries = IndexNos]
  BY DEF AddRecord
<1>4. Head(stmt.todo) # <<>>
  BY <1>1, <1>2, TailOwn, TupleNotEmpty
<1>5. /\ stmt'.type = "add" /\ stmt'.count = stmt.count /\ stmt' # Idle
      /\ stmt'.todo = Tail(stmt.todo) /\ stmt'.rid = rid /\ stmt'.entries = IndexNos
      /\ stmt'.suspect = stmt.suspect
  BY <1>1, <1>2, <1>3 DEF Idle
<1>6. DOMAIN rel' = DOMAIN rel \union {rid}
  BY <1>3, <1>4 DEF Put
<1>7. Cardinality(DOMAIN rel') = Cardinality(DOMAIN rel) + 1
  BY <1>3, <1>6, CardOK, FS_AddElement DEF Inv
<1>8. Len(stmt'.todo) = Len(stmt.todo) - 1 /\ Len(stmt.todo) \in Nat
  BY <1>1, <1>2, <1>5, HeadTailProperties
<1>9. ChangeOK' /\ StatementExact'
  BY <1>5 DEF ChangeOK, Changing, StatementExact
<1>10. CountOK'
  <2>1. ASSUME ~miscount
        PROVE  /\ suspect = {} /\ leaked = "no"
               /\ numTuples + stmt.count = Cardinality(DOMAIN rel) + Len(stmt.todo)
    BY <1>1, <2>1 DEF ExactInv, CountOK
  <2>2. Cardinality(DOMAIN rel) \in Nat /\ numTuples \in Int /\ stmt.count \in Nat
    BY <1>1, CardOK DEF Inv, ExactInv
  <2>3. ~miscount => numTuples + stmt'.count = Cardinality(DOMAIN rel') + Len(stmt'.todo)
    BY <1>5, <1>7, <1>8, <2>1, <2>2
  <2> QED
    BY <1>1, <1>5, <2>1, <2>3 DEF CountOK, Working
<1>11. AddOK'
  <2>1. ASSUME suspect = {}, NEW n \in IndexNos
        PROVE  Entry(n, rid, rel'[rid]) \notin index[n]
    <3>1. ASSUME NEW e \in Differ(index[n], EntriesOf(n, rel)) PROVE FALSE
      BY <1>1, <2>1, <3>1 DEF Inv, IndexOK, Excused, Working
    <3>2. ASSUME NEW i \in DOMAIN rel, Entry(n, rid, rel'[rid]) = Entry(n, i, rel[i])
          PROVE  FALSE
      <4>1. rid = i
        BY <3>2, EntryParts
      <4> QED
        BY <1>3, <4>1
    <3> QED
      BY <3>1, <3>2 DEF Differ, EntriesOf
  <2>2. stmt.suspect = suspect
    BY <1>1 DEF ExactInv, AddOK
  <2> QED
    BY <1>1, <1>5, <2>1, <2>2 DEF AddOK, Entry
<1> QED
  BY <1>1, <1>5, <1>9, <1>10, <1>11 DEF ExactInv

LEMMA AddFailsExact ==
  ASSUME ExactInv, AddFails
  PROVE  ExactInv'
<1>1. /\ stmt' = Idle /\ numTuples' = numTuples /\ miscount'
      /\ done' = [type |-> "add", rc |-> "INVALIDPAGE", suspect |-> stmt.suspect]
  BY DEF AddFails
<1> QED
  BY <1>1 DEF ExactInv, ChangeOK, AddOK, CountOK, StatementExact, Changing, Idle

LEMMA AddEntryExact ==
  ASSUME Inv, ExactInv, Working, AddEntry
  PROVE  ExactInv'
<1>1. /\ stmt.type = "add" /\ stmt.entries # {} /\ stmt # Idle
      /\ UNCHANGED <<rel, numTuples, undo>> /\ stmt.suspect = suspect
  BY DEF AddEntry, Idle, ExactInv, AddOK
<1>2. DOMAIN stmt = {"type", "load", "todo", "entries", "rid", "count", "suspect"}
  BY <1>1 DEF Inv, StmtOK, Changing
<1>3. CASE Entry(NextIndex, stmt.rid, rel[stmt.rid]) \in index[NextIndex]
  <2>1. /\ stmt' = Idle /\ miscount'
        /\ done' = [type |-> "add", rc |-> "DUPLICATEENTRY", suspect |-> stmt.suspect]
    BY <1>3 DEF AddEntry
  <2>2. stmt.suspect # {}
    <3>1. NextIndex \in stmt.entries
      <4>1. stmt.entries \subseteq IndexNos
        BY <1>1 DEF Inv, StmtOK, Changing
      <4> QED
        BY <1>1, <4>1, NextIndexOK
    <3> QED
      BY <1>1, <1>3, <3>1 DEF ExactInv, AddOK
  <2>3. ChangeOK' /\ AddOK' /\ CountOK'
    BY <2>1 DEF ChangeOK, AddOK, Changing, Idle, CountOK
  <2>4. StatementExact'
    BY <2>1, <2>2 DEF StatementExact
  <2> QED
    BY <1>1, <2>1, <2>3, <2>4 DEF ExactInv, Idle
<1>4. CASE Entry(NextIndex, stmt.rid, rel[stmt.rid]) \notin index[NextIndex]
  <2>1. /\ stmt' = [stmt EXCEPT !.entries = @ \ {NextIndex}]
        /\ index' = [index EXCEPT ![NextIndex] =
                        @ \union {Entry(NextIndex, stmt.rid, rel[stmt.rid])}]
        /\ UNCHANGED <<done, suspect, leaked, db, miscount>>
    BY <1>4 DEF AddEntry
  <2>2. /\ stmt'.type = "add" /\ stmt'.count = stmt.count /\ stmt' # Idle
        /\ stmt'.todo = stmt.todo /\ stmt'.suspect = stmt.suspect
        /\ stmt'.rid = stmt.rid /\ stmt'.entries = stmt.entries \ {NextIndex}
    BY <1>1, <1>2, <2>1 DEF Idle
  <2>3. ChangeOK' /\ StatementExact'
    BY <2>2 DEF ChangeOK, Changing, StatementExact
  <2>4. CountOK'
    BY <1>1, <2>1, <2>2 DEF ExactInv, CountOK, Working
  <2>5. AddOK'
    <3>1. \A n \in stmt'.entries : index'[n] = index[n] /\ Entry(n, stmt.rid, rel[stmt.rid])' = Entry(n, stmt.rid, rel[stmt.rid])
      BY <1>1, <2>1, <2>2 DEF Entry
    <3> QED
      BY <1>1, <2>1, <2>2, <3>1 DEF ExactInv, AddOK
  <2> QED
    BY <1>1, <2>1, <2>2, <2>3, <2>4, <2>5 DEF ExactInv
<1> QED
  BY <1>3, <1>4

LEMMA AddCommitExact ==
  ASSUME Inv, ExactInv, Working, AddCommit
  PROVE  ExactInv'
<1>1. /\ stmt.type = "add" /\ stmt.todo = <<>>
      /\ stmt'.type = "addCount" /\ stmt'.count = stmt.count /\ stmt' # Idle
      /\ UNCHANGED <<rel, numTuples, suspect, leaked, miscount, done, db>>
  BY DEF AddCommit, Idle
<1>2. ChangeOK' /\ AddOK' /\ StatementExact'
  BY <1>1 DEF ChangeOK, AddOK, Changing, StatementExact
<1>3. CountOK'
  <2>1. Len(<<>>) = 0
    OBVIOUS
  <2> QED
    BY <1>1, <2>1 DEF ExactInv, CountOK, Working
<1> QED
  BY <1>1, <1>2, <1>3 DEF ExactInv

LEMMA AddCountExact ==
  ASSUME Inv, ExactInv, Working, AddCount
  PROVE  ExactInv'
<1>1. /\ stmt.type = "addCount" /\ stmt' = Idle /\ numTuples' = numTuples + stmt.count
      /\ UNCHANGED <<rel, suspect, leaked, miscount, done, db>> /\ done = NotDone
      /\ numTuples \in Int /\ stmt.count \in Nat
  BY DEF AddCount, ExactInv
<1>2. ChangeOK' /\ AddOK' /\ StatementExact'
  BY <1>1 DEF ChangeOK, AddOK, Changing, StatementExact, NotDone, Idle
<1>3. CountOK'
  <2>1. ASSUME ~miscount
        PROVE  suspect = {} /\ leaked = "no" /\ numTuples + stmt.count = Cardinality(DOMAIN rel) + 0
    BY <1>1, <2>1 DEF ExactInv, CountOK
  <2>2. Cardinality(DOMAIN rel) \in Nat
    BY CardOK DEF Inv
  <2>3. ~miscount => numTuples' + 0 = Cardinality(DOMAIN rel) + 0
    BY <1>1, <2>1, <2>2
  <2> QED
    BY <1>1, <2>1, <2>3 DEF CountOK, Working, Idle
<1> QED
  BY <1>1, <1>2, <1>3 DEF ExactInv, Idle

LEMMA TailOnce ==
  ASSUME NEW S, NEW u \in Seq(S), u # <<>>,
         \A i, j \in DOMAIN u : u[i] = u[j] => i = j
  PROVE  /\ Tail(u) \in Seq(S)
         /\ \A i, j \in DOMAIN Tail(u) : Tail(u)[i] = Tail(u)[j] => i = j
         /\ \A x : x \in ToSet(Tail(u)) <=> x \in ToSet(u) /\ x # Head(u)
<1> DEFINE w == Tail(u)
           n == Len(u)
<1>1. /\ n \in Nat \ {0} /\ DOMAIN u = 1 .. n /\ Head(u) = u[1]
      /\ w \in Seq(S) /\ DOMAIN w = 1 .. n - 1
      /\ \A i \in 1 .. n - 1 : w[i] = u[i + 1]
  BY EmptySeq, HeadTailProperties
<1> HIDE DEF w, n
<1>2. \A i, j \in DOMAIN w : w[i] = w[j] => i = j
  <2> SUFFICES ASSUME NEW i \in 1 .. n - 1, NEW j \in 1 .. n - 1, w[i] = w[j] PROVE i = j
    BY <1>1
  <2>1. u[i + 1] = u[j + 1] /\ i + 1 \in 1 .. n /\ j + 1 \in 1 .. n
    BY <1>1
  <2>2. i + 1 = j + 1
    BY <1>1, <2>1
  <2> QED
    BY <2>2
<1>3. ASSUME NEW x PROVE x \in ToSet(w) <=> x \in ToSet(u) /\ x # u[1]
  <2>1. /\ x \in ToSet(w) <=> \E i \in 1 .. n - 1 : w[i] = x
        /\ x \in ToSet(u) <=> \E i \in 1 .. n : u[i] = x
    <3>1. \A f : x \in ToSet(f) <=> \E i \in DOMAIN f : f[i] = x
      BY DEF ToSet
    <3>2. DOMAIN w = 1 .. n - 1 /\ DOMAIN u = 1 .. n
      BY <1>1
    <3> QED
      BY <3>1, <3>2
  <2>2. ASSUME NEW i \in 1 .. n - 1, w[i] = x PROVE (\E k \in 1 .. n : u[k] = x) /\ x # u[1]
    <3>1. i + 1 \in 1 .. n /\ 1 \in 1 .. n /\ u[i + 1] = x /\ i + 1 # 1
      BY <1>1, <2>2
    <3> QED
      BY <1>1, <3>1
  <2>3. ASSUME NEW i \in 1 .. n, u[i] = x, x # u[1] PROVE \E k \in 1 .. n - 1 : w[k] = x
    <3>1. i # 1
      BY <2>3
    <3>2. i - 1 \in 1 .. n - 1 /\ (i - 1) + 1 = i
      BY <1>1, <3>1
    <3>3. w[i - 1] = x
      BY <1>1, <2>3, <3>2
    <3> QED
      BY <3>2, <3>3
  <2> QED
    BY <2>1, <2>2, <2>3
<1> QED
  BY <1>1, <1>2, <1>3 DEF w

LEMMA StepOutcome ==
  ASSUME Outcome, stmt.todo # <<>>, stmt'.todo = Tail(stmt.todo),
         stmt'.change = stmt.change, stmt'.before = stmt.before,
         stmt'.filter = stmt.filter,
         NEW rid, rid = Rid, Treated(rid)',
         \A i : i # rid => /\ i \in DOMAIN rel' <=> i \in DOMAIN rel
                           /\ i \in DOMAIN rel => rel'[i] = rel[i]
  PROVE  Outcome'
<1>1. /\ stmt'.todo \in Seq(Nat)
      /\ \A i, j \in DOMAIN stmt'.todo : stmt'.todo[i] = stmt'.todo[j] => i = j
      /\ \A x : x \in ToSet(stmt'.todo) <=> x \in ToSet(stmt.todo) /\ x # rid
  <2>1. /\ stmt.todo \in Seq(Nat)
        /\ \A i, j \in DOMAIN stmt.todo : stmt.todo[i] = stmt.todo[j] => i = j
    BY DEF Outcome
  <2>2. /\ Tail(stmt.todo) \in Seq(Nat)
        /\ \A i, j \in DOMAIN Tail(stmt.todo) :
             Tail(stmt.todo)[i] = Tail(stmt.todo)[j] => i = j
        /\ \A x : x \in ToSet(Tail(stmt.todo)) <=>
                    x \in ToSet(stmt.todo) /\ x # Head(stmt.todo)
    BY <2>1, TailOnce
  <2> QED
    BY <2>2 DEF Rid
<1>2. ASSUME NEW i
      PROVE  (IF i \in ToSet(stmt.todo) THEN ToTreat(i) ELSE Treated(i))'
  <2>1. CASE i = rid
    <3>1. i \notin ToSet(stmt'.todo)
      BY <1>1, <2>1
    <3> QED
      BY <2>1, <3>1
  <2>2. CASE i # rid
    <3>1. IF i \in ToSet(stmt'.todo) THEN ToTreat(i) ELSE Treated(i)
      BY <1>1, <2>2 DEF Outcome
    <3>2. ToTreat(i) => ToTreat(i)'
      BY <2>2, MetIs DEF ToTreat
    <3>3. Treated(i) => Treated(i)'
      <4>1. Meaning(stmt.change, stmt.before)' = Meaning(stmt.change, stmt.before)
        BY DEF Meaning
      <4> QED
        BY <2>2, <4>1 DEF Treated
    <3> QED
      BY <3>1, <3>2, <3>3
  <2> QED
    BY <2>1, <2>2
<1> QED
  BY <1>1, <1>2 DEF Outcome

(* Errors on opening a scan. *)
LEMMA OpenError ==
  ASSUME Inv, Ready, NEW c \in Changes, ScanError(PlanScan(c)) # "ok"
  PROVE  suspect # {} \/ NotScannable(c)
<1> DEFINE scan == PlanScan(c)
<1>1. scan.type = "index"
  BY PlanOK DEF ScanError
<1>2. PICK at \in DOMAIN c.conds :
         /\ scan.conds = <<c.conds[at]>>
         /\ ~c.conds[at].rhsIsAttr /\ AttrExists(c.conds[at].lhs, Attrs)
         /\ Info(c.conds[at].lhs, Attrs).indexNo # -1
  BY <1>1, PlanOK
<1> DEFINE k == c.conds[at]
           n == Info(k.lhs, Attrs).indexNo
<1>3. k \in ToSet(c.conds) /\ scan.conds[1] = k
  BY <1>2 DEF ToSet
<1> HIDE DEF k
<1>4. n \in IndexNos
  <2>1. PICK i \in DOMAIN Attrs : Info(k.lhs, Attrs) = Attrs[i]
    BY <1>2, InfoOK DEF k
  <2> QED
    BY <1>2, <2>1 DEF IndexNos, ToSet, k
<1>5. k.op = "NE" \/ index[n] = {}
  BY <1>1, <1>3 DEF ScanError
<1> HIDE DEF n, scan
<1>6. ASSUME suspect = {}, index[n] = {} PROVE rel = <<>>
  <2>1. stmt = Idle /\ db \notin {"down", "lost", "torn"}
    BY DEF Ready, Running
  <2>2. EntriesOf(n, rel) = {}
    BY <1>4, <1>6, <2>1, ExcusedWhenIdle DEF Differ
  <2>3. DOMAIN rel = {}
    BY <2>2 DEF EntriesOf
  <2>4. rel = [i \in DOMAIN rel |-> rel[i]]
    BY DEF Inv, IsTable
  <2> QED
    BY <2>3, <2>4
<1>7. ~k.rhsIsAttr /\ Info(k.lhs, Attrs).indexNo # -1
  BY <1>2 DEF k
<1> QED
  BY <1>3, <1>5, <1>6, <1>7 DEF NotScannable

LEMMA ChangeBeginExact ==
  ASSUME Inv, ExactInv, Ready, NEW c \in Changes, ChangeBegin(c), UNCHANGED <<leaked, db>>
  PROVE  ExactInv'
<1> DEFINE scan == PlanScan(c)
           rc == ScanError(scan)
<1>1. /\ rc = "ok" => IsInjective(Scanned(scan))
      /\ stmt' = [type |-> c.type, change |-> c, count |-> 0, rc |-> rc,
                  changed |-> FALSE, before |-> rel, suspect |-> suspect,
                  scanned |-> IF scan.type = "table" THEN -1
                              ELSE Info(scan.conds[1].lhs, Attrs).indexNo,
                  filter |-> PlanFilter(c),
                  todo |-> IF rc = "ok" THEN Scanned(scan) ELSE <<>>]
      /\ done' = NotDone
      /\ UNCHANGED <<rel, index, numTuples, suspect, leaked, miscount>>
  BY DEF ChangeBegin, PlanScan, PlanFilter
<1>2. stmt = Idle /\ db' # "down" /\ db \notin {"down", "lost", "torn"}
  BY DEF Ready, Running
<1>3. c.type \in {"delete", "update"}
  BY StatementsAssumption
<1> HIDE DEF rc, scan
<1>4. /\ stmt'.type = c.type /\ stmt'.change = c /\ stmt'.count = 0 /\ stmt'.rc = rc
      /\ stmt'.before = rel /\ stmt'.filter = PlanFilter(c)
      /\ stmt'.suspect = suspect /\ ~stmt'.changed
      /\ stmt'.scanned = (IF scan.type = "table" THEN -1
                          ELSE Info(scan.conds[1].lhs, Attrs).indexNo)
      /\ stmt'.todo = (IF rc = "ok" THEN Scanned(scan) ELSE <<>>)
  BY <1>1
<1>5. stmt' # Idle
  BY <1>3, <1>4 DEF Idle
<1>6. ASSUME rc = "ok", Trusted' PROVE Outcome'
  <2>1. scan.type = "index" =>
          LET n == Info(scan.conds[1].lhs, Attrs).indexNo IN index[n] = EntriesOf(n, rel)
    <3> SUFFICES ASSUME scan.type = "index"
                 PROVE  index[stmt'.scanned] = EntriesOf(stmt'.scanned, rel)
      BY <1>4
    <3>1. PICK at \in DOMAIN c.conds :
             /\ scan.conds = <<c.conds[at]>>
             /\ AttrExists(c.conds[at].lhs, Attrs)
             /\ Info(c.conds[at].lhs, Attrs).indexNo # -1
      BY PlanOK DEF scan
    <3>2. PICK i \in DOMAIN Attrs : Info(c.conds[at].lhs, Attrs) = Attrs[i]
      BY <3>1, InfoOK
    <3>3. stmt'.scanned \in IndexNos
      BY <1>4, <3>1, <3>2 DEF IndexNos, ToSet
    <3>4. \A e : <<stmt'.scanned, e>> \notin suspect
      <4>1. \A u \in suspect : u[1] # stmt'.scanned
        BY <1>4, <1>6 DEF Trusted
      <4>2. \A e : <<stmt'.scanned, e>>[1] = stmt'.scanned
        OBVIOUS
      <4> QED
        BY <4>1, <4>2
    <3> QED
      BY <1>2, <3>3, <3>4, ExcusedWhenIdle DEF Differ
  <2>2. /\ Scanned(scan) \in Seq(Nat)
        /\ \A rid : rid \in ToSet(Scanned(scan)) <=>
                      rid \in DOMAIN rel /\ Met(scan.conds, rel[rid])
    BY <1>6, <2>1, ScanExact DEF Inv, scan, rc
  <2>3. \A i, j \in DOMAIN Scanned(scan) : Scanned(scan)[i] = Scanned(scan)[j] => i = j
    BY <1>1, <1>6 DEF IsInjective
  <2>4. \A t : Met(c.conds, t) <=> Met(scan.conds, t) /\ Met(PlanFilter(c), t)
    BY PlanOK DEF scan
  <2>5. ASSUME NEW rid
        PROVE  (IF rid \in ToSet(stmt.todo) THEN ToTreat(rid) ELSE Treated(rid))'
    <3>1. CASE rid \in ToSet(stmt'.todo)
      <4>1. rid \in DOMAIN rel /\ Met(scan.conds, rel[rid])
        BY <1>4, <1>6, <2>2, <3>1
      <4>2. Met(PlanFilter(c), rel[rid]) <=> Met(c.conds, rel[rid])
        BY <2>4, <4>1
      <4>3. ToTreat(rid)'
        BY <1>1, <1>4, <4>1, <4>2, MetIs DEF ToTreat
      <4> QED
        BY <3>1, <4>3
    <3>2. CASE rid \notin ToSet(stmt'.todo)
      <4>1. rid \in DOMAIN rel => ~Met(c.conds, rel[rid])
        BY <1>4, <1>6, <2>2, <2>4, <3>2
      <4>2. LET m == Meaning(c, rel)
            IN  /\ rid \in DOMAIN rel <=> rid \in DOMAIN m
                /\ rid \in DOMAIN rel => rel[rid] = m[rid]
        BY <4>1, MeaningAt
      <4>3. Meaning(stmt.change, stmt.before)' = Meaning(c, rel)
        BY <1>4 DEF Meaning
      <4>4. Treated(rid)'
        BY <1>1, <4>2, <4>3 DEF Treated
      <4> QED
        BY <3>2, <4>4
    <3> QED
      BY <3>1, <3>2
  <2> QED
    BY <1>4, <1>6, <2>2, <2>3, <2>5 DEF Outcome
<1>7. ASSUME rc # "ok" PROVE suspect' # {} \/ NotScannable(c)'
  <2>1. suspect # {} \/ NotScannable(c)
    BY <1>7, OpenError DEF rc, scan
  <2>2. NotScannable(c)' = NotScannable(c)
    BY <1>1 DEF NotScannable
  <2> QED
    BY <1>1, <2>1, <2>2
<1>8. ChangeOK' /\ AddOK'
  <2>1. NotScannable(stmt.change)' = NotScannable(c)'
    BY <1>4 DEF NotScannable
  <2> QED
    BY <1>1, <1>3, <1>4, <1>6, <1>7, <2>1 DEF ChangeOK, AddOK
<1>9. CountOK'
  <2>1. ASSUME ~miscount
        PROVE  suspect = {} /\ leaked = "no" /\ numTuples + 0 = Cardinality(DOMAIN rel) + 0
    BY <1>2, <2>1 DEF ExactInv, CountOK, Idle
  <2> QED
    BY <1>1, <1>2, <1>3, <1>4, <2>1 DEF CountOK
<1>10. StatementExact'
  BY <1>5 DEF StatementExact
<1> QED
  BY <1>1, <1>3, <1>4, <1>8, <1>9, <1>10 DEF ExactInv

LEMMA MoreFields ==
  ASSUME Inv, Changing
  PROVE  /\ Passed.todo = Tail(stmt.todo) /\ Passed.rc = stmt.rc
         /\ Passed.before = stmt.before /\ Passed.scanned = stmt.scanned
         /\ Passed.suspect = stmt.suspect
         /\ Passed.filter = stmt.filter /\ Passed.count = stmt.count
         /\ \A rc : /\ Stopped(rc).todo = <<>> /\ Stopped(rc).rc = rc
                    /\ Stopped(rc).count = stmt.count /\ Stopped(rc).suspect = stmt.suspect
BY ChangeFields DEF Passed, Stopped

(* Of a deletion or update that has not stopped. *)
LEMMA Going ==
  ASSUME ExactInv, stmt.type \in {"delete", "update"}, stmt.todo # <<>>
  PROVE  /\ stmt.count \in Nat
         /\ stmt.suspect \subseteq suspect
         /\ stmt.rc = "ok" => stmt.suspect = suspect
         /\ stmt.rc # "ok" => stmt.suspect # {}
         /\ stmt.rc = "ok" /\ Trusted => Outcome
         /\ stmt.suspect = {} => stmt.rc = "ok" /\ Outcome
<1>1. Changing /\ ChangeOK
  BY DEF Changing, ExactInv
<1> QED
  BY <1>1 DEF ChangeOK, Trusted

LEMMA HeadToTreat ==
  ASSUME Outcome, stmt.todo # <<>>
  PROVE  ToTreat(Rid)
<1>1. stmt.todo \in Seq(Nat)
  BY DEF Outcome
<1>2. Rid \in ToSet(stmt.todo)
  BY <1>1, TailOwn DEF Rid
<1> QED
  BY <1>2 DEF Outcome

LEMMA SkipTupleExact ==
  ASSUME Inv, ExactInv, Working, SkipTuple
  PROVE  ExactInv'
<1>1. /\ Changing /\ stmt.type \in {"delete", "update"} /\ stmt.todo # <<>>
      /\ UNCHANGED <<rel, numTuples, undo, suspect, leaked, miscount, done, db>>
  BY DEF SkipTuple, Changing
<1>2. \/ Rid \notin DOMAIN rel /\ stmt' = Stopped("RECNOTEXIST")
      \/ /\ Rid \in DOMAIN rel /\ ~Met(stmt.filter, rel[Rid]) /\ stmt' = Passed
  BY DEF SkipTuple
<1>3. /\ stmt'.type = stmt.type /\ stmt'.count = stmt.count /\ stmt' # Idle
      /\ stmt'.change = stmt.change /\ stmt'.suspect = stmt.suspect
  <2>1. PICK p \in {Stopped("RECNOTEXIST"), Passed} : stmt' = p
    BY <1>2
  <2>2. /\ p.type = stmt.type /\ p.count = stmt.count
        /\ p.change = stmt.change /\ p.suspect = stmt.suspect
    BY <1>1, <2>1, ChangeFields, MoreFields
  <2> QED
    BY <1>1, <2>1, <2>2 DEF Idle
<1>4. CASE Rid \notin DOMAIN rel /\ stmt' = Stopped("RECNOTEXIST")
  <2>1. stmt.suspect # {}
    BY <1>1, <1>4, Going, HeadToTreat DEF ToTreat
  <2>2. stmt'.rc = "RECNOTEXIST"
    BY <1>1, <1>4, MoreFields
  <2> QED
    BY <1>1, <1>3, <2>1, <2>2, Going DEF ChangeOK, AddOK, CountOK, StatementExact, ExactInv
<1>5. CASE Rid \in DOMAIN rel /\ ~Met(stmt.filter, rel[Rid]) /\ stmt' = Passed
  <2>1. /\ stmt'.todo = Tail(stmt.todo) /\ stmt'.rc = stmt.rc
        /\ stmt'.before = stmt.before /\ stmt'.scanned = stmt.scanned
        /\ stmt'.filter = stmt.filter
    BY <1>1, <1>5, MoreFields
  <2>2. ASSUME Outcome PROVE Outcome'
    <3>1. PICK rid : rid = Rid
      OBVIOUS
    <3>2. /\ rid \in DOMAIN rel /\ rid \in DOMAIN stmt.before /\ rel[rid] = stmt.before[rid]
          /\ ~Met(stmt.change.conds, stmt.before[rid])
      BY <1>1, <1>5, <2>2, <3>1, HeadToTreat DEF ToTreat
    <3>3. LET m == Meaning(stmt.change, stmt.before)
          IN  rid \in DOMAIN m /\ m[rid] = rel[rid]
      BY <1>1, <3>2, ChangeFields, MeaningAt
    <3>4. Treated(rid)'
      <4>1. Meaning(stmt.change, stmt.before)' = Meaning(stmt.change, stmt.before)
        BY <1>3, <2>1 DEF Meaning
      <4> QED
        BY <1>1, <3>2, <3>3, <4>1 DEF Treated
    <3> QED
      BY <1>1, <1>3, <2>1, <2>2, <3>1, <3>4, StepOutcome
  <2>3. Trusted' => Trusted
    BY <1>3, <2>1 DEF Trusted
  <2>4. ChangeOK'
    <3>1. stmt.rc = "ok" /\ Trusted => Outcome'
      BY <1>1, <2>2, Going
    <3>2. stmt.rc # "ok" => stmt.suspect # {}
      BY <1>1, Going
    <3> QED
      BY <1>1, <1>3, <2>1, <2>3, <3>1, <3>2, Going DEF ChangeOK
  <2>5. CountOK' /\ AddOK' /\ StatementExact'
    BY <1>1, <1>3 DEF AddOK, CountOK, StatementExact, ExactInv
  <2> QED
    BY <1>1, <1>3, <2>4, <2>5 DEF ExactInv
<1> QED
  BY <1>2, <1>4, <1>5

(* Without suspect entries the indexes have the entries of r. *)
LEMMA IndexesAgree ==
  ASSUME Inv, Working, Changing, suspect = {}, NEW n \in IndexNos
  PROVE  index[n] = EntriesOf(n, rel)
<1>1. ASSUME NEW e \in Differ(index[n], EntriesOf(n, rel)) PROVE FALSE
  <2>1. Excused(n, e)
    BY <1>1 DEF Inv, IndexOK, Working
  <2> QED
    BY <2>1 DEF Excused, Working, Changing
<1> QED
  BY <1>1 DEF Differ

LEMMA DeleteTupleExact ==
  ASSUME Inv, ExactInv, Working, DeleteTuple
  PROVE  ExactInv'
<1> DEFINE old == rel[Rid]
           lost == Missing(Rid)
           upTo == IF lost = 0 THEN Len(Attrs) ELSE lost - 1
<1>1. /\ stmt.type = "delete" /\ Changing /\ stmt.todo # <<>>
      /\ Rid \in DOMAIN rel /\ Met(stmt.filter, rel[Rid])
      /\ rel' = Put(rel, Rid, <<>>)
      /\ index' = [n \in IndexNos |->
                     IF \E i \in 1 .. upTo : Attrs[i].indexNo = n
                     THEN index[n] \ {Entry(n, Rid, old)} ELSE index[n]]
      /\ suspect' = suspect \union
           {<<n, Entry(n, Rid, old)>> : n \in {m \in IndexNos : index'[m] = index[m]}}
      /\ miscount' = (miscount \/ lost # 0)
      /\ UNCHANGED <<numTuples, leaked, done, db>>
  BY DEF DeleteTuple, Changing
<1>2. PICK p : /\ stmt' = [p EXCEPT !.count = @ + 1, !.changed = TRUE]
               /\ p = IF lost = 0 THEN Passed ELSE Stopped("ENTRYNOTFOUND")
  BY DEF DeleteTuple
<1>3. /\ stmt'.type = "delete" /\ stmt'.change = stmt.change
      /\ stmt'.count = stmt.count + 1 /\ stmt' # Idle /\ stmt'.suspect = stmt.suspect
      /\ lost = 0 => /\ stmt'.todo = Tail(stmt.todo) /\ stmt'.rc = stmt.rc
                     /\ stmt'.before = stmt.before /\ stmt'.scanned = stmt.scanned
                     /\ stmt'.filter = stmt.filter
      /\ lost # 0 => stmt'.rc = "ENTRYNOTFOUND"
  <2>1. /\ DOMAIN p = {"type", "change", "count", "rc", "changed", "before",
                       "suspect", "scanned", "filter", "todo"}
        /\ p.type = "delete" /\ p.change = stmt.change /\ p.count = stmt.count
        /\ p.suspect = stmt.suspect
        /\ lost = 0 => /\ p.todo = Tail(stmt.todo) /\ p.rc = stmt.rc
                       /\ p.before = stmt.before /\ p.scanned = stmt.scanned
                       /\ p.filter = stmt.filter
        /\ lost # 0 => p.rc = "ENTRYNOTFOUND"
    <3> HIDE DEF lost
    <3> QED
      BY <1>1, <1>2, ChangeFields, MoreFields
  <2>2. stmt'.type # "idle"
    BY <1>2, <2>1
  <2> HIDE DEF lost
  <2> QED
    BY <1>2, <2>1, <2>2 DEF Idle
<1> DEFINE I == {i \in 1 .. Len(Attrs) :
                  /\ Attrs[i].indexNo # -1
                  /\ Entry(Attrs[i].indexNo, Rid, rel[Rid]) \notin index[Attrs[i].indexNo]}
<1>4. /\ I = {} => lost = 0
      /\ I # {} => lost # 0
  <2>1. lost = IF I # {} THEN Min(I) ELSE 0
    BY DEF Missing, SelectInSeq
  <2>2. I \subseteq Nat /\ 0 \notin I
    OBVIOUS
  <2> HIDE DEF I, lost
  <2> QED
    BY <2>1, <2>2, MinFound
<1>5. /\ suspect = {} => lost = 0
      /\ lost = 0 => suspect' = suspect
      /\ suspect \subseteq suspect'
  <2>1. \A i \in 1 .. Len(Attrs) : Attrs[i].indexNo # -1 => Attrs[i].indexNo \in IndexNos
    BY SchemaAssumption DEF IndexNos, ToSet
  <2>2. ASSUME suspect = {} PROVE lost = 0
    <3>1. \A n \in IndexNos : Entry(n, Rid, old) \in index[n]
      BY <1>1, <2>2, IndexesAgree DEF EntriesOf
    <3>2. I = {}
      BY <2>1, <3>1
    <3> QED
      BY <1>4, <3>2
  <2>3. ASSUME lost = 0, NEW n \in IndexNos PROVE index'[n] # index[n]
    <3>1. PICK i \in DOMAIN Attrs : Attrs[i].indexNo = n
      BY OfIndexOK
    <3>2. i \in 1 .. upTo /\ i \in 1 .. Len(Attrs) /\ n # -1
      BY <2>3, <3>1, SchemaAssumption DEF IndexNos
    <3>3. index'[n] = index[n] \ {Entry(n, Rid, old)}
      BY <1>1, <3>1, <3>2
    <3>4. Entry(n, Rid, old) \in index[n]
      BY <1>4, <2>3, <3>1, <3>2
    <3> QED
      BY <3>3, <3>4
  <2> HIDE DEF old, lost, upTo, I
  <2> QED
    BY <1>1, <2>2, <2>3
<1>6. DOMAIN rel' = DOMAIN rel \ {Rid} /\ \A i \in DOMAIN rel' : rel'[i] = rel[i]
  BY <1>1 DEF Put
<1>7. Cardinality(DOMAIN rel') = Cardinality(DOMAIN rel) - 1 /\ Cardinality(DOMAIN rel) \in Nat
  BY <1>1, <1>6, CardOK, FS_RemoveElement DEF Inv
<1> HIDE DEF old, lost, upTo, I
<1>8. ASSUME Outcome, lost = 0 PROVE Outcome'
  <2>1. PICK rid : rid = Rid
    OBVIOUS
  <2>2. /\ rid \in DOMAIN stmt.before /\ Met(stmt.change.conds, stmt.before[rid])
    BY <1>1, <1>8, <2>1, HeadToTreat DEF ToTreat
  <2>3. stmt.change.type = "delete" /\ stmt.change \in Changes
    <3>1. stmt # Idle
      BY <1>1 DEF Idle
    <3> QED
      BY <1>1, <3>1 DEF Inv, StmtOK
  <2>4. rid \notin DOMAIN Meaning(stmt.change, stmt.before)
    BY <2>2, <2>3, MeaningAt
  <2>5. Treated(rid)'
    <3>1. Meaning(stmt.change, stmt.before)' = Meaning(stmt.change, stmt.before)
      BY <1>3, <1>8 DEF Meaning
    <3> QED
      BY <1>6, <2>1, <2>4, <3>1 DEF Treated
  <2>6. \A i : i # rid => /\ i \in DOMAIN rel' <=> i \in DOMAIN rel
                          /\ i \in DOMAIN rel => rel'[i] = rel[i]
    BY <1>6, <2>1
  <2> QED
    BY <1>1, <1>3, <1>8, <2>1, <2>5, <2>6, StepOutcome
<1>9. ChangeOK' /\ AddOK'
  <2>1. /\ stmt.suspect \subseteq suspect
        /\ stmt.rc = "ok" => stmt.suspect = suspect
        /\ stmt.rc # "ok" => stmt.suspect # {}
        /\ stmt.rc = "ok" /\ Trusted => Outcome
        /\ stmt.count \in Nat
    BY <1>1, Going
  <2>2. lost = 0 /\ Trusted' => Trusted
    BY <1>3 DEF Trusted
  <2>3. stmt'.count \in Nat
    BY <1>3, <2>1
  <2>4. stmt'.rc = "ok" /\ Trusted' => Outcome'
    BY <1>3, <1>8, <2>1, <2>2
  <2>5. stmt'.rc = "ok" => stmt'.suspect = suspect'
    BY <1>3, <1>5, <2>1
  <2>6. stmt'.rc # "ok" => stmt'.suspect # {}
    BY <1>3, <1>5, <2>1
  <2>7. stmt'.suspect \subseteq suspect'
    BY <1>3, <1>5, <2>1
  <2> QED
    BY <1>3, <2>3, <2>4, <2>5, <2>6, <2>7 DEF ChangeOK, AddOK
<1>10. CountOK'
  <2>1. ASSUME ~miscount
        PROVE  suspect = {} /\ leaked = "no" /\ numTuples + 0 = Cardinality(DOMAIN rel) + stmt.count
    BY <1>1, <2>1 DEF ExactInv, CountOK
  <2>2. numTuples \in Int /\ stmt.count \in Nat
    BY <1>1, Going DEF ExactInv
  <2>3. ASSUME ~miscount
        PROVE  suspect' = {} /\ leaked' = "no" /\ numTuples + 0 = Cardinality(DOMAIN rel') + stmt'.count
    <3>1. suspect' = {} /\ leaked' = "no"
      BY <1>1, <1>5, <2>1, <2>3
    <3> QED
      BY <1>3, <1>7, <2>1, <2>2, <2>3, <3>1
  <2> QED
    BY <1>1, <1>3, <2>3 DEF CountOK, Working
<1>11. StatementExact'
  BY <1>3 DEF StatementExact
<1> QED
  BY <1>1, <1>3, <1>9, <1>10, <1>11 DEF ExactInv

LEMMA UpdateTupleExact ==
  ASSUME Inv, ExactInv, Working, UpdateTuple
  PROVE  ExactInv'
<1> DEFINE c == stmt.change
           n == SetInfo(c).indexNo
           old == Entry(n, Rid, rel[Rid])
           new == Entry(n, Rid, SetIn(c, rel[Rid]))
<1>1. /\ stmt.type = "update" /\ Changing /\ stmt.todo # <<>>
      /\ Rid \in DOMAIN rel /\ Met(stmt.filter, rel[Rid])
      /\ IF n # -1 /\ old \notin index[n]
         THEN stmt' = Stopped("ENTRYNOTFOUND") /\ rel' = rel
         ELSE /\ rel' = Put(rel, Rid, SetIn(c, rel[Rid]))
              /\ stmt' = IF n # -1 /\ new \in index[n] \ {old}
                         THEN [Stopped("DUPLICATEENTRY") EXCEPT !.changed = TRUE]
                         ELSE [Passed EXCEPT !.changed = TRUE]
      /\ db' \in {db, "torn"}
      /\ UNCHANGED <<numTuples, suspect, leaked, miscount, done>>
  BY DEF UpdateTuple, Changing, SetIn
<1>2. c \in Changes /\ c.type = "update"
  BY <1>1, UpdateFields
<1>3. PICK k \in DOMAIN Attrs : SetInfo(c) = Attrs[k]
  <2>1. AttrExists(c.set, Attrs)
    BY <1>2, StatementsAssumption
  <2> QED
    BY <2>1, InfoOK DEF SetInfo
<1>4. n # -1 => n \in IndexNos
  BY <1>3 DEF IndexNos, ToSet
<1>5. SetIn(c, rel[Rid]) # <<>>
  <2>1. IsTuple(rel[Rid])
    BY <1>1 DEF Inv, IsTable
  <2> QED
    BY <1>2, <2>1, SetTuple, TupleNotEmpty
<1> HIDE DEF c, n
<1>6. suspect = {} => ~(n # -1 /\ old \notin index[n]) /\ ~(n # -1 /\ new \in index[n] \ {old})
  <2> SUFFICES ASSUME suspect = {}, n # -1
               PROVE  old \in index[n] /\ new \notin index[n] \ {old}
    OBVIOUS
  <2>1. index[n] = EntriesOf(n, rel)
    BY <1>1, <1>4, IndexesAgree
  <2>2. old \in index[n]
    BY <1>1, <2>1 DEF EntriesOf
  <2>3. ASSUME new \in index[n] PROVE new = old
    <3>1. PICK i \in DOMAIN rel : new = Entry(n, i, rel[i])
      BY <2>1, <2>3 DEF EntriesOf
    <3>2. Rid = i
      BY <3>1, EntryParts
    <3> QED
      BY <3>1, <3>2
  <2> QED
    BY <2>2, <2>3
<1>7. /\ stmt'.type = "update" /\ stmt'.count = stmt.count /\ stmt' # Idle
      /\ stmt'.suspect = stmt.suspect
  <2>1. PICK p \in {Stopped("ENTRYNOTFOUND"), Stopped("DUPLICATEENTRY"), Passed} :
          stmt' = p \/ stmt' = [p EXCEPT !.changed = TRUE]
    BY <1>1
  <2>2. /\ p.type = "update" /\ p.count = stmt.count /\ p.suspect = stmt.suspect
        /\ {"type", "count", "suspect", "rc"} \subseteq DOMAIN p
    BY <1>1, <2>1, ChangeFields, MoreFields
  <2> QED
    BY <2>1, <2>2, SMTT(30) DEF Idle
<1>8. /\ DOMAIN rel' = DOMAIN rel
      /\ \A i \in DOMAIN rel : i # Rid => rel'[i] = rel[i]
  BY <1>1, <1>5 DEF Put
<1>9. ASSUME stmt' = [Passed EXCEPT !.changed = TRUE], rel' = Put(rel, Rid, SetIn(c, rel[Rid]))
      PROVE  ChangeOK'
  <2>1. /\ stmt'.todo = Tail(stmt.todo) /\ stmt'.rc = stmt.rc
        /\ stmt'.before = stmt.before /\ stmt'.scanned = stmt.scanned
        /\ stmt'.filter = stmt.filter /\ stmt'.change = stmt.change
    <3>1. /\ Passed.todo = Tail(stmt.todo) /\ Passed.rc = stmt.rc
          /\ Passed.before = stmt.before /\ Passed.scanned = stmt.scanned
          /\ Passed.filter = stmt.filter /\ Passed.change = stmt.change
      BY <1>1, MoreFields, ChangeFields
    <3> QED
      BY <1>9, <3>1
  <2>2. ASSUME Outcome PROVE Outcome'
    <3>1. PICK rid : rid = Rid
      OBVIOUS
    <3>2. /\ rid \in DOMAIN rel /\ rid \in DOMAIN stmt.before /\ rel[rid] = stmt.before[rid]
          /\ Met(c.conds, stmt.before[rid])
      BY <1>1, <2>2, <3>1, HeadToTreat DEF ToTreat, c
    <3>3. LET m == Meaning(c, stmt.before)
          IN  rid \in DOMAIN m /\ m[rid] = SetIn(c, rel[rid])
      BY <1>2, <3>2, MeaningAt
    <3>4. rel'[rid] = SetIn(c, rel[rid])
      BY <1>5, <1>9, <3>1 DEF Put
    <3>5. Treated(rid)'
      <4>1. Meaning(stmt.change, stmt.before)' = Meaning(c, stmt.before)
        BY <2>1 DEF Meaning, c
      <4> QED
        BY <1>8, <3>2, <3>3, <3>4, <4>1 DEF Treated
    <3>6. \A i : i # rid => /\ i \in DOMAIN rel' <=> i \in DOMAIN rel
                            /\ i \in DOMAIN rel => rel'[i] = rel[i]
      BY <1>8, <3>1
    <3> QED
      BY <1>1, <2>1, <2>2, <3>1, <3>5, <3>6, StepOutcome
  <2>3. Trusted' => Trusted
    BY <1>7, <2>1 DEF Trusted
  <2>4. stmt.rc = "ok" /\ Trusted => Outcome'
    BY <1>1, <2>2, Going
  <2>5. /\ stmt.rc # "ok" => stmt.suspect # {}
        /\ stmt.rc = "ok" => stmt.suspect = suspect
        /\ stmt.suspect \subseteq suspect
    BY <1>1, Going
  <2>6. stmt.count \in Nat
    BY <1>1, Going
  <2>7. suspect' = suspect /\ stmt'.type # "changeCommit"
    BY <1>1, <1>7
  <2> QED
    BY <1>7, <2>1, <2>3, <2>4, <2>5, <2>6, <2>7 DEF ChangeOK
<1>10. ASSUME stmt' \in {Stopped("ENTRYNOTFOUND"),
                        [Stopped("DUPLICATEENTRY") EXCEPT !.changed = TRUE]},
              suspect # {}
       PROVE  ChangeOK'
  <2>1. stmt'.rc # "ok"
    <3>1. /\ Stopped("ENTRYNOTFOUND").rc # "ok" /\ Stopped("DUPLICATEENTRY").rc # "ok"
          /\ "rc" \in DOMAIN Stopped("DUPLICATEENTRY")
      BY <1>1, MoreFields, ChangeFields
    <3> QED
      BY <1>10, <3>1
  <2>2. stmt.count \in Nat /\ stmt.suspect \subseteq suspect /\ stmt.suspect # {}
    BY <1>1, <1>10, Going
  <2>3. suspect' = suspect /\ stmt'.type # "changeCommit"
    BY <1>1, <1>7
  <2> QED
    BY <1>7, <1>10, <2>1, <2>2, <2>3 DEF ChangeOK
<1>11. ChangeOK'
  <2> HIDE DEF old, new
  <2>1. CASE suspect = {}
    <3>1. stmt' = [Passed EXCEPT !.changed = TRUE] /\ rel' = Put(rel, Rid, SetIn(c, rel[Rid]))
      BY <1>1, <1>6, <2>1
    <3> QED
      BY <1>9, <3>1
  <2>2. CASE suspect # {}
    <3>1. \/ stmt' = Stopped("ENTRYNOTFOUND")
          \/ stmt' = [Stopped("DUPLICATEENTRY") EXCEPT !.changed = TRUE]
          \/ stmt' = [Passed EXCEPT !.changed = TRUE] /\ rel' = Put(rel, Rid, SetIn(c, rel[Rid]))
      BY <1>1
    <3> QED
      BY <1>9, <1>10, <2>2, <3>1
  <2> QED
    BY <2>1, <2>2
<1>12. CountOK'
  <2>1. ASSUME ~miscount
        PROVE  suspect = {} /\ leaked = "no" /\ numTuples + 0 = Cardinality(DOMAIN rel) + 0
    BY <1>1, <2>1 DEF ExactInv, CountOK
  <2> QED
    BY <1>1, <1>7, <1>8, <2>1 DEF CountOK, Working
<1>13. StatementExact' /\ AddOK'
  BY <1>7 DEF StatementExact, AddOK
<1> QED
  BY <1>1, <1>7, <1>11, <1>12, <1>13 DEF ExactInv

LEMMA ChangeCountExact ==
  ASSUME Inv, ExactInv, Working, ChangeCount
  PROVE  ExactInv'
<1>1. /\ stmt.type \in {"delete", "update"} /\ Changing /\ stmt.todo = <<>>
      /\ numTuples' = IF stmt.type = "delete" /\ stmt.rc = "ok"
                      THEN numTuples - stmt.count ELSE numTuples
      /\ stmt' = [stmt EXCEPT !.type = "changeCommit"]
      /\ UNCHANGED <<rel, suspect, leaked, miscount, done, db>>
  BY DEF ChangeCount, Changing
<1>2. /\ stmt'.type = "changeCommit" /\ stmt' # Idle
      /\ stmt'.change = stmt.change /\ stmt'.count = stmt.count /\ stmt'.rc = stmt.rc
      /\ stmt'.before = stmt.before /\ stmt'.scanned = stmt.scanned
      /\ stmt'.filter = stmt.filter /\ stmt'.todo = stmt.todo
      /\ stmt'.suspect = stmt.suspect /\ stmt'.changed = stmt.changed
  BY <1>1, ChangeFields DEF Idle
<1>3. /\ stmt.count \in Nat
      /\ stmt.rc = "ok" /\ Trusted => Outcome
      /\ stmt.suspect \subseteq suspect
      /\ stmt.rc = "ok" => stmt.suspect = suspect
      /\ stmt.rc # "ok" => \/ stmt.suspect # {}
                           \/ /\ stmt.todo = <<>> /\ stmt.count = 0 /\ ~stmt.changed
                              /\ rel = stmt.before /\ NotScannable(stmt.change)
  BY <1>1 DEF ExactInv, ChangeOK
<1>4. ASSUME Outcome PROVE Outcome'
  <2>1. \A i : ToTreat(i) => ToTreat(i)'
    BY <1>1, <1>2, MetIs DEF ToTreat
  <2>2. \A i : Treated(i) => Treated(i)'
    <3>1. Meaning(stmt.change, stmt.before)' = Meaning(stmt.change, stmt.before)
      BY <1>2 DEF Meaning
    <3> QED
      BY <1>1, <3>1 DEF Treated
  <2> QED
    BY <1>2, <1>4, <2>1, <2>2 DEF Outcome
<1>5. ChangeOK'
  <2>1. NotScannable(stmt.change)' <=> NotScannable(stmt.change)
    BY <1>1, <1>2 DEF NotScannable
  <2>2. Trusted' => Trusted
    BY <1>2 DEF Trusted
  <2> QED
    BY <1>1, <1>2, <1>3, <1>4, <2>1, <2>2 DEF ChangeOK
<1>6. numTuples \in Int
  BY DEF ExactInv
<1>7. CountOK'
  <2>1. Cardinality(DOMAIN rel) \in Nat
    BY CardOK DEF Inv
  <2>2. ASSUME ~miscount
        PROVE  suspect = {} /\ leaked = "no" /\ numTuples' + 0 = Cardinality(DOMAIN rel) + 0
    <3>1. /\ suspect = {} /\ leaked = "no"
          /\ numTuples + 0 = Cardinality(DOMAIN rel)
                               + (IF stmt.type = "delete" THEN stmt.count ELSE 0)
      BY <1>1, <2>2 DEF ExactInv, CountOK
    <3>2. stmt.rc # "ok" => stmt.count = 0
      BY <1>3, <3>1
    <3> QED
      BY <1>1, <1>3, <1>6, <2>1, <3>1, <3>2
  <2> QED
    BY <1>1, <1>2, <2>2 DEF CountOK, Working
<1>8. numTuples' \in Int
  BY <1>1, <1>3, <1>6
<1>9. StatementExact' /\ AddOK'
  BY <1>2 DEF StatementExact, AddOK
<1> QED
  BY <1>2, <1>5, <1>7, <1>8, <1>9 DEF ExactInv

LEMMA ChangeCommitExact ==
  ASSUME Inv, ExactInv, Working, ChangeCommit
  PROVE  ExactInv'
<1>1. /\ stmt.type = "changeCommit" /\ Changing /\ stmt' = Idle
      /\ done' = [type |-> "change", change |-> stmt.change, rc |-> stmt.rc,
                  before |-> stmt.before, scanned |-> stmt.scanned, suspect |-> stmt.suspect]
      /\ leaked' = IF stmt.rc # "ok" /\ stmt.changed THEN "change" ELSE leaked
      /\ UNCHANGED <<rel, numTuples, suspect, miscount, db>>
  BY DEF ChangeCommit, Changing
<1>2. /\ stmt.todo = <<>>
      /\ stmt.rc = "ok" /\ Trusted => Outcome
      /\ stmt.suspect \subseteq suspect
      /\ stmt.rc # "ok" =>
           \/ stmt.suspect # {}
           \/ ~stmt.changed /\ rel = stmt.before /\ NotScannable(stmt.change)
  BY <1>1 DEF ExactInv, ChangeOK
<1>3. ASSUME Outcome PROVE rel = Meaning(stmt.change, stmt.before)
  <2> DEFINE m == Meaning(stmt.change, stmt.before)
  <2>1. \A rid : rid \notin ToSet(stmt.todo)
    BY <1>2 DEF ToSet
  <2>2. \A rid : Treated(rid)
    BY <1>3, <2>1 DEF Outcome
  <2>3. m = [rid \in DOMAIN m |-> m[rid]]
    BY DEF Meaning
  <2>4. rel = [rid \in DOMAIN rel |-> rel[rid]]
    BY DEF Inv, IsTable
  <2>5. \A rid : /\ rid \in DOMAIN rel <=> rid \in DOMAIN m
                 /\ rid \in DOMAIN rel => rel[rid] = m[rid]
    BY <2>2 DEF Treated
  <2> HIDE DEF m
  <2>6. DOMAIN rel = DOMAIN m
    BY <2>5
  <2>7. rel = m
    BY <2>3, <2>4, <2>5, <2>6
  <2> QED
    BY <2>7 DEF m
<1>4. stmt.rc = "ok" =>
        \/ rel = Meaning(stmt.change, stmt.before)
        \/ \E u \in stmt.suspect : u[1] = stmt.scanned
  BY <1>2, <1>3 DEF Trusted
<1>5. StatementExact'
  <2>1. /\ done'.type = "change" /\ done'.rc = stmt.rc /\ done'.change = stmt.change
        /\ done'.before = stmt.before /\ done'.scanned = stmt.scanned
        /\ done'.suspect = stmt.suspect
    BY <1>1
  <2>2. Meaning(done.change, done.before)' = Meaning(stmt.change, stmt.before)
    BY <2>1 DEF Meaning
  <2>3. stmt.rc # "ok" =>
          \/ stmt.suspect # {}
          \/ /\ rel = stmt.before
             /\ \E c \in ToSet(stmt.change.conds) :
                  /\ ~c.rhsIsAttr /\ Info(c.lhs, Attrs).indexNo # -1
                  /\ c.op = "NE" \/ rel = <<>>
    BY <1>2 DEF NotScannable
  <2> QED
    BY <1>1, <1>4, <2>1, <2>2, <2>3 DEF StatementExact
<1>6. ChangeOK' /\ AddOK'
  BY <1>1 DEF ChangeOK, AddOK, Changing, Idle
<1>7. CountOK'
  BY <1>1, <1>2 DEF ExactInv, CountOK, Working, Idle
<1> QED
  BY <1>1, <1>5, <1>6, <1>7 DEF ExactInv, Idle

(* Rolling a transaction back that has logged nothing changes nothing. *)
LEMMA NothingUndone ==
  ASSUME LogOK, undo = <<>>, RollBack
  PROVE  rel' = rel /\ suspect' = suspect /\ undo' = <<>>
<1>1. PICK j \in 0 .. Len(undo) : Undoable = SubSeq(undo, j + 1, Len(undo))
  BY UndoableIsTail
<1>2. Len(undo) = 0 /\ j = 0 /\ SubSeq(<<>>, 1, 0) = <<>>
  BY SubSeqEmpty
<1>3. Undoable = <<>>
  BY <1>1, <1>2
<1>4. rel' = rel
  <2>1. rel' = Restored(Undoable, rel)
    BY DEF RollBack, Undone, Restored
  <2> QED
    BY <1>3, <2>1, RestoredEmpty
<1>5. suspect' = suspect
  <2>1. ToSet(Undoable) = {}
    BY <1>3 DEF ToSet
  <2>2. Touched = {}
    BY <2>1 DEF Touched
  <2> QED
    BY <2>2 DEF RollBack
<1>6. undo' = <<>>
  <2>1. undo' = SubSeq(undo, 1, Len(undo) - Len(Undoable))
    BY DEF RollBack
  <2>2. Len(undo) - Len(Undoable) = 0
    BY <1>2, <1>3
  <2> QED
    BY <1>2, <2>1, <2>2
<1> QED
  BY <1>4, <1>5, <1>6

LEMMA BetweenExact ==
  ASSUME Inv, ExactInv,
         \/ BeginT \/ CommitT \/ Checkpoint
         \/ /\ Ready
            /\ UNCHANGED <<rel, numTuples, stmt, leaked, suspect, miscount, done, db>>
  PROVE  ExactInv'
<1>1. /\ stmt = Idle /\ stmt' = Idle /\ db' # "down"
      /\ UNCHANGED <<rel, numTuples, leaked, suspect, miscount, done>>
  BY DEF BeginT, CommitT, Checkpoint, Ready, Running
<1> QED
  BY <1>1, IdleExact

(* No file is open with changes: the disk has what memory has.             *)
LEMMA NothingOpen ==
  ASSUME Inv, stmt = Idle, leaked = "no"
  PROVE  /\ Unwritten = {} /\ EntriesAt(Unsettled, Versions) = {}
         /\ TableOnDisk => rel' = rel
<1>1. disk.rel = {rel} /\ disk.index = index
  BY DEF Inv, DiskOK, Closed
<1>2. Unsettled = {}
  BY <1>1 DEF Unsettled
<1>3. Unwritten = {}
  <2>1. \A n \in IndexNos :
          {n} \X ((index[n] \ disk.index[n]) \union (disk.index[n] \ index[n])) = {}
    BY <1>1
  <2> QED
    BY <2>1 DEF Unwritten
<1>4. EntriesAt(Unsettled, Versions) = {}
  BY <1>2 DEF EntriesAt
<1>5. ASSUME TableOnDisk PROVE rel' = rel
  <2>1. /\ IsTable(rel') /\ IsTable(rel)
        /\ \A rid \in Rids : TupleAt(rel', rid) = TupleAt(rel, rid)
    BY <1>2, <1>5, TableRead DEF Inv
  <2>2. /\ \A i \in DOMAIN rel : i \in Rids /\ rel[i] # <<>>
        /\ \A i \in DOMAIN rel' : i \in Rids /\ rel'[i] # <<>>
    BY <2>1, TupleNotEmpty DEF IsTable
  <2>3. DOMAIN rel' = DOMAIN rel /\ \A i \in DOMAIN rel : rel'[i] = rel[i]
    BY <2>1, <2>2 DEF TupleAt
  <2>4. rel' = [i \in DOMAIN rel' |-> rel'[i]] /\ rel = [i \in DOMAIN rel |-> rel[i]]
    BY <2>1 DEF IsTable
  <2> QED
    BY <2>3, <2>4
<1> QED
  BY <1>3, <1>4, <1>5

LEMMA ExitExact ==
  ASSUME Inv, ExactInv, Exit
  PROVE  ExactInv'
<1>1. /\ stmt = Idle /\ stmt' = Idle /\ db' # "down" /\ done' = NotDone /\ leaked' = "no"
      /\ UNCHANGED <<numTuples, miscount>> /\ TableOnDisk
      /\ suspect' = suspect \union Unwritten \union EntriesAt(Unsettled, Versions)
  BY DEF Exit, TornOr
<1>2. ~miscount => UNCHANGED <<rel, suspect>>
  BY <1>1, NothingOpen DEF ExactInv, CountOK
<1> QED
  BY <1>1, <1>2, IdleExact

LEMMA AbortTExact ==
  ASSUME Inv, ExactInv, AbortT
  PROVE  ExactInv'
<1>1. /\ stmt = Idle /\ stmt' = Idle /\ db' # "down" /\ numTuples' = numTuples
      /\ done' = NotDone /\ leaked' = leaked /\ RollBack
      /\ miscount' = (miscount \/ undo # <<>>)
  BY DEF AbortT, Running, RollBack
<1>2. ~miscount' => ~miscount /\ UNCHANGED <<rel, suspect>>
  BY <1>1, NothingUndone DEF Inv
<1> QED
  BY <1>1, <1>2, IdleExact

LEMMA CrashExact ==
  ASSUME Inv, ExactInv, Crash
  PROVE  ExactInv'
<1>1. /\ stmt' = Idle /\ done' = NotDone /\ leaked' = "no" /\ UNCHANGED <<numTuples, undo>>
      /\ miscount' = (miscount \/ undo # <<>> \/ stmt # Idle)
  BY DEF Crash
<1>2. ~miscount' => stmt = Idle /\ leaked = "no"
  BY <1>1 DEF ExactInv, CountOK
<1>3. ~miscount' => UNCHANGED <<rel, suspect>>
  BY <1>2, NothingOpen DEF Crash, Unlogged
<1> QED
  BY <1>1, <1>2, <1>3, IdleExact

LEMMA RecoverExact ==
  ASSUME Inv, ExactInv, Recover
  PROVE  ExactInv'
<1>1. /\ db = "down" /\ stmt = Idle /\ stmt' = Idle /\ db' # "down"
      /\ UNCHANGED <<numTuples, leaked, miscount>>
  BY DEF Recover, Inv, XactOK
<1>2. CASE logged \subseteq files
  <2>1. RollBack /\ done' = NotDone
    BY <1>2 DEF Recover, RollBack
  <2>2. ~miscount => undo = <<>>
    BY <1>1 DEF ExactInv, CountOK
  <2>3. ~miscount => UNCHANGED <<rel, suspect>>
    BY <2>1, <2>2, NothingUndone DEF Inv
  <2> QED
    BY <1>1, <2>1, <2>3, IdleExact
<1>3. CASE ~(logged \subseteq files)
  <2>1. UNCHANGED <<rel, suspect, done>>
    BY <1>3 DEF Recover
  <2> QED
    BY <1>1, <2>1, IdleExact
<1> QED
  BY <1>2, <1>3

LEMMA InitExact ==
  ASSUME Init
  PROVE  ExactInv
<1>1. /\ rel = <<>> /\ numTuples = 0 /\ stmt = Idle /\ done = NotDone /\ suspect = {}
      /\ db = "open" /\ leaked = "no"
  BY DEF Init
<1>2. DOMAIN <<>> = {} /\ Cardinality({}) = 0
  BY FS_EmptySet
<1>3. CountOK
  BY <1>1, <1>2 DEF CountOK, Idle
<1>4. ChangeOK /\ AddOK /\ StatementExact
  BY <1>1 DEF ChangeOK, AddOK, Changing, StatementExact, Idle, NotDone
<1> QED
  BY <1>1, <1>3, <1>4 DEF ExactInv, Idle

LEMMA StatementStepExact ==
  ASSUME Inv, ExactInv, Statement
  PROVE  ExactInv'
<1>1. Ready /\ UNCHANGED <<leaked, db>>
  BY DEF Statement
<1>2. CASE \E ts \in Loads : AddBegin(ts)
  BY <1>1, <1>2, AddBeginExact
<1>3. CASE \E c \in Changes : ChangeBegin(c)
  BY <1>1, <1>3, ChangeBeginExact
<1>4. CASE UNCHANGED <<rel, numTuples, stmt, suspect, miscount, done>>
  BY <1>1, <1>4, BetweenExact
<1> QED
  BY <1>2, <1>3, <1>4 DEF Statement

LEMMA StepExact ==
  ASSUME Inv, ExactInv, Step
  PROVE  ExactInv'
<1>1. Working
  BY DEF Step, Working
<1>2. \/ AddRecord \/ AddFails \/ AddEntry \/ AddCommit \/ AddCount
      \/ SkipTuple \/ DeleteTuple \/ UpdateTuple \/ ChangeCount \/ ChangeCommit
  BY DEF Step
<1> QED
  BY <1>1, <1>2, AddRecordExact, AddFailsExact, AddEntryExact, AddCommitExact,
     AddCountExact, SkipTupleExact, DeleteTupleExact, UpdateTupleExact, ChangeCountExact,
     ChangeCommitExact

LEMMA StutterExact ==
  ASSUME ExactInv, UNCHANGED vars
  PROVE  ExactInv'
<1>1. UNCHANGED <<rel, index, undo, numTuples, leaked, stmt, db, suspect, miscount, done>>
  BY DEF vars
<1>2. CountOK'
  BY <1>1 DEF ExactInv, CountOK
<1>3. StatementExact'
  <2>1. Meaning(done.change, done.before)' = Meaning(done.change, done.before)
    BY <1>1 DEF Meaning
  <2> QED
    BY <1>1, <2>1 DEF ExactInv, StatementExact
<1>4. ChangeOK'
  <2>1. Outcome => Outcome'
    <3>1. \A i : ToTreat(i) => ToTreat(i)'
      BY <1>1, MetIs DEF ToTreat
    <3>2. \A i : Treated(i) => Treated(i)'
      <4>1. Meaning(stmt.change, stmt.before)' = Meaning(stmt.change, stmt.before)
        BY <1>1 DEF Meaning
      <4> QED
        BY <1>1, <4>1 DEF Treated
    <3> QED
      BY <1>1, <3>1, <3>2 DEF Outcome
  <2>2. NotScannable(stmt.change)' <=> NotScannable(stmt.change)
    BY <1>1 DEF NotScannable
  <2>3. Trusted' <=> Trusted
    BY <1>1 DEF Trusted
  <2> QED
    BY <1>1, <2>1, <2>2, <2>3 DEF ExactInv, ChangeOK, Changing
<1>5. AddOK'
  BY <1>1 DEF ExactInv, AddOK, Entry
<1> QED
  BY <1>1, <1>2, <1>3, <1>4, <1>5 DEF ExactInv

LEMMA NextExact ==
  ASSUME Inv, ExactInv, [Next]_vars
  PROVE  ExactInv'
BY StatementStepExact, StepExact, BetweenExact, AbortTExact, CrashExact, RecoverExact,
   ExitExact, StutterExact DEF Next

(* Second invariant, in every state: what a deletion or update in          *)
(* execution has done to r and has still to do make up its meaning, and    *)
(* the count differs from the number of tuples by what is still to be      *)
(* added to it or taken off.                                               *)
THEOREM ExactHolds == Spec => []ExactInv
<1>1. Init => ExactInv
  BY InitExact
<1>2. Inv /\ ExactInv /\ [Next]_vars => ExactInv'
  BY NextExact
<1> QED
  BY <1>1, <1>2, InvHolds, PTL DEF Spec

(* A deletion or update that ran to its end has changed exactly the tuples *)
(* that meet all its conditions, whichever plan QL_Manager::Delete and     *)
(* Update have chosen for it, and however it changes the relation and the  *)
(* index that it scans, but for entries of the scanned index that were     *)
(* suspect when it began; plans stop and entries are refused only with     *)
(* such entries, or at an index scan that cannot be opened, and then       *)
(* nothing is changed.                                                     *)
THEOREM StatementsExact == Spec => []StatementExact
<1>1. ExactInv => StatementExact
  BY DEF ExactInv
<1> QED
  BY <1>1, ExactHolds, PTL

(* Between statements the count in relcat, which Insert, Load and Delete   *)
(* change once per statement and not in the transaction, is the number of  *)
(* tuples of r, until a rollback, crash or error.                          *)
THEOREM CountsExact == Spec => []CountExact
<1>1. Inv /\ ExactInv => CountExact
  <2> SUFFICES ASSUME Inv, ExactInv, Ready, ~miscount
               PROVE  numTuples = Cardinality(DOMAIN rel)
    BY DEF CountExact
  <2>1. numTuples + 0 = Cardinality(DOMAIN rel) + 0
    BY DEF ExactInv, CountOK, Ready, Running, Idle
  <2>2. Cardinality(DOMAIN rel) \in Nat
    BY CardOK DEF Inv
  <2> QED
    BY <2>1, <2>2 DEF ExactInv
<1> QED
  BY <1>1, InvHolds, ExactHolds, PTL

(* LG_Manager::Checkpoint discards the log only when the relation is on    *)
(* disk in full, as qDelete, qUpdate and Load close it before they end,    *)
(* unless a statement that stopped has left it open.                       *)
THEOREM CheckpointsWrite == Spec => CheckpointWrites
<1>1. Inv /\ [Next]_vars =>
        [Checkpoint /\ logged' = {} => disk.rel = {rel} \/ leaked # "no"]_vars
  <2> SUFFICES ASSUME Inv, Checkpoint
               PROVE  disk.rel = {rel} \/ leaked # "no"
    OBVIOUS
  <2>1. stmt = Idle
    BY DEF Checkpoint, Running
  <2> QED
    BY <2>1 DEF Inv, DiskOK, Closed
<1> QED
  BY InvHolds, <1>1, PTL DEF Spec, CheckpointWrites
===============================================================================
