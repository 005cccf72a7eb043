--------------------------- MODULE BufferPoolProofs ---------------------------
(***************************************************************************)
(* Proofs about BufferPool, for any number of frames, pages and contents.  *)
(*                                                                         *)
(* The inductive invariant is the conjunction of                           *)
(*   TypeOK            the types,                                          *)
(*   FramesPartition   every frame is on one list, once,                   *)
(*   HashMatchesUsed   the hash table leads to the used frames,            *)
(*   Coherent          a page reads as what was put in it,                 *)
(*   PagesKnown        a page in the pool or on disk was once allocated.   *)
(* None but the first two is inductive alone: an eviction writes the right *)
(* page only because no page has two frames, and a page that is allocated  *)
(* has no frame yet only because PagesKnown says so.                       *)
(***************************************************************************)
EXTENDS BufferPool, FiniteSetTheorems, TLAPS

(* A page in the pool or in a file was allocated, and its last change was  *)
(* kept or dropped.                                                        *)
PagesKnown == InPool \cup DOMAIN disk \subseteq DOMAIN given \cup lost

Inv == /\ TypeOK
       /\ FramesPartition
       /\ HashMatchesUsed
       /\ Coherent
       /\ PagesKnown

-------------------------------------------------------------------------------
(* What the edits of the lists return.                                     *)

(* A non-empty set of naturals has a least member. *)
LEMMA LeastMember ==
  ASSUME NEW T, T \subseteq Nat, T # {}
  PROVE  \E x \in T : \A y \in T : x <= y
<1> DEFINE Less == OpToRel(<, Nat)
<1>1. IsWellFoundedOn(Less, Nat)
  BY NatLessThanWellFounded
<1>2. \A x, y \in Nat : <<y, x>> \notin Less => x <= y
  BY DEF OpToRel
<1> HIDE DEF Less
<1>3. PICK x \in T : \A y \in T : ~(<<y, x>> \in Less)
  BY <1>1, WFMin
<1> QED
  BY <1>2, <1>3

(* A non-empty set of positions has a greatest one. *)
LEMMA GreatestMember ==
  ASSUME NEW n \in Nat, NEW T, T \subseteq 1 .. n, T # {}
  PROVE  \E x \in T : \A y \in T : y <= x
<1> DEFINE D == {m \in Nat : m <= n /\ n - m \in T}
<1>1. D \subseteq Nat /\ D # {}
  <2>1. PICK i \in T : TRUE
    OBVIOUS
  <2>2. n - i \in Nat /\ n - i <= n /\ n - (n - i) = i
    BY <2>1
  <2> QED
    BY <2>1, <2>2
<1>2. PICK x \in D : \A y \in D : x <= y
  BY <1>1, LeastMember
<1>3. n - x \in T
  OBVIOUS
<1>4. ASSUME NEW y \in T PROVE y <= n - x
  <2>1. n - y \in D
    OBVIOUS
  <2>2. x <= n - y
    BY <1>2, <2>1
  <2>3. x \in Nat /\ y \in Nat
    BY <1>1
  <2> QED
    BY <2>2, <2>3
<1> QED
  BY <1>3, <1>4

(* The positions of a finite set in increasing order: exactly one of them  *)
(* has n of them up to it, for each n up to their number.                  *)
LEMMA RankIsBijective ==
  ASSUME NEW m \in Nat, NEW I, I \subseteq 1 .. m
  PROVE  /\ Cardinality(I) \in Nat
         /\ \A i \in I : Cardinality({j \in I : j <= i}) \in 1 .. Cardinality(I)
         /\ \A n \in 1 .. Cardinality(I) :
              \E i \in I : Cardinality({j \in I : j <= i}) = n
         /\ \A i, k \in I :
              Cardinality({j \in I : j <= i}) = Cardinality({j \in I : j <= k}) => i = k
<1> DEFINE Upto(i) == {j \in I : j <= i}
           rank == [i \in I |-> Cardinality(Upto(i))]
           N == Cardinality(I)
<1>1. IsFiniteSet(I) /\ N \in Nat
  <2>1. IsFiniteSet(1 .. m)
    BY FS_Interval
  <2>2. IsFiniteSet(I)
    BY <2>1, FS_Subset
  <2> QED
    BY <2>2, FS_CardinalityType
<1>2. \A i \in I : Upto(i) \in SUBSET I /\ IsFiniteSet(Upto(i)) /\ Cardinality(Upto(i)) \in Nat
  BY <1>1, FS_Subset, FS_CardinalityType
<1>3. \A i \in I : Cardinality(Upto(i)) <= N
  BY <1>1, <1>2, FS_Subset
<1>4. \A i \in I : Cardinality(Upto(i)) # 0
  <2> SUFFICES ASSUME NEW i \in I PROVE Cardinality(Upto(i)) # 0
    OBVIOUS
  <2>1. i \in Upto(i)
    OBVIOUS
  <2> QED
    BY <1>2, <2>1, FS_EmptySet
<1>5. \A i \in I : Cardinality(Upto(i)) \in 1 .. N
  BY <1>1, <1>2, <1>3, <1>4
<1>6. ASSUME NEW i \in I, NEW k \in I, i < k PROVE Cardinality(Upto(i)) # Cardinality(Upto(k))
  <2>1. i \in Nat /\ k \in Nat /\ \A j \in I : j \in Nat
    OBVIOUS
  <2>2. Upto(i) \subseteq Upto(k)
    <3>1. \A j \in I : j <= i => j <= k
      BY <1>6, <2>1
    <3> QED
      BY <3>1
  <2>3. k \in Upto(k)
    BY <2>1
  <2>4. k \notin Upto(i)
    <3>1. ~(k <= i)
      BY <1>6, <2>1
    <3> QED
      BY <3>1
  <2> HIDE DEF Upto
  <2> QED
    BY <1>2, <2>2, <2>3, <2>4, FS_Subset
<1>7. rank \in [I -> 1 .. N]
  BY <1>5
<1>8. \A i, k \in I : i # k => rank[i] # rank[k]
  <2> SUFFICES ASSUME NEW i \in I, NEW k \in I, i # k PROVE rank[i] # rank[k]
    OBVIOUS
  <2>1. i < k \/ k < i
    OBVIOUS
  <2> QED
    BY <1>6, <2>1
<1>9. rank \in Injection(I, 1 .. N)
  BY <1>7, <1>8 DEF Injection, IsInjective
<1>10. IsFiniteSet(1 .. N) /\ Cardinality(1 .. N) = N
  BY <1>1, FS_Interval
<1>11. rank \in Surjection(I, 1 .. N)
  BY <1>9, <1>10, FS_Injection
<1>12. \A n \in 1 .. N : \E i \in I : rank[i] = n
  BY <1>11 DEF Surjection
<1> QED
  BY <1>1, <1>5, <1>8, <1>12

(* A list without the frames of F holds its other elements, each as often  *)
(* as before.                                                              *)
LEMMA UnlinkedFacts ==
  ASSUME NEW S, NEW s \in Seq(S), NEW F
  PROVE  /\ Unlinked(s, F) \in Seq(S)
         /\ Elements(Unlinked(s, F)) = Elements(s) \ F
         /\ Injective(s) => Injective(Unlinked(s, F))
<1> DEFINE Kept == {i \in DOMAIN s : s[i] \notin F}
           Rank(i) == Cardinality({j \in Kept : j <= i})
           At(n) == CHOOSE i \in Kept : Rank(i) = n
           N == Cardinality(Kept)
<1>1. Unlinked(s, F) = [n \in 1 .. N |-> s[At(n)]]
  BY DEF Unlinked
<1>2. Len(s) \in Nat /\ Kept \subseteq 1 .. Len(s)
  OBVIOUS
<1>3. /\ N \in Nat
      /\ \A i \in Kept : Rank(i) \in 1 .. N
      /\ \A n \in 1 .. N : \E i \in Kept : Rank(i) = n
      /\ \A i, k \in Kept : Rank(i) = Rank(k) => i = k
  BY <1>2, RankIsBijective
<1> HIDE DEF Rank
<1>4. \A n \in 1 .. N : At(n) \in Kept /\ Rank(At(n)) = n
  BY <1>3
<1>5. \A i \in Kept : At(Rank(i)) = i
  BY <1>3, <1>4
<1> HIDE DEF At, Kept
<1>6. \A i \in Kept : i \in 1 .. Len(s) /\ s[i] \in S /\ s[i] \notin F
  BY DEF Kept
<1>7. Unlinked(s, F) \in Seq(S)
  BY <1>1, <1>3, <1>4, <1>6
<1>8. DOMAIN Unlinked(s, F) = 1 .. N
  BY <1>1
<1>9. ASSUME NEW x \in Elements(s) \ F PROVE x \in Elements(Unlinked(s, F))
  <2>1. PICK i \in Kept : s[i] = x
    BY DEF Elements, Kept
  <2>2. Rank(i) \in 1 .. N /\ Unlinked(s, F)[Rank(i)] = x
    BY <1>1, <1>3, <1>5, <2>1
  <2> QED
    BY <1>8, <2>2 DEF Elements
<1>10. ASSUME NEW n \in 1 .. N
       PROVE  Unlinked(s, F)[n] \in Elements(s) \ F
  <2>1. Unlinked(s, F)[n] = s[At(n)] /\ At(n) \in Kept
    BY <1>1, <1>4
  <2>2. At(n) \in DOMAIN s /\ s[At(n)] \notin F
    BY <2>1 DEF Kept
  <2> QED
    BY <2>1, <2>2 DEF Elements
<1>11. Elements(Unlinked(s, F)) = Elements(s) \ F
  BY <1>8, <1>9, <1>10 DEF Elements
<1>12. Injective(s) => Injective(Unlinked(s, F))
  <2> SUFFICES ASSUME Injective(s), NEW m \in 1 .. N, NEW n \in 1 .. N,
                      s[At(m)] = s[At(n)]
               PROVE  m = n
    BY <1>1, <1>8 DEF Injective
  <2>1. At(m) = At(n)
    BY <1>4, <1>6 DEF Injective
  <2> QED
    BY <1>4, <2>1
<1> QED
  BY <1>7, <1>11, <1>12

(* LinkHead adds a frame to a list. *)
LEMMA LinkHeadFacts ==
  ASSUME NEW S, NEW s \in Seq(S), NEW f \in S
  PROVE  /\ LinkHead(s, f) \in Seq(S)
         /\ Elements(LinkHead(s, f)) = {f} \cup Elements(s)
         /\ Injective(s) /\ f \notin Elements(s) => Injective(LinkHead(s, f))
<1>1. LinkHead(s, f) \in Seq(S) /\ Len(LinkHead(s, f)) = Len(s) + 1
  BY DEF LinkHead
<1>2. \A i \in 1 .. Len(s) + 1 :
        LinkHead(s, f)[i] = IF i = 1 THEN f ELSE s[i - 1]
  BY DEF LinkHead
<1>3. \A i \in 1 .. Len(s) : LinkHead(s, f)[i + 1] = s[i]
  BY <1>2
<1>4. LinkHead(s, f)[1] = f
  BY <1>2
<1> HIDE DEF LinkHead
<1>5. Elements(LinkHead(s, f)) = {f} \cup Elements(s)
  <2>1. \A i \in DOMAIN LinkHead(s, f) : LinkHead(s, f)[i] \in {f} \cup Elements(s)
    BY <1>1, <1>2 DEF Elements
  <2>2. f \in Elements(LinkHead(s, f))
    BY <1>1, <1>4 DEF Elements
  <2>3. \A i \in DOMAIN s : s[i] \in Elements(LinkHead(s, f))
    BY <1>1, <1>3 DEF Elements
  <2> QED
    BY <2>1, <2>2, <2>3 DEF Elements
<1>6. ASSUME Injective(s), f \notin Elements(s), NEW i \in 1 .. Len(s) + 1,
             NEW j \in 1 .. Len(s) + 1, LinkHead(s, f)[i] = LinkHead(s, f)[j]
      PROVE  i = j
  BY <1>2, <1>6 DEF Injective, Elements
<1> QED
  BY <1>1, <1>5, <1>6 DEF Injective

(* The head of a list and the others are its elements. *)
LEMMA HeadTailFacts ==
  ASSUME NEW S, NEW s \in Seq(S), s # <<>>
  PROVE  /\ Head(s) \in S /\ Tail(s) \in Seq(S)
         /\ Elements(s) = {Head(s)} \cup Elements(Tail(s))
         /\ Injective(s) => Injective(Tail(s)) /\ Head(s) \notin Elements(Tail(s))
<1>1. Tail(s) \in Seq(S) /\ Len(s) >= 1 /\ Len(Tail(s)) = Len(s) - 1 /\ Head(s) = s[1]
  OBVIOUS
<1>2. \A i \in 1 .. Len(s) - 1 : Tail(s)[i] = s[i + 1]
  OBVIOUS
<1>3. \A i \in 1 .. Len(s) : i = 1 \/ s[i] = Tail(s)[i - 1]
  OBVIOUS
<1>4. Elements(s) = {Head(s)} \cup Elements(Tail(s))
  <2>1. \A i \in DOMAIN s : s[i] \in {Head(s)} \cup Elements(Tail(s))
    <3>1. \A i \in DOMAIN s : i = 1 \/ i - 1 \in DOMAIN Tail(s)
      BY <1>1
    <3> QED
      BY <1>1, <1>3, <3>1 DEF Elements
  <2>2. Head(s) \in Elements(s)
    BY <1>1 DEF Elements
  <2>3. \A i \in DOMAIN Tail(s) : Tail(s)[i] \in Elements(s)
    BY <1>1, <1>2 DEF Elements
  <2> QED
    BY <2>1, <2>2, <2>3 DEF Elements
<1>5. ASSUME Injective(s) PROVE Injective(Tail(s)) /\ Head(s) \notin Elements(Tail(s))
  BY <1>1, <1>2, <1>5 DEF Injective, Elements
<1> QED
  BY <1>1, <1>4, <1>5

(* The free list with the frames of F at its head. *)
LEMMA FreedFacts ==
  ASSUME NEW F, F \subseteq Elements(used), used \in Seq(Frames), free \in Seq(Frames)
  PROVE  /\ Freed(F) \in Seq(Frames)
         /\ Elements(Freed(F)) = F \cup Elements(free)
         /\ FramesPartition => Injective(Freed(F))
<1> DEFINE out == Unlinked(used, Frames \ F)
           rev == [i \in 1 .. Len(out) |-> out[Len(out) + 1 - i]]
<1>1. /\ out \in Seq(Frames)
      /\ Elements(out) = Elements(used) \ (Frames \ F)
      /\ Injective(used) => Injective(out)
  BY UnlinkedFacts
<1>2. Elements(used) \subseteq Frames
  BY DEF Elements
<1>3. Elements(out) = F
  BY <1>1, <1>2
<1>4. Freed(F) = rev \o free
  BY DEF Freed
<1> HIDE DEF out
<1>5. Len(out) \in Nat /\ DOMAIN out = 1 .. Len(out)
  BY <1>1
<1>6. rev \in Seq(Frames) /\ Len(rev) = Len(out)
  BY <1>1
<1>7. \A i \in 1 .. Len(out) : Len(out) + 1 - i \in 1 .. Len(out)
  BY <1>5
<1>8. \A i \in 1 .. Len(out) : rev[i] = out[Len(out) + 1 - i] /\ rev[Len(out) + 1 - i] = out[i]
  BY <1>5, <1>7
<1>9. Elements(rev) = F
  <2>1. \A i \in DOMAIN rev : rev[i] \in Elements(out)
    BY <1>5, <1>6, <1>7, <1>8 DEF Elements
  <2>2. \A i \in DOMAIN out : out[i] \in Elements(rev)
    BY <1>5, <1>6, <1>7, <1>8 DEF Elements
  <2> QED
    BY <1>3, <2>1, <2>2 DEF Elements
<1>10. Injective(out) => Injective(rev)
  BY <1>5, <1>6, <1>7, <1>8 DEF Injective
<1> HIDE DEF rev
<1>11. /\ rev \o free \in Seq(Frames)
       /\ Len(rev \o free) = Len(rev) + Len(free)
  BY <1>6
<1>12. \A i \in 1 .. Len(rev) + Len(free) :
         (rev \o free)[i] = IF i <= Len(rev) THEN rev[i] ELSE free[i - Len(rev)]
  BY <1>6
<1>13. \A i \in 1 .. Len(free) :
         i + Len(rev) \in 1 .. Len(rev) + Len(free) /\ (rev \o free)[i + Len(rev)] = free[i]
  BY <1>6, <1>12
<1>14. Elements(rev \o free) = F \cup Elements(free)
  <2>1. \A i \in DOMAIN (rev \o free) : (rev \o free)[i] \in Elements(rev) \cup Elements(free)
    BY <1>6, <1>11, <1>12 DEF Elements
  <2>2. \A i \in DOMAIN rev : rev[i] \in Elements(rev \o free)
    BY <1>6, <1>11, <1>12 DEF Elements
  <2>3. \A i \in DOMAIN free : free[i] \in Elements(rev \o free)
    <3>1. \A i \in DOMAIN free :
            i + Len(rev) \in DOMAIN (rev \o free) /\ (rev \o free)[i + Len(rev)] = free[i]
      BY <1>11, <1>13
    <3> QED
      BY <3>1 DEF Elements
  <2> QED
    BY <1>9, <2>1, <2>2, <2>3 DEF Elements
<1>15. ASSUME FramesPartition PROVE Injective(rev \o free)
  <2>1. Injective(rev) /\ Injective(free) /\ Elements(rev) \cap Elements(free) = {}
    BY <1>1, <1>9, <1>10, <1>15 DEF FramesPartition
  <2> QED
    <3> SUFFICES ASSUME NEW i \in 1 .. Len(rev) + Len(free),
                        NEW j \in 1 .. Len(rev) + Len(free),
                        (rev \o free)[i] = (rev \o free)[j]
                 PROVE  i = j
      BY <1>6, <1>11 DEF Injective
    <3>1. CASE i <= Len(rev) /\ j <= Len(rev)
      BY <1>6, <1>12, <2>1, <3>1 DEF Injective
    <3>2. CASE i > Len(rev) /\ j > Len(rev)
      <4>1. free[i - Len(rev)] = free[j - Len(rev)]
        BY <1>6, <1>12, <3>2
      <4> QED
        BY <1>6, <2>1, <3>2, <4>1 DEF Injective
    <3>3. ASSUME NEW m \in 1 .. Len(rev), NEW n \in 1 .. Len(rev) + Len(free), n > Len(rev)
          PROVE  (rev \o free)[m] # (rev \o free)[n]
      <4>1. rev[m] \in Elements(rev) /\ free[n - Len(rev)] \in Elements(free)
        BY <1>6, <3>3 DEF Elements
      <4> QED
        BY <1>6, <1>12, <2>1, <3>3, <4>1
    <3> QED
      BY <1>6, <3>1, <3>2, <3>3
<1> QED
  BY <1>4, <1>11, <1>14, <1>15
-------------------------------------------------------------------------------
(* What the descriptors, the hash table and the disk hold.                 *)

Desc == [key : Page \cup {NoPage}, dirty : BOOLEAN, pin : 0 .. MaxPins, data : Data]

Clean == \A k \in InPool :
  ~bufTable[hash[k]].dirty => k \in DOMAIN disk /\ disk[k] = bufTable[hash[k]].data

(* The part of the invariant that does not mention the histories. *)
PoolInv ==
  /\ bufTable \in [Frames -> Desc]
  /\ used \in Seq(Frames) /\ free \in Seq(Frames)
  /\ InPool \subseteq Page /\ hash \in [InPool -> Frames]
  /\ DOMAIN disk \subseteq Page /\ disk \in [DOMAIN disk -> Data]
  /\ FramesPartition
  /\ HashMatchesUsed
  /\ Clean

Pins(k)  == IF k \in InPool THEN bufTable[hash[k]].pin ELSE 0
Known(k) == k \in InPool \/ k \in DOMAIN disk

(* A step that leaves what page k reads as, its pins and whether it is     *)
(* anywhere; and one that leaves the frames of the pinned pages.           *)
Kept(k) ==
  /\ Visible(k)' = Visible(k)
  /\ Pins(k)' = Pins(k)
  /\ Known(k)' <=> Known(k)
PinnedKept ==
  \A k \in InPool : bufTable[hash[k]].pin > 0
    => /\ k \in DOMAIN hash' /\ hash'[k] = hash[k]
       /\ bufTable'[hash[k]].key = k

(* The invariant in terms of that part, of a state and of the next one. *)
LEMMA InvParts ==
  ASSUME Inv
  PROVE  /\ PoolInv
         /\ DOMAIN given \subseteq Page /\ given \in [DOMAIN given -> Data]
         /\ lost \subseteq Page \ DOMAIN given
         /\ \A k \in DOMAIN given : Known(k) /\ Visible(k) = given[k]
         /\ \A k \in Page : Known(k) => k \in DOMAIN given \cup lost
BY DEF Inv, TypeOK, Desc, PoolInv, Coherent, Clean, Known, PagesKnown

LEMMA InvNext ==
  ASSUME PoolInv',
         DOMAIN given' \subseteq Page, given' \in [DOMAIN given' -> Data],
         lost' \subseteq Page \ DOMAIN given',
         \A k \in DOMAIN given' : Known(k)' /\ Visible(k)' = given'[k],
         \A k \in Page : Known(k)' => k \in DOMAIN given' \cup lost'
  PROVE  Inv'
<1>1. TypeOK'
  BY DEF PoolInv, TypeOK, Desc
<1>2. Coherent'
  BY DEF PoolInv, Coherent, Clean, Known
<1>3. PagesKnown'
  BY DEF PagesKnown, Known, PoolInv
<1> QED
  BY <1>1, <1>2, <1>3 DEF PoolInv, Inv

(* A frame of the used list and the page it holds lead to each other. *)
LEMMA UsedFacts ==
  ASSUME PoolInv
  PROVE  /\ Elements(used) \subseteq Frames
         /\ \A f \in Elements(used) :
              /\ bufTable[f] \in Desc
              /\ bufTable[f].key \in InPool /\ bufTable[f].key \in Page
              /\ hash[bufTable[f].key] = f
         /\ \A k \in InPool :
              /\ k \in Page
              /\ hash[k] \in Elements(used) /\ hash[k] \in Frames
              /\ bufTable[hash[k]].key = k
              /\ bufTable[hash[k]] \in Desc
<1>1. Elements(used) \subseteq Frames
  BY DEF PoolInv, FramesPartition
<1> QED
  BY <1>1 DEF PoolInv, HashMatchesUsed

(* The victim is an unpinned frame of the used list. *)
LEMMA VictimFacts ==
  ASSUME PoolInv, CanAlloc, free = <<>>
  PROVE  Victim \in Elements(used) /\ bufTable[Victim].pin = 0
<1>1. Unpinned # {}
  BY DEF CanAlloc
<1>2. Len(used) \in Nat /\ Unpinned \subseteq 1 .. Len(used)
  BY DEF Unpinned, PoolInv
<1>3. \E i \in Unpinned : \A j \in Unpinned : j <= i
  BY <1>1, <1>2, GreatestMember
<1>4. PICK i \in Unpinned : Victim = used[i]
  BY <1>3 DEF Victim
<1> QED
  BY <1>4 DEF Unpinned, Elements

(* Writing out F writes every dirty frame of it, to the page it holds, and *)
(* only dirty frames. *)
LEMMA WrittenFacts ==
  ASSUME PoolInv, NEW F, F \subseteq Elements(used)
  PROVE  /\ Written(F) \subseteq Elements(used)
         /\ \A f \in F : bufTable[f].dirty => f \in Written(F)
         /\ \A f \in Written(F) : bufTable[f].dirty
         /\ \A f \in Written(F) : bufTable[f].key[1] # LogFd => f \in F
BY DEF Written

LEMMA DiskAfterFacts ==
  ASSUME PoolInv, NEW F, F \subseteq Elements(used)
  PROVE  /\ DOMAIN DiskAfter(F) = DOMAIN disk \cup {k \in InPool : hash[k] \in Written(F)}
         /\ \A k \in InPool : hash[k] \in Written(F) =>
              DiskAfter(F)[k] = bufTable[hash[k]].data
         /\ \A k \in DOMAIN disk : ~(k \in InPool /\ hash[k] \in Written(F)) =>
              DiskAfter(F)[k] = disk[k]
         /\ DOMAIN DiskAfter(F) \subseteq Page
         /\ DiskAfter(F) \in [DOMAIN DiskAfter(F) -> Data]
<1>1. \A k : (\E f \in Written(F) : bufTable[f].key = k) <=> k \in InPool /\ hash[k] \in Written(F)
  BY WrittenFacts, UsedFacts
<1>2. DOMAIN DiskAfter(F) = DOMAIN disk \cup {k \in InPool : hash[k] \in Written(F)}
  BY <1>1 DEF DiskAfter
<1>3. ASSUME NEW k \in InPool, hash[k] \in Written(F)
      PROVE  DiskAfter(F)[k] = bufTable[hash[k]].data
  <2>1. (CHOOSE f \in Written(F) : bufTable[f].key = k) = hash[k]
    BY <1>3, WrittenFacts, UsedFacts
  <2>2. \E f \in Written(F) : bufTable[f].key = k
    BY <1>1, <1>3
  <2> QED
    BY <1>1, <1>3, <2>1, <2>2 DEF DiskAfter
<1>4. \A k \in DOMAIN disk : ~(k \in InPool /\ hash[k] \in Written(F)) =>
        DiskAfter(F)[k] = disk[k]
  BY <1>1 DEF DiskAfter
<1>5. DOMAIN DiskAfter(F) \subseteq Page
  BY <1>2 DEF PoolInv
<1>6. DiskAfter(F) = [k \in DOMAIN DiskAfter(F) |-> DiskAfter(F)[k]]
  BY DEF DiskAfter
<1>7. \A k \in DOMAIN DiskAfter(F) : DiskAfter(F)[k] \in Data
  BY <1>2, <1>3, <1>4, UsedFacts DEF PoolInv, Desc
<1> QED
  BY <1>2, <1>3, <1>4, <1>5, <1>6, <1>7

LEMMA TableAfterFacts ==
  ASSUME PoolInv, NEW F, F \subseteq Elements(used)
  PROVE  /\ TableAfter(F) \in [Frames -> Desc]
         /\ \A f \in Frames :
              /\ TableAfter(F)[f].key = bufTable[f].key
              /\ TableAfter(F)[f].pin = bufTable[f].pin
              /\ TableAfter(F)[f].data = bufTable[f].data
              /\ TableAfter(F)[f].dirty <=> bufTable[f].dirty /\ f \notin Written(F)
<1>1. \A f \in Written(F) : bufTable[f].dirty
  BY WrittenFacts
<1> QED
  BY <1>1 DEF PoolInv, TableAfter, Desc
-------------------------------------------------------------------------------
(* The three kinds of steps of the pool.                                   *)

(* Moving a frame to the head of the used list. *)
LEMMA RelinkFacts ==
  ASSUME PoolInv, NEW f \in Elements(used)
  PROVE  /\ LinkHead(Unlink(used, f), f) \in Seq(Frames)
         /\ Elements(LinkHead(Unlink(used, f), f)) = Elements(used)
         /\ Injective(LinkHead(Unlink(used, f), f))
<1>1. /\ Unlink(used, f) \in Seq(Frames)
      /\ Elements(Unlink(used, f)) = Elements(used) \ {f}
      /\ Injective(Unlink(used, f))
  BY UnlinkedFacts DEF Unlink, PoolInv, FramesPartition
<1>2. f \in Frames
  BY UsedFacts
<1>3. f \notin Elements(Unlink(used, f))
  BY <1>1
<1>4. /\ LinkHead(Unlink(used, f), f) \in Seq(Frames)
      /\ Elements(LinkHead(Unlink(used, f), f)) = {f} \cup Elements(Unlink(used, f))
      /\ Injective(LinkHead(Unlink(used, f), f))
  BY <1>1, <1>2, <1>3, LinkHeadFacts
<1> QED
  BY <1>1, <1>4

(* A page in the pool gets another descriptor, and its frame may move.     *)
LEMMA TouchKeeps ==
  ASSUME PoolInv, NEW k \in InPool, NEW d \in Desc, d.key = k,
         ~d.dirty => ~bufTable[hash[k]].dirty /\ d.data = bufTable[hash[k]].data,
         bufTable' = [bufTable EXCEPT ![hash[k]] = d],
         used' = used \/ used' = LinkHead(Unlink(used, hash[k]), hash[k]),
         UNCHANGED <<free, hash, disk>>
  PROVE  /\ PoolInv'
         /\ PinnedKept
         /\ \A l \in Page \ {k} : Kept(l)
         /\ Visible(k)' = d.data /\ Pins(k)' = d.pin /\ Known(k)' /\ Known(k)
<1> DEFINE f == hash[k]
<1>1. f \in Elements(used) /\ f \in Frames
  BY UsedFacts
<1>0. hash' = hash /\ InPool' = InPool /\ disk' = disk /\ free' = free
  BY DEF InPool
<1>2. used' \in Seq(Frames) /\ Elements(used') = Elements(used) /\ Injective(used')
  BY <1>1, RelinkFacts DEF PoolInv, FramesPartition
<1>3. FramesPartition'
  BY <1>2 DEF PoolInv, FramesPartition
<1>4. \A g \in Frames : bufTable'[g] = IF g = f THEN d ELSE bufTable[g]
  BY DEF PoolInv
<1>5. \A l \in InPool : l # k => hash[l] # f
  BY UsedFacts
<1>6. \A g \in Elements(used) : bufTable'[g].key = bufTable[g].key
  BY <1>4, UsedFacts
<1>7. HashMatchesUsed'
  BY <1>0, <1>2, <1>6, UsedFacts DEF HashMatchesUsed
<1>8. bufTable' \in [Frames -> Desc]
  BY DEF PoolInv
<1>9. Clean'
  BY <1>0, <1>1, <1>4, <1>5, UsedFacts DEF Clean, PoolInv
<1>10. PoolInv'
  BY <1>0, <1>2, <1>3, <1>7, <1>8, <1>9 DEF PoolInv
<1>11. PinnedKept
  BY <1>0, <1>6, UsedFacts DEF PinnedKept, InPool
<1>12. \A l \in Page \ {k} : Kept(l)
  BY <1>0, <1>4, <1>5, UsedFacts DEF Kept, Visible, Pins, Known
<1>13. Visible(k)' = d.data /\ Pins(k)' = d.pin /\ Known(k)' /\ Known(k)
  BY <1>0, <1>1, <1>4 DEF Visible, Pins, Known
<1> QED
  BY <1>10, <1>11, <1>12, <1>13

(* The dirty pages in the frames of F are written, with the log if need be, *)
(* and the frames of G, a part of F that is not pinned, are released.       *)
LEMMA WriteOutKeeps ==
  ASSUME PoolInv, NEW F, NEW G, F \subseteq Elements(used), G \subseteq F,
         \A f \in G : bufTable[f].pin = 0,
         bufTable' = Emptied(TableAfter(F), G),
         disk' = DiskAfter(F),
         hash' = [k \in {k \in InPool : hash[k] \notin G} |-> hash[k]],
         used' \in Seq(Frames), free' \in Seq(Frames),
         FramesPartition', Elements(used') = Elements(used) \ G
  PROVE  PoolInv' /\ PinnedKept /\ \A k \in Page : Kept(k)
<1>1. /\ TableAfter(F) \in [Frames -> Desc]
      /\ \A f \in Frames :
           /\ TableAfter(F)[f].key = bufTable[f].key
           /\ TableAfter(F)[f].pin = bufTable[f].pin
           /\ TableAfter(F)[f].data = bufTable[f].data
           /\ TableAfter(F)[f].dirty <=> bufTable[f].dirty /\ f \notin Written(F)
  BY TableAfterFacts
<1>2. \A f \in Frames : bufTable'[f] = IF f \in G THEN EmptyFrame ELSE TableAfter(F)[f]
  BY DEF Emptied
<1>3. EmptyFrame \in Desc
  BY PoolAssumption DEF EmptyFrame, Desc, NoPage
<1>4. bufTable' \in [Frames -> Desc]
  BY <1>1, <1>2, <1>3 DEF Emptied
<1>5. /\ InPool' = {k \in InPool : hash[k] \notin G}
      /\ \A k \in InPool' : hash'[k] = hash[k]
      /\ hash' \in [InPool' -> Frames]
  BY UsedFacts DEF InPool
<1>6. HashMatchesUsed'
  BY <1>1, <1>2, <1>5, UsedFacts DEF HashMatchesUsed
<1>7. /\ DOMAIN disk' = DOMAIN disk \cup {k \in InPool : hash[k] \in Written(F)}
      /\ \A k \in InPool : hash[k] \in Written(F) => disk'[k] = bufTable[hash[k]].data
      /\ \A k \in DOMAIN disk : ~(k \in InPool /\ hash[k] \in Written(F)) =>
            disk'[k] = disk[k]
      /\ DOMAIN disk' \subseteq Page
      /\ disk' \in [DOMAIN disk' -> Data]
  BY DiskAfterFacts
<1>8. Clean'
  BY <1>1, <1>2, <1>5, <1>7, UsedFacts DEF Clean, PoolInv
<1>9. InPool' \subseteq Page
  BY <1>5 DEF PoolInv
<1>10. PoolInv'
  BY <1>4, <1>5, <1>6, <1>7, <1>8, <1>9 DEF PoolInv
<1>11. PinnedKept
  BY <1>1, <1>2, <1>5, UsedFacts DEF PinnedKept, InPool
<1>12. ASSUME NEW k \in Page PROVE Kept(k)
  <2>1. CASE k \in InPool'
    BY <1>1, <1>2, <1>5, <1>7, <2>1, UsedFacts DEF Kept, Visible, Pins, Known
  <2>2. CASE k \in InPool /\ hash[k] \in G
    <3>1. k \notin InPool' /\ hash[k] \in F /\ bufTable[hash[k]].pin = 0
      BY <1>5, <2>2
    <3>2. k \in DOMAIN disk' /\ disk'[k] = bufTable[hash[k]].data
      BY <1>7, <2>2, <3>1, WrittenFacts DEF PoolInv, Clean
    <3> QED
      BY <2>2, <3>1, <3>2 DEF Kept, Visible, Pins, Known
  <2>3. CASE k \notin InPool
    BY <1>5, <1>7, <2>3 DEF Kept, Visible, Pins, Known
  <2> QED
    BY <1>5, <2>1, <2>2, <2>3
<1> QED
  BY <1>10, <1>11, <1>12
(* Page k, which is not in the pool, gets a frame: the head of the free    *)
(* list or, if there is none, the victim's. *)
LEMMA PutInFrameKeeps ==
  ASSUME PoolInv, CanAlloc, NEW k \in Page \ InPool, NEW d \in Data, NEW dirty \in BOOLEAN,
         ~dirty => k \in DOMAIN disk /\ disk[k] = d,
         PutInFrame(k, d, dirty)
  PROVE  /\ PoolInv'
         /\ PinnedKept
         /\ \A l \in Page \ {k} : Kept(l)
         /\ Visible(k)' = d /\ Pins(k)' = 1 /\ Known(k)'
         /\ \E F \in SUBSET Elements(used) : disk' = DiskAfter(F)
<1> DEFINE desc == [key |-> k, dirty |-> dirty, pin |-> 1, data |-> d]
           f == IF free # <<>> THEN Head(free) ELSE Victim
           F == IF free # <<>> THEN {} ELSE {Victim}
           Placed ==
             /\ F \subseteq Elements(used) /\ \A g \in F : bufTable[g].pin = 0
             /\ f \in Frames /\ \A l \in InPool : hash[l] \notin F => hash[l] # f
             /\ used' \in Seq(Frames) /\ free' \in Seq(Frames) /\ FramesPartition'
             /\ Elements(used') = Elements(used) \cup {f} /\ F \subseteq {f}
             /\ disk' = DiskAfter(F)
             /\ bufTable' = [TableAfter(F) EXCEPT ![f] = desc]
             /\ InPool' = {l \in InPool : hash[l] \notin F} \cup {k}
             /\ hash' = [l \in InPool' |-> IF l = k THEN f ELSE hash[l]]
<1>1. ASSUME free # <<>> PROVE Placed
  <2>1. f = Head(free) /\ F = {}
    BY <1>1
  <2>2. /\ f \in Frames /\ Tail(free) \in Seq(Frames)
        /\ Elements(free) = {f} \cup Elements(Tail(free))
        /\ Injective(Tail(free)) /\ f \notin Elements(Tail(free))
    BY <1>1, <2>1, HeadTailFacts DEF PoolInv, FramesPartition
  <2>3. f \notin Elements(used)
    BY <2>2 DEF PoolInv, FramesPartition
  <2>4. /\ LinkHead(used, f) \in Seq(Frames)
        /\ Elements(LinkHead(used, f)) = {f} \cup Elements(used)
        /\ Injective(LinkHead(used, f))
    BY <2>2, <2>3, LinkHeadFacts DEF PoolInv, FramesPartition
  <2>5. /\ free' = Tail(free) /\ used' = LinkHead(used, f) /\ hash' = With(hash, k, f)
        /\ bufTable' = [bufTable EXCEPT ![f] = desc] /\ disk' = disk
    BY <1>1, <2>1 DEF PutInFrame
  <2>6. FramesPartition'
    BY <2>2, <2>3, <2>4, <2>5 DEF FramesPartition, PoolInv
  <2>7. Written({}) = {}
    BY DEF Written
  <2>8. DiskAfter({}) = disk
    BY <2>7 DEF DiskAfter, PoolInv
  <2>9. TableAfter({}) = bufTable
    BY <2>7 DEF TableAfter, PoolInv
  <2>10. /\ F \subseteq Elements(used) /\ \A g \in F : bufTable[g].pin = 0
         /\ \A l \in InPool : hash[l] \notin F => hash[l] # f
    BY <2>1, <2>3, UsedFacts
  <2>11. InPool' = {l \in InPool : hash[l] \notin F} \cup {k}
    BY <2>1, <2>5 DEF InPool, With
  <2>12. hash' = [l \in InPool' |-> IF l = k THEN f ELSE hash[l]]
    BY <2>5 DEF InPool, With
  <2> QED
    BY <2>1, <2>2, <2>4, <2>5, <2>6, <2>8, <2>9, <2>10, <2>11, <2>12
<1>2. ASSUME free = <<>> PROVE Placed
  <2>1. f = Victim /\ F = {f}
    BY <1>2
  <2>2. f \in Elements(used) /\ f \in Frames /\ bufTable[f].pin = 0
    BY <1>2, <2>1, VictimFacts, UsedFacts
  <2>3. /\ free' = free /\ used' = LinkHead(Unlink(used, f), f)
        /\ hash' = With(Without(hash, bufTable[f].key), k, f)
        /\ bufTable' = [TableAfter(F) EXCEPT ![f] = desc] /\ disk' = DiskAfter(F)
    BY <1>2, <2>1 DEF PutInFrame
  <2>4. used' \in Seq(Frames) /\ Elements(used') = Elements(used) /\ Injective(used')
    BY <2>2, <2>3, RelinkFacts
  <2>5. FramesPartition'
    BY <2>3, <2>4 DEF FramesPartition, PoolInv
  <2>6. \A l \in InPool : l = bufTable[f].key <=> hash[l] = f
    BY <2>2, UsedFacts
  <2>7. InPool' = {l \in InPool : hash[l] \notin F} \cup {k}
    BY <2>1, <2>3, <2>6 DEF InPool, With, Without
  <2>8. hash' = [l \in InPool' |-> IF l = k THEN f ELSE hash[l]]
    BY <2>3 DEF InPool, With, Without
  <2> QED
    BY <2>1, <2>2, <2>3, <2>4, <2>5, <2>7, <2>8 DEF PoolInv
<1>3. Placed
  BY <1>1, <1>2
<1> HIDE DEF f, F
<1>4. /\ TableAfter(F) \in [Frames -> Desc]
      /\ \A g \in Frames :
           /\ TableAfter(F)[g].key = bufTable[g].key
           /\ TableAfter(F)[g].pin = bufTable[g].pin
           /\ TableAfter(F)[g].data = bufTable[g].data
           /\ TableAfter(F)[g].dirty <=> bufTable[g].dirty /\ g \notin Written(F)
  BY <1>3, TableAfterFacts
<1>5. desc \in Desc
  BY PoolAssumption DEF Desc
<1>6. /\ bufTable' \in [Frames -> Desc]
      /\ \A g \in Frames : bufTable'[g] = IF g = f THEN desc ELSE TableAfter(F)[g]
  BY <1>3, <1>4, <1>5
<1>7. /\ DOMAIN disk' = DOMAIN disk \cup {l \in InPool : hash[l] \in Written(F)}
      /\ \A l \in InPool : hash[l] \in Written(F) => disk'[l] = bufTable[hash[l]].data
      /\ \A l \in DOMAIN disk : ~(l \in InPool /\ hash[l] \in Written(F)) =>
            disk'[l] = disk[l]
      /\ DOMAIN disk' \subseteq Page
      /\ disk' \in [DOMAIN disk' -> Data]
  BY <1>3, DiskAfterFacts
<1>8. hash' \in [InPool' -> Frames] /\ InPool' \subseteq Page
  BY <1>3, UsedFacts
<1>9. /\ hash'[k] = f /\ k \in InPool'
      /\ \A l \in InPool' \ {k} : l \in InPool /\ hash'[l] = hash[l] /\ hash[l] # f
  BY <1>3
<1>10. HashMatchesUsed'
  <2>1. ASSUME NEW g \in Elements(used')
        PROVE  bufTable'[g].key \in InPool' /\ hash'[bufTable'[g].key] = g
    <3>1. CASE g = f
      BY <1>3, <1>6, <1>9, <3>1
    <3>2. CASE g # f
      <4>1. g \in Elements(used) /\ g \notin F
        BY <1>3, <2>1, <3>2
      <4>2. bufTable'[g].key = bufTable[g].key
        BY <1>4, <1>6, <3>2, <4>1, UsedFacts
      <4> QED
        BY <1>3, <1>9, <4>1, <4>2, UsedFacts
    <3> QED
      BY <3>1, <3>2
  <2>2. ASSUME NEW l \in InPool'
        PROVE  hash'[l] \in Elements(used') /\ bufTable'[hash'[l]].key = l
    <3>1. CASE l = k
      BY <1>3, <1>6, <1>9, <3>1
    <3>2. CASE l # k
      BY <1>3, <1>4, <1>6, <1>9, <3>2, UsedFacts
    <3> QED
      BY <3>1, <3>2
  <2> QED
    BY <2>1, <2>2 DEF HashMatchesUsed
<1>11. Clean'
  <2> SUFFICES ASSUME NEW l \in InPool', ~bufTable'[hash'[l]].dirty
               PROVE  l \in DOMAIN disk' /\ disk'[l] = bufTable'[hash'[l]].data
    BY DEF Clean
  <2>1. CASE l = k
    BY <1>3, <1>6, <1>7, <1>9, <2>1
  <2>2. CASE l # k
    BY <1>4, <1>6, <1>7, <1>9, <2>2, UsedFacts DEF PoolInv, Clean
  <2> QED
    BY <2>1, <2>2
<1>12. PoolInv'
  BY <1>3, <1>6, <1>7, <1>8, <1>10, <1>11 DEF PoolInv
<1>13. PinnedKept
  BY <1>3, <1>4, <1>6, <1>9, UsedFacts DEF PinnedKept, InPool
<1>14. ASSUME NEW l \in Page \ {k} PROVE Kept(l)
  <2>1. CASE l \in InPool'
    BY <1>4, <1>6, <1>7, <1>9, <2>1, UsedFacts DEF Kept, Visible, Pins, Known
  <2>2. CASE l \in InPool /\ hash[l] \in F
    <3>1. l \notin InPool' /\ bufTable[hash[l]].pin = 0
      BY <1>3, <2>2
    <3>2. l \in DOMAIN disk' /\ disk'[l] = bufTable[hash[l]].data
      BY <1>3, <1>7, <2>2, WrittenFacts DEF PoolInv, Clean
    <3> QED
      BY <2>2, <3>1, <3>2 DEF Kept, Visible, Pins, Known
  <2>3. CASE l \notin InPool
    BY <1>3, <1>7, <2>3 DEF Kept, Visible, Pins, Known
  <2> QED
    BY <1>3, <2>1, <2>2, <2>3
<1>15. Visible(k)' = d /\ Pins(k)' = 1 /\ Known(k)'
  BY <1>3, <1>6, <1>9 DEF Visible, Pins, Known
<1> QED
  BY <1>3, <1>12, <1>13, <1>14, <1>15
-------------------------------------------------------------------------------
(* The steps.                                                              *)

(* The pages of the store, as Store maps them. *)
Content == [k \in DOMAIN given \cup lost |-> Visible(k)]
Pinned  == [k \in Page |-> Pins(k)]

(* LogBeforeData, of one step. *)
LogFirst ==
  (\E k \in DOMAIN disk' :
     k[1] # LogFd /\ (k \notin DOMAIN disk \/ disk[k] # disk'[k]))
    => \A l \in DOMAIN given :
         l[1] = LogFd => l \in DOMAIN disk' /\ disk'[l] = given[l]

(* A step that changes no page leaves the invariant and the store. *)
LEMMA KeptAll ==
  ASSUME Inv, PoolInv', \A k \in Page : Kept(k), UNCHANGED <<given, lost>>
  PROVE  Inv' /\ UNCHANGED <<Content, Pinned>>
<1>1. \A k \in Page : Visible(k)' = Visible(k) /\ Pins(k)' = Pins(k) /\ (Known(k)' <=> Known(k))
  BY DEF Kept
<1>2. Inv'
  BY <1>1, InvParts, InvNext
<1>3. Pinned' = Pinned
  BY <1>1 DEF Pinned, Page
<1>4. Content' = Content
  BY <1>1, InvParts DEF Content
<1> QED
  BY <1>2, <1>3, <1>4

(* Dirty pages are written with the log before them. *)
LEMMA WritesKeepLogFirst ==
  ASSUME Inv, NEW F, F \subseteq Elements(used), disk' = DiskAfter(F)
  PROVE  LogFirst
<1> SUFFICES ASSUME NEW k \in DOMAIN disk', k[1] # LogFd,
                    k \notin DOMAIN disk \/ disk[k] # disk'[k],
                    NEW l \in DOMAIN given, l[1] = LogFd
             PROVE  l \in DOMAIN disk' /\ disk'[l] = given[l]
  BY DEF LogFirst
<1>1. k \in InPool /\ hash[k] \in Written(F)
  BY DiskAfterFacts, InvParts
<1>2. hash[k] \in F /\ bufTable[hash[k]].dirty /\ bufTable[hash[k]].key[1] # LogFd
  BY <1>1, WrittenFacts, UsedFacts, InvParts
<1>3. \A f \in Elements(used) :
        bufTable[f].dirty /\ bufTable[f].key[1] = LogFd => f \in Written(F)
  BY <1>2 DEF Written
<1>4. CASE l \in InPool /\ bufTable[hash[l]].dirty
  <2>1. hash[l] \in Written(F)
    BY <1>3, <1>4, UsedFacts, InvParts
  <2> QED
    BY <1>4, <2>1, DiskAfterFacts, InvParts DEF Visible
<1>5. CASE l \in InPool /\ ~bufTable[hash[l]].dirty
  <2>1. hash[l] \notin Written(F)
    BY <1>5, WrittenFacts, InvParts
  <2>2. l \in DOMAIN disk /\ disk[l] = bufTable[hash[l]].data
    BY <1>5, InvParts DEF PoolInv, Clean
  <2> QED
    BY <1>5, <2>1, <2>2, DiskAfterFacts, InvParts DEF Visible
<1>6. CASE l \notin InPool
  <2>1. l \in DOMAIN disk /\ disk[l] = given[l]
    BY <1>6, InvParts DEF Visible, Known
  <2> QED
    BY <1>6, <2>1, DiskAfterFacts, InvParts
<1> QED
  BY <1>4, <1>5, <1>6

LEMMA GetPageHitStep ==
  ASSUME Inv, NEW k \in Page, GetPageHit(k)
  PROVE  /\ Inv' /\ PinnedKept /\ LogFirst
         /\ Content' = Content /\ Pinned' = [Pinned EXCEPT ![k] = @ + 1]
<1> DEFINE f == hash[k]
           d == [bufTable[f] EXCEPT !.pin = @ + 1]
<1>1. /\ k \in InPool /\ bufTable[f].pin < MaxPins
      /\ bufTable' = [bufTable EXCEPT ![f].pin = @ + 1]
      /\ used' = LinkHead(Unlink(used, f), f)
      /\ UNCHANGED <<free, hash, disk, given, lost>>
  BY DEF GetPageHit
<1>2. f \in Frames /\ bufTable[f] \in Desc /\ bufTable[f].key = k
  BY <1>1, UsedFacts, InvParts
<1>3. d \in Desc /\ d.key = k /\ d.dirty = bufTable[f].dirty /\ d.data = bufTable[f].data
      /\ d.pin = bufTable[f].pin + 1
  BY <1>1, <1>2, PoolAssumption DEF Desc
<1>4. bufTable' = [bufTable EXCEPT ![f] = d]
  BY <1>1
<1>5. /\ PoolInv' /\ PinnedKept /\ \A l \in Page \ {k} : Kept(l)
      /\ Visible(k)' = d.data /\ Pins(k)' = d.pin /\ Known(k)' /\ Known(k)
  BY <1>1, <1>3, <1>4, TouchKeeps, InvParts
<1>6. Visible(k) = d.data /\ Pins(k) = bufTable[f].pin
  BY <1>1, <1>3 DEF Visible, Pins
<1>7. \A l \in Page : Visible(l)' = Visible(l) /\ (Known(l)' <=> Known(l))
  BY <1>5, <1>6 DEF Kept
<1>8. Inv'
  BY <1>1, <1>5, <1>7, InvParts, InvNext
<1>9. Content' = Content
  BY <1>1, <1>7, InvParts DEF Content
<1>10. Pinned' = [Pinned EXCEPT ![k] = @ + 1]
  BY <1>3, <1>5, <1>6 DEF Pinned, Page, Kept
<1>11. LogFirst
  BY <1>1 DEF LogFirst
<1> QED
  BY <1>5, <1>8, <1>9, <1>10, <1>11
LEMMA UnpinPageStep ==
  ASSUME Inv, NEW k \in Page, UnpinPage(k)
  PROVE  /\ Inv' /\ PinnedKept /\ LogFirst
         /\ Content' = Content /\ Pinned' = [Pinned EXCEPT ![k] = @ - 1]
         /\ Known(k) /\ Pinned[k] > 0
<1> DEFINE f == hash[k]
           d == [bufTable[f] EXCEPT !.pin = @ - 1]
<1>1. /\ k \in InPool /\ bufTable[f].pin > 0
      /\ bufTable' = [bufTable EXCEPT ![f].pin = @ - 1]
      /\ used' = used \/ used' = LinkHead(Unlink(used, f), f)
      /\ UNCHANGED <<free, hash, disk, given, lost>>
  BY DEF UnpinPage
<1>2. f \in Frames /\ bufTable[f] \in Desc /\ bufTable[f].key = k
  BY <1>1, UsedFacts, InvParts
<1>3. d \in Desc /\ d.key = k /\ d.dirty = bufTable[f].dirty /\ d.data = bufTable[f].data
      /\ d.pin = bufTable[f].pin - 1
  BY <1>1, <1>2, PoolAssumption DEF Desc
<1>4. bufTable' = [bufTable EXCEPT ![f] = d]
  BY <1>1
<1>5. /\ PoolInv' /\ PinnedKept /\ \A l \in Page \ {k} : Kept(l)
      /\ Visible(k)' = d.data /\ Pins(k)' = d.pin /\ Known(k)' /\ Known(k)
  BY <1>1, <1>3, <1>4, TouchKeeps, InvParts
<1>6. Visible(k) = d.data /\ Pins(k) = bufTable[f].pin
  BY <1>1, <1>3 DEF Visible, Pins
<1>7. \A l \in Page : Visible(l)' = Visible(l) /\ (Known(l)' <=> Known(l))
  BY <1>5, <1>6 DEF Kept
<1>8. Inv'
  BY <1>1, <1>5, <1>7, InvParts, InvNext
<1>9. Content' = Content
  BY <1>1, <1>7, InvParts DEF Content
<1>10. Pinned' = [Pinned EXCEPT ![k] = @ - 1] /\ Pinned[k] > 0
  BY <1>1, <1>3, <1>5, <1>6 DEF Pinned, Page, Kept
<1>11. LogFirst
  BY <1>1 DEF LogFirst
<1> QED
  BY <1>5, <1>8, <1>9, <1>10, <1>11

LEMMA MarkDirtyStep ==
  ASSUME Inv, NEW k \in Page, NEW d \in Data, MarkDirty(k, d)
  PROVE  /\ Inv' /\ PinnedKept /\ LogFirst
         /\ Content' = [Content EXCEPT ![k] = d] /\ Pinned' = Pinned
         /\ Known(k) /\ Pinned[k] > 0
<1> DEFINE f == hash[k]
           e == [bufTable[f] EXCEPT !.data = d, !.dirty = TRUE]
<1>1. /\ k \in InPool /\ bufTable[f].pin > 0
      /\ bufTable' = [bufTable EXCEPT ![f].data = d, ![f].dirty = TRUE]
      /\ used' = LinkHead(Unlink(used, f), f)
      /\ given' = With(given, k, d) /\ lost' = lost \ {k}
      /\ UNCHANGED <<free, hash, disk>>
  BY DEF MarkDirty
<1>2. f \in Frames /\ bufTable[f] \in Desc /\ bufTable[f].key = k
  BY <1>1, UsedFacts, InvParts
<1>3. e \in Desc /\ e.key = k /\ e.dirty /\ e.data = d /\ e.pin = bufTable[f].pin
  BY <1>2 DEF Desc
<1>4. bufTable' = [bufTable EXCEPT ![f] = e]
  BY <1>1, <1>2, InvParts DEF PoolInv, Desc
<1>5. /\ PoolInv' /\ PinnedKept /\ \A l \in Page \ {k} : Kept(l)
      /\ Visible(k)' = d /\ Pins(k)' = e.pin /\ Known(k)' /\ Known(k)
  BY <1>1, <1>3, <1>4, TouchKeeps, InvParts
<1>6. /\ DOMAIN given' = DOMAIN given \cup {k} /\ given'[k] = d
      /\ \A l \in DOMAIN given \ {k} : given'[l] = given[l]
      /\ given' \in [DOMAIN given' -> Data]
  BY <1>1, InvParts DEF With
<1>7. DOMAIN given' \cup lost' = DOMAIN given \cup lost /\ k \in DOMAIN given \cup lost
  BY <1>1, <1>5, <1>6, InvParts
<1>8. Inv'
  BY <1>1, <1>5, <1>6, <1>7, InvParts, InvNext DEF Kept
<1>9. Content' = [Content EXCEPT ![k] = d]
  <2>1. DOMAIN Content = DOMAIN given \cup lost /\ DOMAIN Content' = DOMAIN given \cup lost
    BY <1>7 DEF Content
  <2>2. \A l \in DOMAIN Content : Content'[l] = IF l = k THEN d ELSE Content[l]
    BY <1>5, <1>7, <2>1, InvParts DEF Content, Kept
  <2> QED
    BY <1>7, <2>1, <2>2 DEF Content
<1>10. Pinned' = Pinned /\ Pinned[k] > 0
  <2>1. Pins(k) = bufTable[f].pin
    BY <1>1 DEF Pins
  <2>2. \A l \in Page : Pins(l)' = Pins(l)
    BY <1>3, <1>5, <2>1 DEF Kept
  <2> QED
    BY <1>1, <2>1, <2>2 DEF Pinned, Page
<1>11. LogFirst
  BY <1>1 DEF LogFirst
<1> QED
  BY <1>5, <1>8, <1>9, <1>10, <1>11

LEMMA GetPageMissStep ==
  ASSUME Inv, NEW k \in Page, GetPageMiss(k)
  PROVE  /\ Inv' /\ PinnedKept /\ LogFirst
         /\ Content' = Content /\ Pinned' = [Pinned EXCEPT ![k] = @ + 1] /\ Known(k)
<1>1. /\ k \in Page \ InPool /\ k \in DOMAIN disk /\ CanAlloc
      /\ PutInFrame(k, disk[k], FALSE)
      /\ UNCHANGED <<given, lost>>
  BY DEF GetPageMiss
<1>2. disk[k] \in Data
  BY <1>1, InvParts DEF PoolInv
<1>3. /\ PoolInv' /\ PinnedKept /\ \A l \in Page \ {k} : Kept(l)
      /\ Visible(k)' = disk[k] /\ Pins(k)' = 1 /\ Known(k)'
      /\ \E F \in SUBSET Elements(used) : disk' = DiskAfter(F)
  BY <1>1, <1>2, PutInFrameKeeps, InvParts
<1>4. Visible(k) = disk[k] /\ Pins(k) = 0 /\ Known(k)
  BY <1>1 DEF Visible, Pins, Known
<1>5. \A l \in Page : Visible(l)' = Visible(l) /\ (Known(l)' <=> Known(l))
  BY <1>3, <1>4 DEF Kept
<1>6. Inv'
  BY <1>1, <1>3, <1>5, InvParts, InvNext
<1>7. Content' = Content
  BY <1>1, <1>5, InvParts DEF Content
<1>8. Pinned' = [Pinned EXCEPT ![k] = @ + 1]
  <2>1. \A l \in Page : Pins(l)' = IF l = k THEN Pins(k) + 1 ELSE Pins(l)
    BY <1>3, <1>4 DEF Kept
  <2> QED
    BY <2>1 DEF Pinned, Page
<1> QED
  BY <1>3, <1>4, <1>6, <1>7, <1>8, WritesKeepLogFirst

LEMMA AllocatePageStep ==
  ASSUME Inv, NEW k \in Page, AllocatePage(k)
  PROVE  /\ Inv' /\ PinnedKept /\ LogFirst
         /\ k \notin DOMAIN Content
         /\ Content' = [l \in DOMAIN Content \cup {k} |->
                          IF l = k THEN Zero ELSE Content[l]]
         /\ Pinned' = [Pinned EXCEPT ![k] = 1]
<1>1. /\ k \notin DOMAIN given \cup lost /\ CanAlloc
      /\ PutInFrame(k, Zero, TRUE)
      /\ given' = With(given, k, Zero) /\ lost' = lost
  BY DEF AllocatePage
<1>2. ~Known(k) /\ k \in Page \ InPool
  BY <1>1, InvParts DEF Known
<1>3. /\ PoolInv' /\ PinnedKept /\ \A l \in Page \ {k} : Kept(l)
      /\ Visible(k)' = Zero /\ Pins(k)' = 1 /\ Known(k)'
      /\ \E F \in SUBSET Elements(used) : disk' = DiskAfter(F)
  BY <1>1, <1>2, PutInFrameKeeps, InvParts, PoolAssumption
<1>4. /\ DOMAIN given' = DOMAIN given \cup {k} /\ given'[k] = Zero
      /\ \A l \in DOMAIN given : given'[l] = given[l]
      /\ given' \in [DOMAIN given' -> Data]
  BY <1>1, InvParts, PoolAssumption DEF With
<1>5. Inv'
  BY <1>1, <1>3, <1>4, InvParts, InvNext DEF Kept
<1>6. /\ k \notin DOMAIN Content
      /\ Content' = [l \in DOMAIN Content \cup {k} |->
                       IF l = k THEN Zero ELSE Content[l]]
  BY <1>1, <1>3, <1>4, InvParts DEF Content, Kept
<1>7. Pinned' = [Pinned EXCEPT ![k] = 1]
  BY <1>3 DEF Pinned, Page, Kept
<1> QED
  BY <1>3, <1>5, <1>6, <1>7, WritesKeepLogFirst

LEMMA FlushPagesStep ==
  ASSUME Inv, NEW fd, FlushPages(fd)
  PROVE  Inv' /\ PinnedKept /\ LogFirst /\ UNCHANGED <<Content, Pinned>>
<1> DEFINE F == Released(fd)
<1>1. /\ disk' = DiskAfter(F)
      /\ bufTable' = Emptied(TableAfter(F), F)
      /\ used' = Unlinked(used, F) /\ free' = Freed(F)
      /\ hash' = [k \in {k \in InPool : hash[k] \notin F} |-> hash[k]]
      /\ UNCHANGED <<given, lost>>
  BY DEF FlushPages
<1>2. F \subseteq Elements(used) /\ \A f \in F : bufTable[f].pin = 0
  BY DEF Released, FramesOf
<1> HIDE DEF F
<1>3. PoolInv
  BY InvParts
<1>4. /\ used' \in Seq(Frames) /\ Elements(used') = Elements(used) \ F /\ Injective(used')
      /\ free' \in Seq(Frames) /\ Elements(free') = F \cup Elements(free) /\ Injective(free')
  BY <1>1, <1>2, <1>3, UnlinkedFacts, FreedFacts DEF PoolInv, FramesPartition
<1>5. FramesPartition'
  BY <1>2, <1>3, <1>4 DEF PoolInv, FramesPartition
<1>6. PoolInv' /\ PinnedKept /\ \A k \in Page : Kept(k)
  BY <1>1, <1>2, <1>3, <1>4, <1>5, WriteOutKeeps
<1> QED
  BY <1>1, <1>2, <1>6, KeptAll, WritesKeepLogFirst

LEMMA ForcePagesStep ==
  ASSUME Inv, NEW fd, NEW P, ForcePages(fd, P)
  PROVE  Inv' /\ PinnedKept /\ LogFirst /\ UNCHANGED <<Content, Pinned>>
<1> DEFINE F == {f \in FramesOf(fd) : bufTable[f].key[2] \in P}
<1>1. /\ disk' = DiskAfter(F) /\ bufTable' = TableAfter(F)
      /\ UNCHANGED <<used, free, hash, given, lost>>
  BY DEF ForcePages
<1>2. F \subseteq Elements(used)
  BY DEF FramesOf
<1> HIDE DEF F
<1>3. PoolInv
  BY InvParts
<1>4. Emptied(TableAfter(F), {}) = TableAfter(F)
  BY DEF Emptied, TableAfter
<1>5. [k \in {k \in InPool : hash[k] \notin {}} |-> hash[k]] = hash
  BY <1>3 DEF PoolInv
<1>6. /\ used' \in Seq(Frames) /\ free' \in Seq(Frames) /\ FramesPartition'
      /\ Elements(used') = Elements(used) \ {}
  BY <1>1, <1>3 DEF PoolInv, FramesPartition
<1>7. PoolInv' /\ PinnedKept /\ \A k \in Page : Kept(k)
  BY <1>1, <1>2, <1>3, <1>4, <1>5, <1>6, WriteOutKeeps
<1> QED
  BY <1>1, <1>2, <1>7, KeptAll, WritesKeepLogFirst

LEMMA GetPageFailsStep ==
  ASSUME Inv, NEW k \in Page, GetPageFails(k)
  PROVE  Inv' /\ PinnedKept /\ LogFirst /\ UNCHANGED <<Content, Pinned>>
<1>1. PoolInv /\ CanAlloc /\ UNCHANGED <<given, lost>>
  BY InvParts DEF GetPageFails
<1>2. CASE free # <<>>
  <2>1. UNCHANGED <<bufTable, used, free, hash, disk, given, lost>>
    BY <1>2 DEF GetPageFails
  <2> QED
    BY <2>1 DEF Inv, TypeOK, FramesPartition, HashMatchesUsed, Coherent, PagesKnown,
                PinnedKept, LogFirst, Content, Pinned, Visible, Pins, InPool
<1>3. CASE free = <<>>
  <2> DEFINE f == Victim
             F == {f}
  <2>1. f \in Elements(used) /\ bufTable[f].pin = 0 /\ f \in Frames
    BY <1>1, <1>3, VictimFacts, UsedFacts
  <2>2. /\ free' = <<f>> /\ used' = Unlinked(used, F)
        /\ hash' = Without(hash, bufTable[f].key)
        /\ bufTable' = Emptied(TableAfter(F), F)
        /\ disk' = DiskAfter(F)
    BY <1>3 DEF GetPageFails, Unlink
  <2> HIDE DEF f
  <2>3. /\ used' \in Seq(Frames) /\ Elements(used') = Elements(used) \ F /\ Injective(used')
    BY <1>1, <2>2, UnlinkedFacts DEF PoolInv, FramesPartition
  <2>4. free' \in Seq(Frames) /\ Elements(free') = {f} /\ Injective(free')
    BY <2>1, <2>2 DEF Elements, Injective
  <2>5. Elements(free) = {}
    BY <1>3 DEF Elements
  <2>6. FramesPartition'
    BY <1>1, <2>1, <2>3, <2>4, <2>5 DEF PoolInv, FramesPartition
  <2>7. hash' = [l \in {l \in InPool : hash[l] \notin F} |-> hash[l]]
    <3>1. \A l \in InPool : l = bufTable[f].key <=> hash[l] = f
      BY <1>1, <2>1, UsedFacts
    <3> QED
      BY <2>2, <3>1 DEF Without, InPool
  <2>8. PoolInv' /\ PinnedKept /\ \A l \in Page : Kept(l)
    BY <1>1, <2>1, <2>2, <2>3, <2>4, <2>6, <2>7, WriteOutKeeps
  <2> QED
    BY <1>1, <2>1, <2>2, <2>8, KeptAll, WritesKeepLogFirst
<1> QED
  BY <1>2, <1>3
(* ClearBuffer writes nothing: the changes it drops are in lost. *)
LEMMA ClearBufferStep ==
  ASSUME Inv, ClearBuffer
  PROVE  /\ Inv' /\ PinnedKept /\ LogFirst
         /\ Content' \in [DOMAIN Content -> Data]
         /\ \A k \in DOMAIN Content : Pinned[k] > 0 => Content'[k] = Content[k]
         /\ Pinned' = Pinned
<1> DEFINE F == {f \in Elements(used) : bufTable[f].pin = 0}
           K == {bufTable[f].key : f \in {g \in F : bufTable[g].dirty}}
<1>1. /\ bufTable' = Emptied(bufTable, F) /\ disk' = disk
      /\ used' = Unlinked(used, F) /\ free' = Freed(F)
      /\ hash' = [k \in {k \in InPool : hash[k] \notin F} |-> hash[k]]
      /\ lost' = lost \cup K /\ given' = [k \in DOMAIN given \ K |-> given[k]]
  BY DEF ClearBuffer, Lost
<1>2. F \subseteq Elements(used) /\ \A f \in F : bufTable[f].pin = 0
  OBVIOUS
<1>3. PoolInv
  BY InvParts
<1>4. \A k : k \in K <=> k \in InPool /\ hash[k] \in F /\ bufTable[hash[k]].dirty
  BY <1>3, UsedFacts
<1> HIDE DEF F, K
<1>5. /\ used' \in Seq(Frames) /\ Elements(used') = Elements(used) \ F /\ Injective(used')
      /\ free' \in Seq(Frames) /\ Elements(free') = F \cup Elements(free) /\ Injective(free')
  BY <1>1, <1>2, <1>3, UnlinkedFacts, FreedFacts DEF PoolInv, FramesPartition
<1>6. FramesPartition'
  BY <1>2, <1>3, <1>5 DEF PoolInv, FramesPartition
<1>7. \A f \in Frames : bufTable'[f] = IF f \in F THEN EmptyFrame ELSE bufTable[f]
  BY <1>1 DEF Emptied
<1>8. EmptyFrame \in Desc
  BY PoolAssumption DEF EmptyFrame, Desc, NoPage
<1>9. bufTable' \in [Frames -> Desc]
  BY <1>1, <1>3, <1>8 DEF Emptied, PoolInv
<1>10. /\ InPool' = {k \in InPool : hash[k] \notin F}
       /\ \A k \in InPool' : hash'[k] = hash[k]
       /\ hash' \in [InPool' -> Frames] /\ InPool' \subseteq Page
  BY <1>1, <1>3, UsedFacts DEF InPool
<1>11. HashMatchesUsed'
  BY <1>3, <1>5, <1>7, <1>10, UsedFacts DEF HashMatchesUsed
<1>12. Clean'
  BY <1>1, <1>3, <1>7, <1>10, UsedFacts DEF Clean, PoolInv
<1>13. PoolInv'
  BY <1>1, <1>3, <1>5, <1>6, <1>9, <1>10, <1>11, <1>12 DEF PoolInv
<1>14. PinnedKept
  BY <1>2, <1>3, <1>7, <1>10, UsedFacts DEF PinnedKept, InPool
<1>15. ASSUME NEW k \in Page \ K PROVE Kept(k)
  <2>1. CASE k \in InPool'
    BY <1>1, <1>3, <1>7, <1>10, <2>1, UsedFacts DEF Kept, Visible, Pins, Known
  <2>2. CASE k \in InPool /\ hash[k] \in F
    <3>1. k \notin InPool' /\ bufTable[hash[k]].pin = 0
      BY <1>2, <1>10, <2>2
    <3>2. k \in DOMAIN disk' /\ disk'[k] = bufTable[hash[k]].data
      BY <1>1, <1>3, <1>4, <1>15, <2>2 DEF PoolInv, Clean
    <3> QED
      BY <2>2, <3>1, <3>2 DEF Kept, Visible, Pins, Known
  <2>3. CASE k \notin InPool
    BY <1>1, <1>10, <2>3 DEF Kept, Visible, Pins, Known
  <2> QED
    BY <1>10, <2>1, <2>2, <2>3
<1>16. /\ K \subseteq DOMAIN given \cup lost /\ K \subseteq Page
       /\ \A k \in Page : Known(k)' => Known(k)
  BY <1>1, <1>4, <1>10, InvParts, UsedFacts DEF Known
<1>17. DOMAIN given' = DOMAIN given \ K /\ DOMAIN given' \cup lost' = DOMAIN given \cup lost
  BY <1>1, <1>16
<1>18. Inv'
  <2>1. \A k \in DOMAIN given' : Known(k)' /\ Visible(k)' = given'[k]
    BY <1>1, <1>15, <1>17, InvParts DEF Kept
  <2>2. given' \in [DOMAIN given' -> Data] /\ DOMAIN given' \subseteq Page
    BY <1>1, <1>17, InvParts
  <2>3. lost' \subseteq Page \ DOMAIN given'
    BY <1>1, <1>16, <1>17, InvParts
  <2>4. \A k \in Page : Known(k)' => k \in DOMAIN given' \cup lost'
    BY <1>16, <1>17, InvParts
  <2> QED
    BY <1>13, <2>1, <2>2, <2>3, <2>4, InvNext
<1>19. \A k \in Page : Pins(k)' = Pins(k) /\ (k \in K => Pins(k) = 0)
  <2>1. \A k \in K : Pins(k) = 0 /\ Pins(k)' = 0
    BY <1>2, <1>4, <1>10 DEF Pins
  <2> QED
    BY <1>15, <2>1 DEF Kept
<1>20. Pinned' = Pinned
  BY <1>19 DEF Pinned, Page
<1>21. \A k \in Page : Visible(k)' \in Data
  BY <1>13, PoolAssumption DEF Visible, PoolInv, Desc
<1>22. Content' \in [DOMAIN Content -> Data]
  BY <1>17, <1>21, InvParts DEF Content
<1>23. \A k \in DOMAIN Content : Pinned[k] > 0 => Content'[k] = Content[k]
  BY <1>15, <1>17, <1>19, InvParts DEF Content, Pinned, Kept
<1>24. LogFirst
  BY <1>1 DEF LogFirst
<1> QED
  BY <1>14, <1>18, <1>20, <1>22, <1>23, <1>24
-------------------------------------------------------------------------------
(* The invariant holds, and every step is one of the page store.           *)

LEMMA InitInv == Init => Inv
<1> SUFFICES ASSUME Init PROVE Inv
  OBVIOUS
<1> USE DEF Init
<1>1. free \in Seq(Frames) /\ Len(free) = NumFrames /\ \A i \in Frames : free[i] = i
  BY PoolAssumption DEF Frames
<1>2. FramesPartition
  BY <1>1, PoolAssumption DEF FramesPartition, Elements, Injective, Frames
<1>3. TypeOK
  BY <1>1, PoolAssumption DEF TypeOK, InPool, EmptyFrame, NoPage
<1>4. HashMatchesUsed /\ Coherent /\ PagesKnown
  BY DEF HashMatchesUsed, Coherent, PagesKnown, Elements, InPool
<1> QED
  BY <1>2, <1>3, <1>4 DEF Inv

(* A step of the pool in terms of the pages it maps to. *)
StoreStep ==
  \/ UNCHANGED <<Content, Pinned>>
  \/ \E k \in DOMAIN Content :
       Content' = Content /\ Pinned' = [Pinned EXCEPT ![k] = @ + 1]
  \/ \E k \in DOMAIN Content :
       Pinned[k] > 0 /\ Content' = Content /\ Pinned' = [Pinned EXCEPT ![k] = @ - 1]
  \/ \E k \in DOMAIN Content, d \in Data :
       Pinned[k] > 0 /\ Content' = [Content EXCEPT ![k] = d] /\ Pinned' = Pinned
  \/ \E k \in Page \ DOMAIN Content :
       /\ Content' = [l \in DOMAIN Content \cup {k} |-> IF l = k THEN Zero ELSE Content[l]]
       /\ Pinned' = [Pinned EXCEPT ![k] = 1]
  \/ /\ ClearBuffer
     /\ Content' \in [DOMAIN Content -> Data]
     /\ \A k \in DOMAIN Content : Pinned[k] > 0 => Content'[k] = Content[k]
     /\ Pinned' = Pinned

LEMMA NextStep ==
  ASSUME Inv, [Next]_vars
  PROVE  Inv' /\ PinnedKept /\ LogFirst /\ StoreStep
<1>1. \A k \in Page : Known(k) => k \in DOMAIN Content
  BY InvParts DEF Content
<1>2. ASSUME NEW k \in Page, GetPageHit(k) PROVE Inv' /\ PinnedKept /\ LogFirst /\ StoreStep
  <2>1. Known(k)
    BY <1>2 DEF GetPageHit, Known
  <2> QED
    BY <1>1, <1>2, <2>1, GetPageHitStep DEF StoreStep
<1>3. ASSUME NEW k \in Page, GetPageMiss(k) PROVE Inv' /\ PinnedKept /\ LogFirst /\ StoreStep
  BY <1>1, <1>3, GetPageMissStep DEF StoreStep
<1>4. ASSUME NEW k \in Page, GetPageFails(k) PROVE Inv' /\ PinnedKept /\ LogFirst /\ StoreStep
  BY <1>4, GetPageFailsStep DEF StoreStep
<1>5. ASSUME NEW k \in Page, AllocatePage(k) PROVE Inv' /\ PinnedKept /\ LogFirst /\ StoreStep
  BY <1>5, AllocatePageStep DEF StoreStep
<1>6. ASSUME NEW k \in Page, NEW d \in Data, MarkDirty(k, d)
      PROVE  Inv' /\ PinnedKept /\ LogFirst /\ StoreStep
  BY <1>1, <1>6, MarkDirtyStep DEF StoreStep
<1>7. ASSUME NEW k \in Page, UnpinPage(k) PROVE Inv' /\ PinnedKept /\ LogFirst /\ StoreStep
  BY <1>1, <1>7, UnpinPageStep DEF StoreStep
<1>8. ASSUME NEW fd, FlushPages(fd) PROVE Inv' /\ PinnedKept /\ LogFirst /\ StoreStep
  BY <1>8, FlushPagesStep DEF StoreStep
<1>9. ASSUME NEW fd, NEW P, ForcePages(fd, P) PROVE Inv' /\ PinnedKept /\ LogFirst /\ StoreStep
  BY <1>9, ForcePagesStep DEF StoreStep
<1>10. ASSUME ClearBuffer PROVE Inv' /\ PinnedKept /\ LogFirst /\ StoreStep
  BY <1>10, ClearBufferStep DEF StoreStep
<1>11. CASE UNCHANGED vars
  BY <1>11 DEF vars, Inv, TypeOK, FramesPartition, HashMatchesUsed, Coherent, PagesKnown,
               PinnedKept, LogFirst, StoreStep, Content, Pinned, Visible, Pins, InPool
<1> QED
  BY <1>2, <1>3, <1>4, <1>5, <1>6, <1>7, <1>8, <1>9, <1>10, <1>11 DEF Next

(* The inductive invariant holds of every reachable state of the pool. *)
THEOREM InvHolds == Spec => []Inv
<1>1. Inv /\ [Next]_vars => Inv'
  BY NextStep
<1> QED
  BY InitInv, <1>1, PTL DEF Spec

(* The descriptors, the lists, the hash table, the disk and the histories  *)
(* keep their types: pin counts stay within bounds.                        *)
THEOREM TypeCorrect == Spec => []TypeOK
<1>1. Inv => TypeOK
  BY DEF Inv
<1> QED
  BY InvHolds, <1>1, PTL

(* No frame is lost or linked twice, whatever is unlinked, relinked and    *)
(* freed.                                                                  *)
THEOREM FramesPartitioned == Spec => []FramesPartition
<1>1. Inv => FramesPartition
  BY DEF Inv
<1> QED
  BY InvHolds, <1>1, PTL

(* The hash table leads to exactly the used frames. *)
THEOREM HashExact == Spec => []HashMatchesUsed
<1>1. Inv => HashMatchesUsed
  BY DEF Inv
<1> QED
  BY InvHolds, <1>1, PTL

(* A page reads as what was last put in it, through every eviction, flush  *)
(* and force, for any number of frames.                                    *)
THEOREM PagesCoherent == Spec => []Coherent
<1>1. Inv => Coherent
  BY DEF Inv
<1> QED
  BY InvHolds, <1>1, PTL

(* A pinned page keeps its frame. *)
THEOREM PinnedPagesStay == Spec => PinnedStay
<1>1. Inv /\ [Next]_vars => [PinnedKept]_vars
  BY NextStep
<1> QED
  BY InvHolds, <1>1, PTL DEF Spec, PinnedStay, PinnedKept

(* No page of a relation reaches the disk before the log is there. *)
THEOREM LogReachesDiskFirst == Spec => LogBeforeData
<1>1. Inv /\ [Next]_vars => [LogFirst]_vars
  BY NextStep
<1> QED
  BY InvHolds, <1>1, PTL DEF Spec, LogBeforeData, LogFirst

(* The initial pool is the empty store, and a StoreStep is a step of it.   *)
LEMMA InitImplements == Init => Store!Init
<1> SUFFICES ASSUME Init PROVE Store!Init
  OBVIOUS
<1>1. [k \in DOMAIN given \cup lost |-> Visible(k)] = [k \in {} |-> 0]
  BY DEF Init
<1>2. [k \in Page |-> IF k \in InPool THEN bufTable[hash[k]].pin ELSE 0] = [k \in Page |-> 0]
  BY DEF Init, InPool
<1> QED
  BY <1>1, <1>2 DEF Store!Init

LEMMA StepImplements ==
  ASSUME StoreStep
  PROVE  [Store!Next \/ (ClearBuffer /\ Store!Lose)]_(Store!vars)
<1>1. CASE UNCHANGED <<Content, Pinned>>
  BY <1>1 DEF Store!vars, Content, Pinned, Pins
<1>2. ASSUME NEW k \in DOMAIN Content,
             Content' = Content, Pinned' = [Pinned EXCEPT ![k] = @ + 1]
      PROVE  Store!Pin
  BY <1>2 DEF Store!Pin, Store!Exists, Content, Pinned, Pins
<1>3. ASSUME NEW k \in DOMAIN Content, Pinned[k] > 0,
             Content' = Content, Pinned' = [Pinned EXCEPT ![k] = @ - 1]
      PROVE  Store!Unpin
  BY <1>3 DEF Store!Unpin, Store!Exists, Content, Pinned, Pins
<1>4. ASSUME NEW k \in DOMAIN Content, NEW d \in Data, Pinned[k] > 0,
             Content' = [Content EXCEPT ![k] = d], Pinned' = Pinned
      PROVE  Store!Change
  BY <1>4 DEF Store!Change, Store!Exists, Content, Pinned, Pins
<1>5. ASSUME NEW k \in Page \ DOMAIN Content,
             Content' = [l \in DOMAIN Content \cup {k} |->
                          IF l = k THEN Zero ELSE Content[l]],
             Pinned' = [Pinned EXCEPT ![k] = 1]
      PROVE  Store!Create
  BY <1>5, PoolAssumption DEF Store!Create, Store!Exists, Content, Pinned, Pins
<1>6. ASSUME Content' \in [DOMAIN Content -> Data], Pinned' = Pinned,
             \A k \in DOMAIN Content : Pinned[k] > 0 => Content'[k] = Content[k]
      PROVE  Store!Lose
  BY <1>6 DEF Store!Lose, Store!Exists, Content, Pinned, Pins
<1> QED
  BY <1>1, <1>2, <1>3, <1>4, <1>5, <1>6 DEF StoreStep, Store!Next

(* The frames, the lists, the hash table and the disk implement a store of *)
(* pages; only clearing the pool loses anything, and of no pinned page.    *)
THEOREM PoolImplementsStore == Spec => ImplementsPageStore
<1>1. Inv /\ [Next]_vars => [Store!Next \/ (ClearBuffer /\ Store!Lose)]_(Store!vars)
  BY NextStep, StepImplements
<1> QED
  BY InvHolds, InitImplements, <1>1, PTL DEF Spec, ImplementsPageStore
===============================================================================
