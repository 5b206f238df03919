------------------------------- MODULE SfsProofs -------------------------------
(***************************************************************************)
(* The Simple FS for any number of files, entries and blocks: every block  *)
(* is free or belongs to one place of one file, whatever calls fail for    *)
(* want of a block and whatever inodes are dropped and loaded again; and   *)
(* an inode is counted once for every entry that holds it.                 *)
(***************************************************************************)
EXTENDS Sfs, QueueLemmas, FiniteSetTheorems

Ptr == Blocks \cup {0}
Tables == [0..(NENTRY - 1) -> Ptr]
Dinodes == [size : Nat, blocks : Nat, direct : [0..(NDIRECT - 1) -> Ptr], indirect : Ptr]

\* A volume, whatever its blocks hold.
IsVolume(v) ==
    /\ v = [freemap |-> v.freemap, unused |-> v.unused, entries |-> v.entries, data |-> v.data,
            din |-> v.din, dirty |-> v.dirty, nospace |-> v.nospace]
    /\ v.freemap \subseteq Blocks /\ v.unused \in Int /\ v.entries \in [Blocks -> Tables]
    /\ v.din \in Dinodes /\ v.dirty \in BOOLEAN

\* The places of an inode that name a block: -1 is its table of entries.
Slots == -1..(NDIRECT + NENTRY - 1)
Slot(v, x) == IF x = -1 THEN v.din.indirect ELSE Pointer(v, x)

\* The blocks of the volume are free, in one place of its inode, or O, those of the
\* other inodes; and no block of its file is missing.
Good(v, O) ==
    /\ IsVolume(v) /\ v.unused = Cardinality(v.freemap)
    /\ O \subseteq Blocks \ v.freemap
    /\ \A x \in Slots : Slot(v, x) # 0 => Slot(v, x) \in Blocks \ (v.freemap \cup O)
    /\ \A x, y \in Slots : Slot(v, x) = Slot(v, y) /\ Slot(v, x) # 0 => x = y
    /\ \A b \in Blocks \ (v.freemap \cup O) : \E x \in Slots : Slot(v, x) = b
    /\ v.din.blocks \in 0..(NDIRECT + NENTRY)
    /\ \A k \in 0..(v.din.blocks - 1) : Slot(v, k) # 0

SameSlots(v, w) == \A y \in Slots : Slot(w, y) = Slot(v, y)
SlotSet(v, w, x, b) == \A y \in Slots : Slot(w, y) = IF y = x THEN b ELSE Slot(v, y)
ClearedAt(v, w, b) == \A c \in Blocks : w.entries[c] = IF c = b THEN NoEntries ELSE v.entries[c]
SameEntries(v, w, B) == \A c \in B : w.entries[c] = v.entries[c]

\* What every operation on the volume keeps of v: the tables of other inodes; and
\* the places of the inode that is stored, while it stays clean.
Follows(v, w, O) ==
    /\ SameEntries(v, w, O)
    /\ v.dirty => w.dirty
    /\ ~ w.dirty => /\ w.din.direct = v.din.direct /\ w.din.indirect = v.din.indirect
                    /\ v.din.blocks <= w.din.blocks

LEMMA SfsNumbers ==
    /\ NDIRECT \in Nat /\ NENTRY \in Nat /\ BLKSIZE \in Nat \ {0} /\ MaxFileSize \in Nat \ {0}
    /\ Blocks \subseteq Nat /\ 0 \notin Blocks /\ IsFiniteSet(Blocks)
    /\ Cardinality(Blocks) < NDIRECT + NENTRY /\ Cardinality(Blocks) \in Nat
    /\ -1 \in Slots /\ \A k \in 0..(NDIRECT + NENTRY - 1) : k \in Slots /\ k # -1
    /\ NoEntries \in Tables
  BY BlocksAssumption, ImageAssumption, SizeAssumption, FS_CardinalityType
     DEF Slots, NoEntries, Tables, Ptr

\* A block is named by the first direct places, or by the table.
LEMMA SlotIs ==
    ASSUME NEW v, IsVolume(v), NEW x \in Slots
    PROVE  /\ Slot(v, x) \in Ptr
           /\ x = -1 => Slot(v, x) = v.din.indirect
           /\ x # -1 /\ x < NDIRECT => Slot(v, x) = v.din.direct[x]
           /\ x # -1 /\ x >= NDIRECT =>
                 Slot(v, x) = IF v.din.indirect = 0 THEN 0 ELSE v.entries[v.din.indirect][x - NDIRECT]
<1>1. /\ v.din \in Dinodes /\ v.entries \in [Blocks -> Tables] /\ v.din.indirect \in Ptr
      /\ v.din.direct \in [0..(NDIRECT - 1) -> Ptr]
  BY DEF IsVolume, Dinodes
<1>2. x \in Int /\ NDIRECT \in Nat /\ NENTRY \in Nat /\ x >= -1 /\ x < NDIRECT + NENTRY /\ 0 \in Ptr
  BY SfsNumbers DEF Slots, Ptr
<1>3. CASE x = -1
  BY <1>1, <1>3, SfsNumbers DEF Slot
<1>4. CASE x # -1 /\ x < NDIRECT
  <2>1. x \in 0..(NDIRECT - 1) /\ Slot(v, x) = v.din.direct[x]
    BY <1>2, <1>4 DEF Slot, Pointer
  <2> QED BY <1>1, <1>2, <1>4, <2>1
<1>5. CASE x # -1 /\ x >= NDIRECT
  <2>1. Slot(v, x) = IF v.din.indirect = 0 THEN 0 ELSE v.entries[v.din.indirect][x - NDIRECT]
    BY <1>2, <1>5 DEF Slot, Pointer
  <2>2. x - NDIRECT \in 0..(NENTRY - 1)
    BY <1>2, <1>5
  <2>3. v.din.indirect # 0 => v.entries[v.din.indirect] \in Tables
    BY <1>1 DEF Ptr
  <2> QED BY <1>2, <1>5, <2>1, <2>2, <2>3 DEF Tables
<1> QED BY <1>3, <1>4, <1>5, <1>2

\* The file has fewer blocks than its inode can name, as the image has.
LEMMA RoomLeft ==
    ASSUME NEW O, NEW v, Good(v, O)
    PROVE  v.din.blocks \in 0..(NDIRECT + NENTRY - 1)
<1> DEFINE n == v.din.blocks
           f == [k \in 1..n |-> Slot(v, k - 1)]
<1>1. n \in 0..(NDIRECT + NENTRY) /\ n \in Nat
  BY DEF Good
<1>2. \A k \in 1..n : k - 1 \in Slots /\ k - 1 \in 0..(n - 1)
  BY <1>1, SfsNumbers DEF Slots
<1>3. \A k \in 1..n : Slot(v, k - 1) \in Blocks
  BY <1>2 DEF Good
<1>4. f \in [1..n -> Blocks]
  BY <1>3
<1>5. \A j, k \in 1..n : f[j] = f[k] => j = k
  <2> TAKE j, k \in 1..n
  <2> HAVE f[j] = f[k]
  <2>1. Slot(v, j - 1) = Slot(v, k - 1) /\ Slot(v, j - 1) # 0
    BY <1>2 DEF Good
  <2>2. j - 1 = k - 1
    BY <1>2, <2>1 DEF Good
  <2> QED BY <1>1, <2>2
<1> HIDE DEF f, n
<1>6. IsFiniteSet(1..n) /\ Cardinality(1..n) = n
  <2>1. 1 \in Int /\ n \in Int
    BY <1>1
  <2>2. IsFiniteSet(1..n) /\ Cardinality(1..n) = IF 1 > n THEN 0 ELSE n - 1 + 1
    BY <2>1, FS_Interval
  <2> QED BY <1>1, <2>2
<1>7. ~ (Cardinality(Blocks) < Cardinality(1..n))
  <2>1. IsFiniteSet(Blocks)
    BY SfsNumbers
  <2> DEFINE S == 1..n
  <2> SUFFICES ASSUME Cardinality(Blocks) < Cardinality(S) PROVE FALSE
    OBVIOUS
  <2>2. IsFiniteSet(S) /\ f \in [S -> Blocks] /\ \A j, k \in S : f[j] = f[k] => j = k
    BY <1>4, <1>5, <1>6
  <2> HIDE DEF S
  <2>3. \E j, k \in S : j # k /\ f[j] = f[k]
    BY <2>1, <2>2, FS_PigeonHole
  <2> QED BY <2>2, <2>3
<1> QED BY <1>1, <1>6, <1>7, SfsNumbers DEF n

\* A free block that a place comes to name ...
LEMMA Puts ==
    ASSUME NEW O, NEW v, Good(v, O), NEW x \in Slots, Slot(v, x) = 0, NEW b \in v.freemap,
           NEW w, IsVolume(w), w.freemap = v.freemap \ {b}, w.unused = v.unused - 1,
           w.din.blocks = v.din.blocks,
           SlotSet(v, w, x, b)
    PROVE  Good(w, O)
<1> USE DEF SlotSet
<1>1. b \in Blocks /\ b # 0 /\ v.freemap \subseteq Blocks
  BY SfsNumbers DEF Good, IsVolume
<1>2. w.unused = Cardinality(w.freemap)
  <2>1. IsFiniteSet(v.freemap)
    BY <1>1, SfsNumbers, FS_Subset
  <2>2. Cardinality(v.freemap \ {b}) = Cardinality(v.freemap) - 1
    BY <2>1, FS_RemoveElement
  <2> QED BY <2>2 DEF Good
<1>3. \A y \in Slots : Slot(w, y) # 0 => Slot(w, y) \in Blocks \ (w.freemap \cup O)
  BY <1>1 DEF Good
<1>4. \A y, z \in Slots : Slot(w, y) = Slot(w, z) /\ Slot(w, y) # 0 => y = z
  BY DEF Good
<1>5. \A c \in Blocks \ (w.freemap \cup O) : \E y \in Slots : Slot(w, y) = c
  <2> SUFFICES ASSUME NEW c \in Blocks \ (w.freemap \cup O) PROVE \E y \in Slots : Slot(w, y) = c
    OBVIOUS
  <2>1. CASE c = b
    BY <2>1
  <2>2. CASE c # b
    <3>1. PICK y \in Slots : Slot(v, y) = c
      BY <2>2 DEF Good
    <3> QED BY <3>1, SfsNumbers
  <2> QED BY <2>1, <2>2
<1>6. \A k \in 0..(w.din.blocks - 1) : Slot(w, k) # 0
  <2>1. \A k \in 0..(w.din.blocks - 1) : k \in Slots
    BY SfsNumbers DEF Good, Slots
  <2> QED BY <1>1, <2>1 DEF Good
<1>7. O \subseteq Blocks \ w.freemap /\ w.din.blocks \in 0..(NDIRECT + NENTRY)
  BY DEF Good
<1> QED BY <1>2, <1>3, <1>4, <1>5, <1>6, <1>7 DEF Good

\* ... and the block of the last place, which is freed.
LEMMA Takes ==
    ASSUME NEW O, NEW v, Good(v, O), NEW x, x = v.din.blocks - 1, v.din.blocks # 0,
           NEW w, IsVolume(w), w.freemap = v.freemap \cup {Slot(v, x)}, w.unused = v.unused + 1,
           w.din.blocks = x, SlotSet(v, w, x, 0)
    PROVE  Good(w, O)
<1> USE DEF SlotSet
<1> DEFINE b == Slot(v, x)
<1>1. x \in Slots /\ x \in 0..(v.din.blocks - 1) /\ x \in 0..(NDIRECT + NENTRY)
  BY SfsNumbers DEF Good, Slots
<1>2. b \in Blocks /\ b # 0 /\ b \notin v.freemap /\ b \notin O /\ v.freemap \subseteq Blocks
  BY <1>1 DEF Good, IsVolume
<1>3. w.unused = Cardinality(w.freemap)
  <2>1. IsFiniteSet(v.freemap)
    BY <1>2, SfsNumbers, FS_Subset
  <2>2. Cardinality(v.freemap \cup {b}) = Cardinality(v.freemap) + 1
    BY <1>2, <2>1, FS_AddElement
  <2> QED BY <2>2 DEF Good
<1>4. \A y \in Slots : Slot(w, y) # 0 => Slot(w, y) \in Blocks \ (w.freemap \cup O)
  <2> SUFFICES ASSUME NEW y \in Slots, Slot(w, y) # 0
               PROVE  Slot(w, y) \in Blocks \ (w.freemap \cup O)
    OBVIOUS
  <2>1. y # x /\ Slot(w, y) = Slot(v, y) /\ Slot(v, y) # b
    BY <1>1 DEF Good
  <2> QED BY <2>1 DEF Good
<1>5. \A y, z \in Slots : Slot(w, y) = Slot(w, z) /\ Slot(w, y) # 0 => y = z
  BY DEF Good
<1>6. \A c \in Blocks \ (w.freemap \cup O) : \E y \in Slots : Slot(w, y) = c
  <2> SUFFICES ASSUME NEW c \in Blocks \ (w.freemap \cup O) PROVE \E y \in Slots : Slot(w, y) = c
    OBVIOUS
  <2>1. PICK y \in Slots : Slot(v, y) = c
    BY DEF Good
  <2>2. y # x
    BY <2>1
  <2> QED BY <2>1, <2>2
<1>7. \A k \in 0..(w.din.blocks - 1) : Slot(w, k) # 0
  <2>1. \A k \in 0..(x - 1) : k \in Slots /\ k # x /\ k \in 0..(v.din.blocks - 1)
    BY <1>1, SfsNumbers DEF Slots, Good
  <2> QED BY <2>1 DEF Good
<1>8. O \subseteq Blocks \ w.freemap /\ w.din.blocks \in 0..(NDIRECT + NENTRY)
  BY <1>1, <1>2 DEF Good
<1> QED BY <1>3, <1>4, <1>5, <1>6, <1>7, <1>8 DEF Good

LEMMA LowestFree ==
    ASSUME NEW v, IsVolume(v), v.freemap # {}
    PROVE  Min(v.freemap) \in v.freemap /\ Min(v.freemap) \in Blocks
<1>1. v.freemap \subseteq Blocks /\ v.freemap \subseteq Nat
  BY SfsNumbers DEF IsVolume
<1>2. \E x \in v.freemap : \A y \in v.freemap : x <= y
  BY <1>1, LeastNatural
<1>3. Min(v.freemap) \in v.freemap
  BY <1>2 DEF Min
<1> QED BY <1>1, <1>3

\* sfs_block_alloc takes a block and clears it.
TakenFrom(v, w, b) ==
    /\ IsVolume(w) /\ w.freemap = v.freemap \ {b} /\ w.unused = v.unused - 1
    /\ w.din = v.din /\ w.dirty = v.dirty /\ ClearedAt(v, w, b)

LEMMA AllocatedIs ==
    ASSUME NEW v, IsVolume(v), v.freemap # {}, NEW b, b = Min(v.freemap), NEW w, w = Allocated(v)
    PROVE  TakenFrom(v, w, b)
<1> USE DEF ClearedAt, TakenFrom
<1>1. b \in Blocks /\ b \in v.freemap
  BY LowestFree
<1> DEFINE E == [v.entries EXCEPT ![b] = NoEntries]
           C == [v.data EXCEPT ![b] = ZeroBlock]
           F == v.freemap \ {b}
           r == [freemap |-> F, unused |-> v.unused - 1, entries |-> E, data |-> C,
                 din |-> v.din, dirty |-> v.dirty, nospace |-> v.nospace]
<1>2. /\ E \in [Blocks -> Tables] /\ F \subseteq Blocks
      /\ \A c \in Blocks : E[c] = IF c = b THEN NoEntries ELSE v.entries[c]
  BY <1>1, SfsNumbers DEF IsVolume
<1>3. w = [v EXCEPT !.freemap = F, !.unused = v.unused - 1, !.entries = E, !.data = C]
  BY DEF Allocated
<1> HIDE DEF E, C, F
<1>4. w = r
  BY <1>3 DEF IsVolume
<1>5. /\ w.freemap = F /\ w.unused = v.unused - 1 /\ w.entries = E /\ w.din = v.din
      /\ w.dirty = v.dirty /\ w.data = C /\ w.nospace = v.nospace
  BY <1>4
<1>6. IsVolume(w)
  BY <1>2, <1>4, <1>5 DEF IsVolume
<1> QED BY <1>2, <1>5, <1>6 DEF F

\* The ways the fields of a volume change.
DirectAt(v, k, b) == [v EXCEPT !.din.direct[k] = b]
EntryAt(v, k, b) == [v EXCEPT !.entries[v.din.indirect][k - NDIRECT] = b]
TableAt(v, b) == [v EXCEPT !.din.indirect = b]
WithBlocks(v, n) == [v EXCEPT !.din.blocks = n]
Dirty(v) == [v EXCEPT !.dirty = TRUE]

\* Place x of the inode comes to name b, in a block of T if it is no part of the inode.
SetTo(v, w, x, b, T) ==
    /\ IsVolume(w) /\ w.freemap = v.freemap /\ w.unused = v.unused /\ w.dirty = v.dirty
    /\ w.din.blocks = v.din.blocks /\ SlotSet(v, w, x, b)
    /\ SameEntries(v, w, Blocks \ T) /\ (T = {} \/ w.din = v.din)
    /\ (T = {} => w.entries = v.entries)

LEMMA DirectSet ==
    ASSUME NEW v, IsVolume(v), NEW k \in 0..(NDIRECT - 1), NEW b \in Ptr,
           NEW w, w = DirectAt(v, k, b)
    PROVE  SetTo(v, w, k, b, {})
<1> USE DEF SlotSet, SameEntries, SetTo
<1> DEFINE d == v.din
           T == [d.direct EXCEPT ![k] = b]
           e == [size |-> d.size, blocks |-> d.blocks, direct |-> T, indirect |-> d.indirect]
           r == [freemap |-> v.freemap, unused |-> v.unused, entries |-> v.entries,
                 data |-> v.data, din |-> e, dirty |-> v.dirty, nospace |-> v.nospace]
<1>1. /\ d \in Dinodes /\ T \in [0..(NDIRECT - 1) -> Ptr]
      /\ \A y \in 0..(NDIRECT - 1) : T[y] = IF y = k THEN b ELSE d.direct[y]
  BY DEF IsVolume, Dinodes
<1>2. w = [v EXCEPT !.din = [d EXCEPT !.direct = T]]
  BY DEF DirectAt
<1> HIDE DEF T
<1>3. e = [d EXCEPT !.direct = T]
  BY <1>1 DEF Dinodes
<1>4. w = r
  <2> HIDE DEF e, d
  <2>1. w = [v EXCEPT !.din = e]
    BY <1>2, <1>3
  <2> QED BY <2>1 DEF IsVolume
<1>5. e \in Dinodes
  BY <1>1 DEF Dinodes
<1>6. IsVolume(w)
  BY <1>4, <1>5 DEF IsVolume
<1>7. /\ w.freemap = v.freemap /\ w.unused = v.unused /\ w.entries = v.entries
      /\ w.dirty = v.dirty /\ w.din = e
  BY <1>4
<1>8. w.din.blocks = v.din.blocks /\ w.din.indirect = v.din.indirect /\ w.din.direct = T
  BY <1>7
<1>9. ASSUME NEW y \in Slots PROVE Slot(w, y) = IF y = k THEN b ELSE Slot(v, y)
  <2> HIDE DEF e, d
  <2>0. y \in Int /\ y >= -1 /\ k # -1 /\ NDIRECT \in Nat
    BY SfsNumbers DEF Slots
  <2>1. CASE y = -1
    BY <1>6, <1>8, <2>0, <2>1, SlotIs
  <2>2. CASE y # -1 /\ y < NDIRECT
    <3>1. Slot(w, y) = w.din.direct[y]
      BY <1>6, <2>2, SlotIs
    <3>2. Slot(v, y) = v.din.direct[y]
      BY <2>2, SlotIs
    <3> QED BY <1>1, <1>8, <2>0, <2>2, <3>1, <3>2 DEF d
  <2>3. CASE y # -1 /\ y >= NDIRECT
    <3>1. Slot(w, y) = IF w.din.indirect = 0 THEN 0 ELSE w.entries[w.din.indirect][y - NDIRECT]
      BY <1>6, <2>3, SlotIs
    <3>2. Slot(v, y) = IF v.din.indirect = 0 THEN 0 ELSE v.entries[v.din.indirect][y - NDIRECT]
      BY <2>3, SlotIs
    <3> QED BY <1>7, <1>8, <2>0, <2>3, <3>1, <3>2
  <2> QED BY <2>0, <2>1, <2>2, <2>3
<1> QED BY <1>6, <1>7, <1>8, <1>9

LEMMA EntrySet ==
    ASSUME NEW v, IsVolume(v), v.din.indirect # 0, NEW k \in NDIRECT..(NDIRECT + NENTRY - 1),
           NEW b \in Ptr, NEW w, w = EntryAt(v, k, b)
    PROVE  SetTo(v, w, k, b, {v.din.indirect})
<1> USE DEF SlotSet, SameEntries, SetTo
<1> DEFINE t == v.din.indirect
           T == [v.entries[t] EXCEPT ![k - NDIRECT] = b]
           E == [v.entries EXCEPT ![t] = T]
           r == [freemap |-> v.freemap, unused |-> v.unused, entries |-> E,
                 data |-> v.data, din |-> v.din, dirty |-> v.dirty, nospace |-> v.nospace]
<1>0. k \in Int /\ NDIRECT \in Nat /\ NENTRY \in Nat /\ k - NDIRECT \in 0..(NENTRY - 1)
  BY SfsNumbers
<1>1. t \in Blocks /\ v.entries \in [Blocks -> Tables] /\ v.entries[t] \in Tables
  BY DEF IsVolume, Dinodes, Ptr
<1>2. /\ T \in Tables
      /\ \A y \in 0..(NENTRY - 1) : T[y] = IF y = k - NDIRECT THEN b ELSE v.entries[t][y]
  BY <1>0, <1>1 DEF Tables
<1>3. w = [v EXCEPT !.entries = E]
  BY DEF EntryAt
<1> HIDE DEF T
<1>4. E \in [Blocks -> Tables] /\ \A c \in Blocks : E[c] = IF c = t THEN T ELSE v.entries[c]
  BY <1>1, <1>2
<1> HIDE DEF E
<1>5. w = r
  BY <1>3 DEF IsVolume
<1>7. /\ w.freemap = v.freemap /\ w.unused = v.unused /\ w.entries = E
      /\ w.dirty = v.dirty /\ w.din = v.din /\ w.data = v.data /\ w.nospace = v.nospace
  BY <1>5
<1>6. IsVolume(w)
  BY <1>4, <1>5, <1>7 DEF IsVolume
<1>8. SameEntries(v, w, Blocks \ {v.din.indirect})
  BY <1>4, <1>7
<1>9. ASSUME NEW y \in Slots PROVE Slot(w, y) = IF y = k THEN b ELSE Slot(v, y)
  <2>0. y \in Int /\ y >= -1 /\ k # -1 /\ k >= NDIRECT /\ y < NDIRECT + NENTRY
    BY <1>0 DEF Slots
  <2>1. CASE y = -1
    BY <1>7, <2>0, <2>1 DEF Slot
  <2>2. CASE y # -1 /\ y < NDIRECT
    <3>1. Slot(w, y) = w.din.direct[y]
      BY <1>6, <2>2, SlotIs
    <3>2. Slot(v, y) = v.din.direct[y]
      BY <2>2, SlotIs
    <3> QED BY <1>0, <1>7, <2>0, <2>2, <3>1, <3>2
  <2>3. CASE y # -1 /\ y >= NDIRECT
    <3> DEFINE At(x) == IF x.din.indirect = 0 THEN 0 ELSE x.entries[x.din.indirect][y - NDIRECT]
    <3>0. Slot(w, y) = At(w) /\ Slot(v, y) = At(v)
      BY <1>6, <2>3, SlotIs
    <3>1. Slot(w, y) = w.entries[t][y - NDIRECT]
      BY <1>7, <3>0
    <3>2. Slot(v, y) = v.entries[t][y - NDIRECT]
      BY <3>0
    <3>3. w.entries[t] = T
      BY <1>1, <1>4, <1>7
    <3>4. y - NDIRECT \in 0..(NENTRY - 1) /\ (y - NDIRECT = k - NDIRECT <=> y = k)
      BY <1>0, <2>0, <2>3
    <3> HIDE DEF t
    <3> QED BY <1>2, <3>1, <3>2, <3>3, <3>4
  <2> QED BY <1>0, <2>0, <2>1, <2>2, <2>3
<1> QED BY <1>6, <1>7, <1>8, <1>9

\* Slots are in the block map and the table.
LEMMA SlotsStay ==
    ASSUME NEW v, IsVolume(v), NEW w, IsVolume(w), w.entries = v.entries,
           w.din.direct = v.din.direct, w.din.indirect = v.din.indirect
    PROVE  SameSlots(v, w)
<1> USE DEF SameSlots, SameEntries
<1> SUFFICES ASSUME NEW y \in Slots PROVE Slot(w, y) = Slot(v, y)
  OBVIOUS
<1>1. CASE y = -1
  BY <1>1 DEF Slot
<1>2. CASE y # -1
  BY <1>2 DEF Slot, Pointer
<1> QED BY <1>1, <1>2

Recounted(v, w, n) ==
    /\ IsVolume(w) /\ w.freemap = v.freemap /\ w.unused = v.unused
    /\ w.entries = v.entries /\ w.dirty = v.dirty /\ w.din.blocks = n
    /\ w.din.direct = v.din.direct /\ w.din.indirect = v.din.indirect /\ SameSlots(v, w)

LEMMA CountSet ==
    ASSUME NEW v, IsVolume(v), NEW n \in Nat, NEW w, w = WithBlocks(v, n)
    PROVE  Recounted(v, w, n)
<1> USE DEF Recounted
<1> DEFINE d == v.din
           e == [size |-> d.size, blocks |-> n, direct |-> d.direct, indirect |-> d.indirect]
           r == [freemap |-> v.freemap, unused |-> v.unused, entries |-> v.entries,
                 data |-> v.data, din |-> e, dirty |-> v.dirty, nospace |-> v.nospace]
<1>1. d \in Dinodes
  BY DEF IsVolume, Dinodes
<1>2. w = [v EXCEPT !.din = [d EXCEPT !.blocks = n]]
  BY DEF WithBlocks
<1>3. e = [d EXCEPT !.blocks = n] /\ e \in Dinodes
  BY <1>1 DEF Dinodes
<1>4. w = r
  <2> HIDE DEF e, d
  <2>1. w = [v EXCEPT !.din = e]
    BY <1>2, <1>3
  <2> QED BY <2>1 DEF IsVolume
<1>5. IsVolume(w)
  BY <1>3, <1>4 DEF IsVolume
<1>6. /\ w.freemap = v.freemap /\ w.unused = v.unused /\ w.entries = v.entries
      /\ w.dirty = v.dirty /\ w.din = e
  BY <1>4
<1>7. w.din.blocks = n /\ w.din.indirect = v.din.indirect /\ w.din.direct = v.din.direct
  BY <1>6
<1>8. SameSlots(v, w)
  BY <1>5, <1>6, <1>7, SlotsStay
<1> QED BY <1>5, <1>6, <1>7, <1>8

LEMMA DirtyFields ==
    ASSUME NEW v, v.dirty \in BOOLEAN,
           v = [freemap |-> v.freemap, unused |-> v.unused, entries |-> v.entries,
                data |-> v.data, din |-> v.din, dirty |-> v.dirty, nospace |-> v.nospace],
           NEW w, w = Dirty(v)
    PROVE  w = [freemap |-> v.freemap, unused |-> v.unused, entries |-> v.entries,
                       data |-> v.data, din |-> v.din, dirty |-> TRUE, nospace |-> v.nospace]
  BY DEF Dirty

LEMMA DirtySet ==
    ASSUME NEW v, IsVolume(v), NEW w, w = Dirty(v)
    PROVE  /\ IsVolume(w) /\ w.freemap = v.freemap /\ w.unused = v.unused
           /\ w.entries = v.entries /\ w.dirty /\ w.din = v.din
           /\ SameSlots(v, w)
<1> DEFINE r == [freemap |-> v.freemap, unused |-> v.unused, entries |-> v.entries,
                 data |-> v.data, din |-> v.din, dirty |-> TRUE, nospace |-> v.nospace]
<1>1. w = r
  BY DEF IsVolume, Dirty
<1>2. /\ w.freemap = v.freemap /\ w.unused = v.unused /\ w.entries = v.entries
      /\ w.din = v.din /\ w.data = v.data /\ w.nospace = v.nospace
  BY <1>1
<1>3. w.dirty = TRUE
  BY <1>1
<1>4. IsVolume(w)
  BY <1>1, <1>2, <1>3 DEF IsVolume
<1>5. SameSlots(v, w)
  BY <1>2, <1>4, SlotsStay
<1> QED BY <1>2, <1>3, <1>4, <1>5

\* A cleared block becomes the table.
LEMMA IndirectSet ==
    ASSUME NEW v, IsVolume(v), v.din.indirect = 0, NEW b \in Blocks, v.entries[b] = NoEntries,
           NEW w, w = TableAt(v, b)
    PROVE  SetTo(v, w, -1, b, {})
<1> USE DEF SlotSet, SameEntries, SetTo
<1> DEFINE d == v.din
           e == [size |-> d.size, blocks |-> d.blocks, direct |-> d.direct, indirect |-> b]
           r == [freemap |-> v.freemap, unused |-> v.unused, entries |-> v.entries,
                 data |-> v.data, din |-> e, dirty |-> v.dirty, nospace |-> v.nospace]
<1>1. d \in Dinodes
  BY DEF IsVolume, Dinodes
<1>2. w = [v EXCEPT !.din = [d EXCEPT !.indirect = b]]
  BY DEF TableAt
<1>3. e = [d EXCEPT !.indirect = b] /\ e \in Dinodes
  BY <1>1 DEF Dinodes, Ptr
<1>4. w = r
  <2> HIDE DEF e, d
  <2>1. w = [v EXCEPT !.din = e]
    BY <1>2, <1>3
  <2> QED BY <2>1 DEF IsVolume
<1>5. IsVolume(w)
  BY <1>3, <1>4 DEF IsVolume
<1>6. /\ w.freemap = v.freemap /\ w.unused = v.unused /\ w.entries = v.entries
      /\ w.dirty = v.dirty /\ w.din = e
  BY <1>4
<1>7. w.din.blocks = v.din.blocks /\ w.din.indirect = b /\ w.din.direct = v.din.direct
  BY <1>6
<1>8. ASSUME NEW y \in Slots PROVE Slot(w, y) = IF y = -1 THEN b ELSE Slot(v, y)
  <2> HIDE DEF e, d
  <2>0. y \in Int /\ y >= -1 /\ y < NDIRECT + NENTRY /\ NDIRECT \in Nat /\ NENTRY \in Nat /\ b # 0
    BY SfsNumbers DEF Slots
  <2>1. CASE y = -1
    BY <1>7, <2>1 DEF Slot
  <2>2. CASE y # -1 /\ y < NDIRECT
    <3>1. Slot(w, y) = w.din.direct[y]
      BY <1>5, <2>2, SlotIs
    <3>2. Slot(v, y) = v.din.direct[y]
      BY <2>2, SlotIs
    <3> QED BY <1>7, <2>2, <3>1, <3>2
  <2>3. CASE y # -1 /\ y >= NDIRECT
    <3> DEFINE At(x) == IF x.din.indirect = 0 THEN 0 ELSE x.entries[x.din.indirect][y - NDIRECT]
    <3>0. Slot(w, y) = At(w) /\ Slot(v, y) = At(v)
      BY <1>5, <2>3, SlotIs
    <3>1. Slot(w, y) = NoEntries[y - NDIRECT]
      BY <1>6, <1>7, <2>0, <3>0
    <3>2. Slot(v, y) = 0
      BY <3>0
    <3>3. y - NDIRECT \in 0..(NENTRY - 1)
      BY <2>0, <2>3
    <3> QED BY <2>3, <3>1, <3>2, <3>3 DEF NoEntries
  <2> QED BY <2>0, <2>1, <2>2, <2>3
<1> QED BY <1>5, <1>6, <1>7, <1>8

\* What sfs_block_alloc clears no place of the inode leads to, nor one of another.
LEMMA AllocatedSlots ==
    ASSUME NEW O, NEW v, Good(v, O), v.freemap # {}, NEW w, w = Allocated(v)
    PROVE  /\ SameSlots(v, w)
           /\ \A c \in Blocks \ v.freemap : w.entries[c] = v.entries[c]
           /\ SameEntries(v, w, O) /\ O \subseteq Blocks \ v.freemap
<1> USE DEF SameSlots, SameEntries
<1> DEFINE b == Min(v.freemap)
<1>1. IsVolume(v) /\ b \in v.freemap
  BY LowestFree DEF Good
<1>2. /\ IsVolume(w) /\ w.din = v.din
      /\ \A c \in Blocks : w.entries[c] = IF c = b THEN NoEntries ELSE v.entries[c]
  <2>1. TakenFrom(v, w, b)
    BY <1>1, AllocatedIs
  <2> QED BY <2>1 DEF TakenFrom, ClearedAt
<1> HIDE DEF b
<1>3. \A c \in Blocks \ v.freemap : w.entries[c] = v.entries[c]
  BY <1>1, <1>2
<1>4. SameEntries(v, w, O) /\ O \subseteq Blocks \ v.freemap
  BY <1>3 DEF Good
<1>5. v.din.indirect # 0 => v.din.indirect \in Blocks \ v.freemap
  <2>1. -1 \in Slots /\ Slot(v, -1) = v.din.indirect
    BY SfsNumbers DEF Slot
  <2> QED BY <2>1 DEF Good
<1>6. ASSUME NEW y \in Slots PROVE Slot(w, y) = Slot(v, y)
  <2>0. y \in Int /\ NDIRECT \in Nat
    BY SfsNumbers DEF Slots
  <2>1. CASE y = -1
    BY <1>2, <2>1 DEF Slot
  <2>2. CASE y # -1 /\ y < NDIRECT
    <3>1. Slot(w, y) = w.din.direct[y]
      BY <1>2, <2>2, SlotIs
    <3>2. Slot(v, y) = v.din.direct[y]
      BY <1>1, <2>2, SlotIs
    <3> QED BY <1>2, <3>1, <3>2
  <2>3. CASE y # -1 /\ y >= NDIRECT
    <3> DEFINE At(x) == IF x.din.indirect = 0 THEN 0 ELSE x.entries[x.din.indirect][y - NDIRECT]
    <3>0. Slot(w, y) = At(w) /\ Slot(v, y) = At(v)
      BY <1>1, <1>2, <2>3, SlotIs
    <3> QED BY <1>2, <1>3, <1>5, <3>0
  <2> QED BY <2>0, <2>1, <2>2, <2>3
<1> QED BY <1>3, <1>4, <1>6

\* What sfs_bmap_get_nolock makes of a volume whose place k is empty.
Fills(v, k, w, O) ==
    /\ Good(w, O) /\ Follows(v, w, O) /\ Slot(w, k) # 0 /\ w.din.blocks = v.din.blocks

DirectMade(v, k) == [Allocated(v) EXCEPT !.din.direct[k] = Min(v.freemap), !.dirty = TRUE]

LEMMA FillsDirect ==
    ASSUME NEW O, NEW v, Good(v, O), v.freemap # {}, NEW k \in 0..(NDIRECT - 1), Slot(v, k) = 0,
           NEW w, w = DirectMade(v, k)
    PROVE  Fills(v, k, w, O)
<1> DEFINE b == Min(v.freemap)
           a == Allocated(v)
           z == DirectAt(a, k, b)
<1>1. IsVolume(v) /\ b \in v.freemap /\ b \in Blocks /\ b \in Ptr /\ b # 0
  BY LowestFree, SfsNumbers DEF Good, Ptr
<1>2. /\ IsVolume(a) /\ a.freemap = v.freemap \ {b} /\ a.unused = v.unused - 1 /\ a.din = v.din
  <2>1. TakenFrom(v, a, b)
    BY <1>1, AllocatedIs
  <2> QED BY <2>1 DEF TakenFrom
<1>3. /\ SameSlots(v, a)
      /\ SameEntries(v, a, O)
  BY AllocatedSlots
<1> HIDE DEF a, b
<1>z. z = DirectAt(a, k, b)
  OBVIOUS
<1> HIDE DEF z
<1>4. /\ IsVolume(z) /\ z.freemap = a.freemap /\ z.unused = a.unused
      /\ z.entries = a.entries /\ z.din.blocks = a.din.blocks
      /\ SlotSet(a, z, k, b)
  <2>1. SetTo(a, z, k, b, {})
    BY <1>1, <1>2, <1>z, DirectSet
  <2> QED BY <2>1 DEF SetTo
<1>5. w = Dirty(z)
  BY DEF a, b, z, Dirty, DirectAt, DirectMade
<1>6. /\ IsVolume(w) /\ w.freemap = z.freemap /\ w.unused = z.unused
      /\ w.entries = z.entries /\ w.dirty /\ w.din = z.din
      /\ SameSlots(z, w)
  BY <1>4, <1>5, DirtySet
<1>7. k \in Slots
  BY SfsNumbers DEF Slots
<1>8. /\ w.freemap = v.freemap \ {b} /\ w.unused = v.unused - 1 /\ w.din.blocks = v.din.blocks
      /\ SlotSet(v, w, k, b)
  BY <1>2, <1>3, <1>4, <1>6 DEF SameSlots, SlotSet
<1>9. Good(w, O)
  BY <1>1, <1>6, <1>7, <1>8, Puts, Zenon
<1>10. Follows(v, w, O)
  BY <1>3, <1>4, <1>6 DEF Follows, SameEntries
<1> QED BY <1>1, <1>7, <1>8, <1>9, <1>10 DEF Fills, SlotSet

LEMMA FillsEntry ==
    ASSUME NEW O, NEW v, Good(v, O), v.freemap # {}, v.din.indirect # 0,
           NEW k \in NDIRECT..(NDIRECT + NENTRY - 1), Slot(v, k) = 0,
           NEW w, w = [Allocated(v) EXCEPT !.entries[v.din.indirect][k - NDIRECT] = Min(v.freemap)]
    PROVE  Fills(v, k, w, O)
<1> DEFINE b == Min(v.freemap)
           a == Allocated(v)
           t == v.din.indirect
<1>1. IsVolume(v) /\ b \in v.freemap /\ b \in Blocks /\ b \in Ptr /\ b # 0
  BY LowestFree, SfsNumbers DEF Good, Ptr
<1>2. /\ IsVolume(a) /\ a.freemap = v.freemap \ {b} /\ a.unused = v.unused - 1 /\ a.din = v.din
      /\ a.dirty = v.dirty
  <2>1. TakenFrom(v, a, b)
    BY <1>1, AllocatedIs
  <2> QED BY <2>1 DEF TakenFrom
<1>3. /\ SameSlots(v, a)
      /\ SameEntries(v, a, O) /\ O \subseteq Blocks \ v.freemap
  BY AllocatedSlots
<1> HIDE DEF a, b
<1>4. a.din.indirect = t /\ w = EntryAt(a, k, b)
  <2>1. w = [a EXCEPT !.entries[t][k - NDIRECT] = b]
    BY DEF a, b
  <2> QED BY <1>2, <2>1 DEF EntryAt
<1>5. t \notin O
  <2>1. -1 \in Slots /\ Slot(v, -1) = t
    BY SfsNumbers DEF Slot
  <2> QED BY <2>1 DEF Good
<1>6. /\ IsVolume(w) /\ w.freemap = a.freemap /\ w.unused = a.unused
      /\ w.dirty = a.dirty /\ w.din = a.din
  <2>1. SetTo(a, w, k, b, {a.din.indirect})
    BY <1>1, <1>2, <1>4, EntrySet
  <2> QED BY <2>1 DEF SetTo
<1>7. /\ SameEntries(a, w, Blocks \ {a.din.indirect})
      /\ SlotSet(a, w, k, b)
  <2>1. SetTo(a, w, k, b, {a.din.indirect})
    BY <1>1, <1>2, <1>4, EntrySet
  <2> QED BY <2>1 DEF SetTo
<1>8. k \in Slots
  BY SfsNumbers DEF Slots
<1>9. /\ w.freemap = v.freemap \ {b} /\ w.unused = v.unused - 1 /\ w.din.blocks = v.din.blocks
      /\ SlotSet(v, w, k, b)
  BY <1>2, <1>3, <1>6, <1>7 DEF SameSlots, SlotSet
<1>10. Good(w, O)
  BY <1>1, <1>6, <1>8, <1>9, Puts, Zenon
<1>11. Follows(v, w, O)
  <2>1. v.din.blocks <= w.din.blocks
    BY <1>9 DEF Good
  <2>2. SameEntries(v, w, O)
    BY <1>3, <1>4, <1>5, <1>7 DEF SameEntries
  <2> QED BY <1>2, <1>6, <2>1, <2>2 DEF Follows
<1> QED BY <1>1, <1>8, <1>9, <1>10, <1>11 DEF Fills, SlotSet

\* The first entry of the table takes two blocks.
TableMade(a, k, b, c) ==
    [Allocated(a) EXCEPT !.entries[b][k - NDIRECT] = c, !.din.indirect = b, !.dirty = TRUE]

LEMMA FillsTable ==
    ASSUME NEW O, NEW v, Good(v, O), v.freemap # {}, v.din.indirect = 0,
           NEW k \in NDIRECT..(NDIRECT + NENTRY - 1), NEW b, b = Min(v.freemap),
           NEW a, a = Allocated(v), a.freemap # {}, NEW c, c = Min(a.freemap),
           NEW w, w = TableMade(a, k, b, c)
    PROVE  Fills(v, k, w, O)
<1> DEFINE g == Allocated(a)
           z == TableAt(a, b)
           p == TableAt(g, b)
           q == EntryAt(p, k, c)
<1>1. IsVolume(v) /\ b \in v.freemap /\ b \in Blocks /\ b \in Ptr /\ b # 0
  BY LowestFree, SfsNumbers DEF Good, Ptr
<1>2. /\ IsVolume(a) /\ a.freemap = v.freemap \ {b} /\ a.unused = v.unused - 1 /\ a.din = v.din
      /\ a.entries[b] = NoEntries
  <2>1. TakenFrom(v, a, b)
    BY <1>1, AllocatedIs
  <2> QED BY <1>1, <2>1 DEF TakenFrom, ClearedAt
<1>3. /\ SameSlots(v, a)
      /\ SameEntries(v, a, O) /\ O \subseteq Blocks \ v.freemap
  BY AllocatedSlots
<1>4. c \in a.freemap /\ c \in Blocks /\ c \in Ptr /\ c # 0 /\ c # b
  BY <1>2, LowestFree, SfsNumbers DEF Ptr
<1>5. /\ IsVolume(g) /\ g.freemap = a.freemap \ {c} /\ g.unused = a.unused - 1 /\ g.din = a.din
      /\ ClearedAt(a, g, c)
  <2>1. g = Allocated(a)
    OBVIOUS
  <2> HIDE DEF g
  <2>2. TakenFrom(a, g, c)
    BY <1>2, <2>1, AllocatedIs
  <2> QED BY <2>2 DEF TakenFrom
<1> HIDE DEF g
<1>g. a.din.indirect = 0 /\ g.din.indirect = 0 /\ g.entries[b] = NoEntries
  BY <1>1, <1>2, <1>4, <1>5 DEF ClearedAt
<1>z. z = TableAt(a, b) /\ p = TableAt(g, b)
  OBVIOUS
<1> HIDE DEF z, p
<1>6. /\ IsVolume(z) /\ z.freemap = a.freemap /\ z.unused = a.unused
      /\ z.entries = a.entries /\ z.din.blocks = a.din.blocks
      /\ SlotSet(a, z, -1, b)
  <2>1. SetTo(a, z, -1, b, {})
    BY <1>1, <1>2, <1>g, <1>z, IndirectSet
  <2> QED BY <2>1 DEF SetTo
<1>7. /\ IsVolume(p) /\ p.freemap = g.freemap /\ p.unused = g.unused
      /\ p.entries = g.entries /\ p.din.blocks = g.din.blocks /\ p.din.indirect = b
      /\ SlotSet(g, p, -1, b)
  <2>1. SetTo(g, p, -1, b, {})
    BY <1>1, <1>5, <1>g, <1>z, IndirectSet
  <2>2. -1 \in Slots /\ Slot(p, -1) = p.din.indirect
    BY SfsNumbers DEF Slot
  <2> QED BY <2>1, <2>2 DEF SetTo, SlotSet
<1>8. w = Dirty(q)
  <2> DEFINE e == [g.din EXCEPT !.indirect = b]
             E == [g.entries EXCEPT ![b] = [g.entries[b] EXCEPT ![k - NDIRECT] = c]]
  <2>1. w = [g EXCEPT !.entries = E, !.din = e, !.dirty = TRUE]
    BY DEF g, TableMade
  <2>2. p = [g EXCEPT !.din = e]
    BY DEF p, TableAt
  <2>3. q = [p EXCEPT !.entries = E]
    BY <1>7 DEF EntryAt
  <2> HIDE DEF e, E, p, q
  <2>4. w = [freemap |-> g.freemap, unused |-> g.unused, entries |-> E,
             data |-> g.data, din |-> e, dirty |-> TRUE, nospace |-> g.nospace]
    BY <1>5, <2>1 DEF IsVolume
  <2>5. p = [freemap |-> g.freemap, unused |-> g.unused, entries |-> g.entries,
             data |-> g.data, din |-> e, dirty |-> g.dirty, nospace |-> g.nospace]
    BY <1>5, <2>2 DEF IsVolume
  <2>6. q = [freemap |-> g.freemap, unused |-> g.unused, entries |-> E,
             data |-> g.data, din |-> e, dirty |-> g.dirty, nospace |-> g.nospace]
    BY <2>3, <2>5
  <2> HIDE DEF g
  <2>7. /\ q = [freemap |-> q.freemap, unused |-> q.unused, entries |-> q.entries,
                data |-> q.data, din |-> q.din, dirty |-> q.dirty, nospace |-> q.nospace]
        /\ q.freemap = g.freemap /\ q.unused = g.unused /\ q.entries = E /\ q.din = e
        /\ q.data = g.data /\ q.nospace = g.nospace /\ q.dirty = g.dirty
    BY <2>6
  <2>8. Dirty(q) = [freemap |-> q.freemap, unused |-> q.unused, entries |-> q.entries,
                    data |-> q.data, din |-> q.din, dirty |-> TRUE, nospace |-> q.nospace]
    <3>1. q.dirty \in BOOLEAN
      BY <1>5, <2>7 DEF IsVolume
    <3> QED BY <2>7, <3>1, DirtyFields
  <2> QED BY <2>4, <2>7, <2>8
<1>q. q = EntryAt(p, k, c) /\ p.din.indirect # 0
  BY <1>1, <1>7
<1> HIDE DEF q
<1>9. /\ IsVolume(q) /\ q.freemap = p.freemap /\ q.unused = p.unused /\ q.din = p.din
  <2>1. SetTo(p, q, k, c, {p.din.indirect})
    BY <1>4, <1>7, <1>q, EntrySet
  <2> QED BY <2>1 DEF SetTo
<1>10. /\ SameEntries(p, q, Blocks \ {p.din.indirect})
       /\ SlotSet(p, q, k, c)
  <2>1. SetTo(p, q, k, c, {p.din.indirect})
    BY <1>4, <1>7, <1>q, EntrySet
  <2> QED BY <2>1 DEF SetTo
<1>11. /\ IsVolume(w) /\ w.freemap = q.freemap /\ w.unused = q.unused
       /\ w.entries = q.entries /\ w.dirty /\ w.din = q.din
       /\ SameSlots(q, w)
  BY <1>8, <1>9, DirtySet
<1>12. -1 \in Slots /\ k \in Slots /\ k # -1 /\ Slot(v, -1) = 0 /\ Slot(v, k) = 0
  <2>1. -1 \in Slots /\ k \in Slots /\ k # -1 /\ Slot(v, -1) = 0
    BY SfsNumbers DEF Slots, Slot
  <2>2. k >= NDIRECT
    BY SfsNumbers
  <2> QED BY <1>1, <2>1, <2>2, SlotIs
<1>13. Good(z, O)
  <2>1. z.freemap = v.freemap \ {b} /\ z.unused = v.unused - 1 /\ z.din.blocks = v.din.blocks
    BY <1>2, <1>6
  <2>2. SlotSet(v, z, -1, b)
    BY <1>3, <1>6 DEF SameSlots, SlotSet
  <2> QED BY <1>1, <1>6, <1>12, <2>1, <2>2, Puts
<1>14. SameSlots(a, g)
  <2> SUFFICES ASSUME NEW y \in Slots PROVE Slot(g, y) = Slot(a, y)
    BY DEF SameSlots
  <2>1. y = -1 => Slot(g, y) = Slot(a, y)
    BY <1>5 DEF Slot
  <2>2. y # -1 => Slot(g, y) = Slot(a, y)
    BY <1>g, <1>5 DEF Slot, Pointer
  <2> QED BY <2>1, <2>2
<1>15. SlotSet(z, w, k, c)
  BY <1>6, <1>7, <1>10, <1>11, <1>14 DEF SameSlots, SlotSet
<1>16. Good(w, O)
  <2>1. w.freemap = z.freemap \ {c} /\ w.unused = z.unused - 1 /\ w.din.blocks = z.din.blocks
    BY <1>5, <1>6, <1>7, <1>9, <1>11
  <2>2. Slot(z, k) = 0
    BY <1>3, <1>6, <1>12 DEF SameSlots, SlotSet
  <2>3. c \in z.freemap
    BY <1>4, <1>6
  <2> QED BY <1>11, <1>12, <1>13, <1>15, <2>1, <2>2, <2>3, Puts, Zenon
<1>17. Follows(v, w, O)
  <2>1. \A o \in O : o \in Blocks /\ o # b /\ o # c
    BY <1>1, <1>2, <1>3, <1>4
  <2>2. SameEntries(v, w, O)
    <3> SUFFICES ASSUME NEW o \in O PROVE w.entries[o] = v.entries[o]
      BY DEF SameEntries
    <3>1. o \in Blocks /\ o # b /\ o # c /\ p.din.indirect = b
      BY <1>7, <2>1
    <3>2. w.entries[o] = p.entries[o]
      BY <1>10, <1>11, <3>1 DEF SameEntries
    <3>3. p.entries[o] = a.entries[o]
      BY <1>5, <1>7, <3>1 DEF ClearedAt
    <3> QED BY <1>3, <3>2, <3>3 DEF SameEntries
  <2> QED BY <1>11, <2>2 DEF Follows
<1>18. w.din.blocks = v.din.blocks
  <2>1. a.din = v.din /\ g.din = a.din /\ p.din.blocks = g.din.blocks
    BY <1>2, <1>5, <1>7
  <2>2. w.din.blocks = p.din.blocks
    BY <1>9, <1>11
  <2> QED BY <2>1, <2>2
<1> QED BY <1>4, <1>12, <1>15, <1>16, <1>17, <1>18 DEF Fills, SlotSet

LEMMA FollowsItself ==
    ASSUME NEW O, NEW v, Good(v, O)
    PROVE  Follows(v, v, O)
  BY DEF Follows, SameEntries, Good, IsVolume, Dinodes

LEMMA MapsNext ==
    ASSUME NEW O, NEW v, Good(v, O), NEW k, k = v.din.blocks, Loads(v, k), NEW w, w = Mapped(v, k)
    PROVE  Fills(v, k, w, O)
<1> DEFINE b == Min(v.freemap)
           a == Allocated(v)
<1>1. k \in 0..(NDIRECT + NENTRY - 1) /\ k \in Slots /\ k # -1 /\ IsVolume(v)
  <2>1. k \in 0..(NDIRECT + NENTRY - 1)
    BY RoomLeft
  <2> QED BY <2>1, SfsNumbers DEF Good
<1>2. NDIRECT \in Nat /\ NENTRY \in Nat /\ k \in Int /\ Slot(v, k) = Pointer(v, k)
  BY <1>1, SfsNumbers DEF Slot
<1>3. Needed(v, k) <= Cardinality(v.freemap)
  BY <1>2 DEF Loads
<1>4. IsFiniteSet(v.freemap) /\ Cardinality(v.freemap) \in Nat
  <2>1. IsFiniteSet(v.freemap)
    BY <1>1, SfsNumbers, FS_Subset DEF IsVolume
  <2> QED BY <2>1, FS_CardinalityType
<1>5. Needed(v, k) >= 1 => v.freemap # {}
  BY <1>3, <1>4, FS_EmptySet DEF Needed
<1>6. CASE Slot(v, k) # 0
  <2>1. w = v
    BY <1>2, <1>6 DEF Mapped, Needed
  <2> QED BY <1>6, <2>1, FollowsItself DEF Fills
<1>7. CASE Slot(v, k) = 0 /\ k < NDIRECT
  <2>1. Needed(v, k) = 1
    BY <1>2, <1>7 DEF Needed
  <2>2. w = DirectMade(v, k)
    <3> DEFINE z == Allocated(v)
    <3>1. DirectMade(v, k) = [z EXCEPT !.din.direct[k] = Min(v.freemap), !.dirty = TRUE]
      BY DEF DirectMade
    <3>2. Needed(v, k) # 0 /\ k < NDIRECT /\ Needed(v, k) = 1 /\ ~ (k >= NDIRECT)
      BY <1>2, <1>7, <2>1
    <3>3. w = [z EXCEPT !.din.direct[k] = Min(v.freemap), !.dirty = TRUE]
      BY <3>2 DEF Mapped
    <3> QED BY <3>1, <3>3
  <2>3. k \in 0..(NDIRECT - 1)
    BY <1>1, <1>2, <1>7
  <2> QED BY <1>5, <1>7, <2>1, <2>2, <2>3, FillsDirect
<1>8. CASE Slot(v, k) = 0 /\ k >= NDIRECT /\ v.din.indirect # 0
  <2>1. Needed(v, k) = 1 /\ ~ (k < NDIRECT)
    BY <1>2, <1>8 DEF Needed
  <2>2. w = [Allocated(v) EXCEPT !.entries[v.din.indirect][k - NDIRECT] = Min(v.freemap)]
    BY <1>8, <2>1 DEF Mapped
  <2>3. k \in NDIRECT..(NDIRECT + NENTRY - 1)
    BY <1>1, <1>2, <1>8
  <2> QED BY <1>5, <1>8, <2>1, <2>2, <2>3, FillsEntry
<1>9. CASE Slot(v, k) = 0 /\ k >= NDIRECT /\ v.din.indirect = 0
  <2>1. Needed(v, k) = 2 /\ ~ (k < NDIRECT)
    BY <1>2, <1>9 DEF Needed
  <2>2. w = TableMade(Allocated(v), k, Min(v.freemap), Min(Allocated(v).freemap))
    BY <1>9, <2>1 DEF Mapped, TableMade
  <2>3. k \in NDIRECT..(NDIRECT + NENTRY - 1)
    BY <1>1, <1>2, <1>9
  <2>4. v.freemap # {}
    BY <1>5, <2>1
  <2>5. a.freemap # {}
    <3>1. TakenFrom(v, a, b)
      BY <1>1, <2>4, AllocatedIs
    <3>2. b \in v.freemap
      BY <1>1, <2>4, LowestFree
    <3>3. Cardinality(v.freemap) # 1
      BY <1>3, <1>4, <2>1
    <3>4. v.freemap # {b}
      BY <3>3, FS_Singleton
    <3> QED BY <3>1, <3>2, <3>4 DEF TakenFrom
  <2> DEFINE c == Min(a.freemap)
  <2>6. b = Min(v.freemap) /\ a = Allocated(v) /\ c = Min(a.freemap) /\ w = TableMade(a, k, b, c)
    BY <2>2
  <2> HIDE DEF a, b, c
  <2> QED BY <1>9, <2>3, <2>4, <2>5, <2>6, FillsTable
<1> QED BY <1>2, <1>6, <1>7, <1>8, <1>9

\* Every operation keeps the volume good and follows it.
Kept(v, w, O) == Good(w, O) /\ Follows(v, w, O)

LEMMA KeptTwice ==
    ASSUME NEW O, NEW v, NEW w, NEW u, Good(v, O), Kept(v, w, O), Kept(w, u, O)
    PROVE  Kept(v, u, O)
<1>1. \A x \in {v, w, u} : x.din.blocks \in Int /\ x.dirty \in BOOLEAN
  BY DEF Good, IsVolume, Dinodes, Kept
<1> QED BY <1>1 DEF Kept, Follows, SameEntries

\* sfs_bmap_load_nolock makes the next block.
LEMMA LoadsNext ==
    ASSUME NEW O, NEW v, Good(v, O), NEW k, k = v.din.blocks, Loads(v, k), NEW w, w = Loaded(v, k)
    PROVE  Kept(v, w, O) /\ w.din.blocks = k + 1
<1> DEFINE m == Mapped(v, k)
<1>1. m = Mapped(v, k) /\ k \in 0..(NDIRECT + NENTRY - 1)
  BY RoomLeft
<1>2. w = WithBlocks(m, m.din.blocks + 1)
  <2>1. ~ (k < v.din.blocks)
    BY <1>1
  <2> QED BY <2>1 DEF Loaded, WithBlocks
<1> HIDE DEF m
<1>3. Fills(v, k, m, O)
  BY <1>1, MapsNext
<1>4. Good(m, O) /\ Follows(v, m, O) /\ Slot(m, k) # 0 /\ m.din.blocks = k /\ IsVolume(m)
  BY <1>3 DEF Fills, Good
<1>5. k \in Nat /\ k + 1 \in Nat /\ k + 1 \in 0..(NDIRECT + NENTRY)
  BY <1>1, SfsNumbers
<1>6. Recounted(m, w, k + 1)
  <2>1. w = WithBlocks(m, k + 1)
    BY <1>2, <1>4
  <2> QED BY <1>4, <1>5, <2>1, CountSet
<1>7. \A y \in Slots : Slot(w, y) = Slot(m, y)
  BY <1>6 DEF Recounted, SameSlots
<1>8. \A y \in 0..(w.din.blocks - 1) : Slot(w, y) # 0
  <2> SUFFICES ASSUME NEW y \in 0..k PROVE Slot(w, y) # 0
    BY <1>5, <1>6 DEF Recounted
  <2>1. y \in Slots
    BY <1>1, SfsNumbers DEF Slots
  <2>2. y = k \/ y \in 0..(k - 1)
    BY <1>5
  <2> QED BY <1>4, <1>7, <2>1, <2>2 DEF Good
<1>9. Good(w, O)
  BY <1>4, <1>5, <1>6, <1>7, <1>8 DEF Good, Recounted
<1>10. Follows(m, w, O)
  BY <1>4, <1>5, <1>6 DEF Follows, Recounted, SameEntries
<1>11. Kept(v, m, O) /\ Kept(m, w, O)
  BY <1>4, <1>9, <1>10 DEF Kept
<1>12. Kept(v, w, O)
  BY <1>11, KeptTwice
<1> QED BY <1>6, <1>12 DEF Recounted

\* sfs_bmap_truncate_nolock frees the last block.
LEMMA FreesLast ==
    ASSUME NEW O, NEW v, Good(v, O), v.din.blocks # 0, NEW w, w = LastFreed(v)
    PROVE  Kept(v, w, O) /\ w.din.blocks = v.din.blocks - 1
<1> DEFINE k == v.din.blocks - 1
           b == Pointer(v, k)
           r == Released(v, b)
           x == IF k < NDIRECT THEN DirectAt(r, k, 0) ELSE EntryAt(r, k, 0)
           c == WithBlocks(x, k)
<1>1. /\ k \in 0..(NDIRECT + NENTRY - 1) /\ k \in 0..(v.din.blocks - 1) /\ k \in Slots /\ k # -1
      /\ k \in Nat /\ NDIRECT \in Nat /\ NENTRY \in Nat /\ IsVolume(v)
  BY SfsNumbers DEF Good, Slots
<1>2. b = Slot(v, k) /\ b # 0 /\ b \in Blocks
  BY <1>1 DEF Good, Slot
<1>3. w = Dirty(c)
  <2>1. k < NDIRECT => x = [r EXCEPT !.din.direct[k] = 0]
    BY DEF DirectAt
  <2>2. ~ (k < NDIRECT) => x = [r EXCEPT !.entries[v.din.indirect][k - NDIRECT] = 0]
    BY DEF EntryAt, Released
  <2>3. w = [x EXCEPT !.din.blocks = k, !.dirty = TRUE]
    <3> HIDE DEF r
    <3> QED BY <1>2, <2>1, <2>2 DEF LastFreed, r
  <2> HIDE DEF x
  <2> QED BY <2>3 DEF Dirty, WithBlocks
<1>r. r = [v EXCEPT !.freemap = v.freemap \cup {b}, !.unused = v.unused + 1]
  BY DEF Released
<1> HIDE DEF r, x, c, b
<1>4. /\ r = [freemap |-> v.freemap \cup {b}, unused |-> v.unused + 1, entries |-> v.entries,
             data |-> v.data, din |-> v.din, dirty |-> v.dirty, nospace |-> v.nospace]
  BY <1>1, <1>r DEF IsVolume
<1>5. /\ r.freemap = v.freemap \cup {b} /\ r.unused = v.unused + 1 /\ r.entries = v.entries
      /\ r.data = v.data /\ r.din = v.din /\ r.dirty = v.dirty /\ r.nospace = v.nospace
  BY <1>4
<1>6. IsVolume(r)
  BY <1>1, <1>2, <1>4, <1>5 DEF IsVolume
<1>7. SameSlots(v, r)
  BY <1>1, <1>5, <1>6, SlotsStay
<1>8. \E T \in {{}, {v.din.indirect}} : SetTo(r, x, k, 0, T)
  <2>1. 0 \in Ptr
    BY DEF Ptr
  <2>2. CASE k < NDIRECT
    <3>1. x = DirectAt(r, k, 0) /\ k \in 0..(NDIRECT - 1)
      BY <1>1, <2>2 DEF x
    <3> HIDE DEF k
    <3>2. SetTo(r, x, k, 0, {})
      BY <1>6, <2>1, <3>1, DirectSet
    <3> QED BY <3>2
  <2>3. CASE ~ (k < NDIRECT)
    <3>1. x = EntryAt(r, k, 0) /\ k \in NDIRECT..(NDIRECT + NENTRY - 1)
      BY <1>1, <2>3 DEF x
    <3>2. r.din.indirect # 0
      <4>1. v.din.indirect # 0
        BY <1>1, <1>2, <2>3, SlotIs
      <4> QED BY <1>5, <4>1
    <3> HIDE DEF k
    <3>3. SetTo(r, x, k, 0, {r.din.indirect})
      BY <1>6, <2>1, <3>1, <3>2, EntrySet
    <3> QED BY <1>5, <3>3
  <2> QED BY <2>2, <2>3
<1>9. /\ IsVolume(x) /\ x.freemap = r.freemap /\ x.unused = r.unused /\ SlotSet(r, x, k, 0)
      /\ SameEntries(r, x, Blocks \ {v.din.indirect})
  BY <1>8 DEF SetTo, SameEntries
<1>10. Recounted(x, c, k)
  <2>1. c = WithBlocks(x, k)
    BY DEF c
  <2> HIDE DEF k
  <2> QED BY <1>1, <1>9, <2>1, CountSet
<1>11. /\ IsVolume(c) /\ c.freemap = x.freemap /\ c.unused = x.unused /\ SameSlots(x, c)
       /\ c.entries = x.entries /\ c.din.blocks = k
  BY <1>10 DEF Recounted
<1>12. /\ IsVolume(w) /\ w.freemap = c.freemap /\ w.unused = c.unused
       /\ w.entries = c.entries /\ w.dirty /\ w.din = c.din /\ SameSlots(c, w)
  BY <1>3, <1>11, DirtySet
<1>13. /\ w.freemap = v.freemap \cup {Slot(v, k)} /\ w.unused = v.unused + 1
       /\ w.din.blocks = k /\ SlotSet(v, w, k, 0)
  <2> HIDE DEF k
  <2>1. SlotSet(v, w, k, 0)
    BY <1>7, <1>9, <1>11, <1>12 DEF SlotSet, SameSlots
  <2> QED BY <1>2, <1>5, <1>9, <1>11, <1>12, <2>1
<1>14. Good(w, O)
  <2>1. k = v.din.blocks - 1
    OBVIOUS
  <2> HIDE DEF k
  <2> QED BY <1>12, <1>13, <2>1, Takes
<1>15. SameEntries(v, w, O)
  <2>1. -1 \in Slots /\ Slot(v, -1) = v.din.indirect
    BY SfsNumbers DEF Slot
  <2>2. v.din.indirect \notin O /\ O \subseteq Blocks
    BY <2>1, SfsNumbers DEF Good
  <2> QED BY <1>5, <1>9, <1>11, <1>12, <2>2 DEF SameEntries
<1> QED BY <1>12, <1>13, <1>14, <1>15 DEF Kept, Follows

\* What leaves the block map alone.
Sized(v, len) == [v EXCEPT !.din.size = len, !.dirty = TRUE]
NoSpace(v) == [v EXCEPT !.nospace = TRUE]
Written(v, b, x) == [v EXCEPT !.data[b] = x]

LEMMA SizedKept ==
    ASSUME NEW O, NEW v, Good(v, O), NEW len \in Nat, NEW w, w = Sized(v, len)
    PROVE  Kept(v, w, O) /\ w.din.blocks = v.din.blocks
<1> DEFINE d == v.din
           e == [size |-> len, blocks |-> d.blocks, direct |-> d.direct, indirect |-> d.indirect]
           r == [freemap |-> v.freemap, unused |-> v.unused, entries |-> v.entries,
                 data |-> v.data, din |-> e, dirty |-> TRUE, nospace |-> v.nospace]
<1>1. d \in Dinodes /\ IsVolume(v)
  BY DEF Good, IsVolume, Dinodes
<1>2. w = [v EXCEPT !.din = [d EXCEPT !.size = len], !.dirty = TRUE]
  BY DEF Sized
<1>3. e = [d EXCEPT !.size = len] /\ e \in Dinodes
  BY <1>1 DEF Dinodes
<1>4. w = r
  <2> HIDE DEF e, d
  <2>1. w = [v EXCEPT !.din = e, !.dirty = TRUE]
    BY <1>2, <1>3
  <2> QED BY <1>1, <2>1 DEF IsVolume
<1>5. /\ w.freemap = v.freemap /\ w.unused = v.unused /\ w.entries = v.entries
      /\ w.dirty = TRUE /\ w.din = e /\ w.data = v.data /\ w.nospace = v.nospace
  BY <1>4
<1>6. IsVolume(w)
  BY <1>1, <1>3, <1>4, <1>5 DEF IsVolume
<1>7. w.din.blocks = v.din.blocks /\ w.din.direct = v.din.direct /\ w.din.indirect = v.din.indirect
  BY <1>5
<1>8. \A y \in Slots : Slot(w, y) = Slot(v, y)
  BY <1>1, <1>5, <1>6, <1>7, SlotsStay DEF SameSlots
<1>9. Good(w, O)
  <2>1. \A k \in 0..(v.din.blocks - 1) : k \in Slots
    BY SfsNumbers DEF Good, Slots
  <2> QED BY <1>5, <1>6, <1>7, <1>8, <2>1 DEF Good
<1>10. Follows(v, w, O)
  BY <1>5 DEF Follows, SameEntries
<1> QED BY <1>7, <1>9, <1>10 DEF Kept

\* The block map does not tell v and w apart.
LEMMA AlikeKept ==
    ASSUME NEW O, NEW v, Good(v, O), NEW w, IsVolume(w), w.freemap = v.freemap,
           w.unused = v.unused, w.entries = v.entries, w.din = v.din, w.dirty = v.dirty
    PROVE  Kept(v, w, O) /\ w.din.blocks = v.din.blocks
<1>1. \A y \in Slots : Slot(w, y) = Slot(v, y)
  BY SlotsStay DEF SameSlots, Good
<1>2. \A k \in 0..(v.din.blocks - 1) : k \in Slots
  BY SfsNumbers DEF Good, Slots
<1>3. Good(w, O)
  BY <1>1, <1>2 DEF Good
<1>4. Follows(v, w, O)
  BY DEF Follows, SameEntries, Good, IsVolume, Dinodes
<1> QED BY <1>3, <1>4 DEF Kept

LEMMA NoSpaceKept ==
    ASSUME NEW O, NEW v, Good(v, O), NEW w, w = NoSpace(v)
    PROVE  Kept(v, w, O) /\ w.din.blocks = v.din.blocks
<1>1. w = [freemap |-> v.freemap, unused |-> v.unused, entries |-> v.entries,
           data |-> v.data, din |-> v.din, dirty |-> v.dirty, nospace |-> TRUE]
  BY DEF NoSpace, Good, IsVolume
<1>2. /\ w.freemap = v.freemap /\ w.unused = v.unused /\ w.entries = v.entries
      /\ w.dirty = v.dirty /\ w.din = v.din /\ w.data = v.data /\ w.nospace = TRUE
  BY <1>1
<1>3. IsVolume(w)
  BY <1>1, <1>2 DEF Good, IsVolume
<1> QED BY <1>2, <1>3, AlikeKept

LEMMA WrittenKept ==
    ASSUME NEW O, NEW v, Good(v, O), NEW b, NEW x, NEW w, w = Written(v, b, x)
    PROVE  Kept(v, w, O) /\ w.din.blocks = v.din.blocks
<1> DEFINE D == [v.data EXCEPT ![b] = x]
<1>0. w = [v EXCEPT !.data = D]
  BY DEF Written
<1> HIDE DEF D
<1>1. w = [freemap |-> v.freemap, unused |-> v.unused, entries |-> v.entries,
           data |-> D, din |-> v.din, dirty |-> v.dirty, nospace |-> v.nospace]
  BY <1>0 DEF Good, IsVolume
<1>2. /\ w.freemap = v.freemap /\ w.unused = v.unused /\ w.entries = v.entries
      /\ w.dirty = v.dirty /\ w.din = v.din /\ w.data = D /\ w.nospace = v.nospace
  BY <1>1
<1>3. IsVolume(w)
  BY <1>1, <1>2 DEF Good, IsVolume
<1> QED BY <1>2, <1>3, AlikeKept

\* A round of the first loop of sfs_truncfile
GrownOnce(w) == IF Loads(w, w.din.blocks) THEN Loaded(w, w.din.blocks) ELSE NoSpace(w)

LEMMA GrownOnceKept ==
    ASSUME NEW O, NEW v, Good(v, O), NEW w, w = GrownOnce(v)
    PROVE  Kept(v, w, O)
<1> DEFINE k == v.din.blocks
<1>1. CASE Loads(v, v.din.blocks)
  <2>1. w = Loaded(v, k)
    BY <1>1 DEF GrownOnce
  <2>2. k = v.din.blocks /\ Loads(v, k)
    BY <1>1
  <2> HIDE DEF k
  <2> QED BY <2>1, <2>2, LoadsNext
<1>2. CASE ~ Loads(v, v.din.blocks)
  <2>1. w = NoSpace(v)
    BY <1>2 DEF GrownOnce
  <2> QED BY <2>1, NoSpaceKept
<1> QED BY <1>1, <1>2

GrowsTo(v, n, g) == g = [k \in 0..n |-> IF k = 0 THEN v ELSE GrownOnce(g[k - 1])]
ShrinksTo(v, n, g) == g = [k \in 0..n |-> IF k = 0 THEN v ELSE LastFreed(g[k - 1])]

LEMMA LoopsEnd ==
    ASSUME NEW v, NEW n \in Nat
    PROVE  /\ \E g : GrowsTo(v, n, g)
           /\ \E g : ShrinksTo(v, n, g)
<1> DEFINE S == {j \in Nat : \E g : GrowsTo(v, j, g)}
           T == {j \in Nat : \E g : ShrinksTo(v, j, g)}
<1>1. 0 \in S /\ 0 \in T
  <2> DEFINE g == [k \in 0..0 |-> v]
  <2>1. GrowsTo(v, 0, g) /\ ShrinksTo(v, 0, g)
    BY DEF GrowsTo, ShrinksTo
  <2> HIDE DEF g
  <2> QED BY <2>1
<1>2. ASSUME NEW j \in Nat, j \in S PROVE j + 1 \in S
  <2>1. PICK f : GrowsTo(v, j, f)
    BY <1>2
  <2> DEFINE g == [k \in 0..(j + 1) |-> IF k = 0 THEN v ELSE GrownOnce(f[k - 1])]
  <2>2. \A k \in 0..j : g[k] = f[k]
    BY <2>1 DEF GrowsTo
  <2>3. \A k \in 0..(j + 1) : k # 0 => k - 1 \in 0..j
    BY <1>2
  <2>4. GrowsTo(v, j + 1, g)
    BY <2>2, <2>3 DEF GrowsTo
  <2> HIDE DEF g
  <2> QED BY <1>2, <2>4
<1>3. ASSUME NEW j \in Nat, j \in T PROVE j + 1 \in T
  <2>1. PICK f : ShrinksTo(v, j, f)
    BY <1>3
  <2> DEFINE g == [k \in 0..(j + 1) |-> IF k = 0 THEN v ELSE LastFreed(f[k - 1])]
  <2>2. \A k \in 0..j : g[k] = f[k]
    BY <2>1 DEF ShrinksTo
  <2>3. \A k \in 0..(j + 1) : k # 0 => k - 1 \in 0..j
    BY <1>3
  <2>4. ShrinksTo(v, j + 1, g)
    BY <2>2, <2>3 DEF ShrinksTo
  <2> HIDE DEF g
  <2> QED BY <1>3, <2>4
<1>4. n \in S /\ n \in T
  <2> HIDE DEF S, T
  <2>1. Nat \subseteq S
    BY <1>1, <1>2, SetInduction
  <2>2. Nat \subseteq T
    BY <1>1, <1>3, SetInduction
  <2> QED BY <2>1, <2>2
<1> QED BY <1>4

LEMMA GrownKept ==
    ASSUME NEW O, NEW v, Good(v, O), NEW n \in Nat
    PROVE  Kept(v, Grown(v, n), O)
<1> DEFINE g == CHOOSE g : GrowsTo(v, n, g)
<1>1. GrowsTo(v, n, g)
  BY LoopsEnd, Zenon
<1>2. Grown(v, n) = g[n]
  BY DEF Grown, GrowsTo, GrownOnce, NoSpace
<1> HIDE DEF g
<1> DEFINE S == {j \in Nat : j <= n => Kept(v, g[j], O)}
<1>3. \A k \in 0..n : g[k] = IF k = 0 THEN v ELSE GrownOnce(g[k - 1])
  BY <1>1 DEF GrowsTo
<1>4. 0 \in S
  BY <1>3, FollowsItself DEF Kept
<1>5. ASSUME NEW j \in Nat, j \in S PROVE j + 1 \in S
  <2> SUFFICES ASSUME j + 1 <= n PROVE Kept(v, g[j + 1], O)
    OBVIOUS
  <2>1. j + 1 \in 0..n /\ j + 1 # 0 /\ (j + 1) - 1 = j /\ j <= n
    OBVIOUS
  <2>2. g[j + 1] = GrownOnce(g[j])
    BY <1>3, <2>1
  <2>3. Kept(v, g[j], O)
    BY <1>5, <2>1
  <2> HIDE DEF S
  <2>4. Kept(g[j], g[j + 1], O)
    BY <2>2, <2>3, GrownOnceKept DEF Kept
  <2> QED BY <2>3, <2>4, KeptTwice
<1> HIDE DEF S
<1>6. n \in S
  BY <1>4, <1>5, SetInduction
<1>7. Kept(v, g[n], O)
  BY <1>6 DEF S
<1> QED BY <1>2, <1>7

LEMMA ShrunkKept ==
    ASSUME NEW O, NEW v, Good(v, O), NEW n \in Nat, n <= v.din.blocks
    PROVE  Kept(v, Shrunk(v, n), O) /\ Shrunk(v, n).din.blocks = v.din.blocks - n
<1> DEFINE g == CHOOSE g : ShrinksTo(v, n, g)
           Frees(j) == Kept(v, g[j], O) /\ g[j].din.blocks = v.din.blocks - j
<1>1. ShrinksTo(v, n, g)
  BY LoopsEnd, Zenon
<1>2. Shrunk(v, n) = g[n]
  BY DEF Shrunk, ShrinksTo
<1> HIDE DEF g
<1> DEFINE S == {j \in Nat : j <= n => Frees(j)}
<1>3. \A k \in 0..n : g[k] = IF k = 0 THEN v ELSE LastFreed(g[k - 1])
  BY <1>1 DEF ShrinksTo
<1>0. v.din.blocks \in Nat
  BY SfsNumbers DEF Good
<1>4. 0 \in S
  <2>1. g[0] = v
    BY <1>3
  <2> QED BY <1>0, <2>1, FollowsItself DEF Kept
<1>5. ASSUME NEW j \in Nat, j \in S PROVE j + 1 \in S
  <2> SUFFICES ASSUME j + 1 <= n PROVE Frees(j + 1)
    OBVIOUS
  <2>1. j + 1 \in 0..n /\ j + 1 # 0 /\ (j + 1) - 1 = j /\ j <= n
    OBVIOUS
  <2>2. g[j + 1] = LastFreed(g[j])
    BY <1>3, <2>1
  <2>3. Kept(v, g[j], O) /\ g[j].din.blocks = v.din.blocks - j
    BY <1>5, <2>1
  <2>4. g[j].din.blocks # 0
    BY <1>0, <2>1, <2>3
  <2> HIDE DEF S
  <2>5. Kept(g[j], g[j + 1], O) /\ g[j + 1].din.blocks = g[j].din.blocks - 1
    BY <2>2, <2>3, <2>4, FreesLast DEF Kept
  <2>6. Kept(v, g[j + 1], O)
    BY <2>3, <2>5, KeptTwice
  <2>7. g[j + 1].din.blocks = v.din.blocks - (j + 1)
    BY <1>0, <2>3, <2>5
  <2> QED BY <2>6, <2>7
<1> HIDE DEF S
<1>6. n \in S
  BY <1>4, <1>5, SetInduction
<1>7. Frees(n)
  BY <1>6 DEF S
<1> QED BY <1>2, <1>7

\* sfs_truncfile, whatever it fails of
LEMMA TruncatedKept ==
    ASSUME NEW O, NEW v, Good(v, O), NEW len \in Nat
    PROVE  Kept(v, Truncated(v, len), O)
<1> DEFINE old == v.din.blocks
           new == BlocksFor(len)
           w == IF old < new THEN Grown(v, new - old) ELSE Shrunk(v, old - new)
<1>1. old \in Nat /\ new \in Nat
  BY SfsNumbers DEF Good, BlocksFor
<1>2. Kept(v, w, O)
  <2>1. CASE old < new
    <3>1. new - old \in Nat
      BY <1>1, <2>1
    <3> HIDE DEF old, new
    <3> QED BY <2>1, <3>1, GrownKept
  <2>2. CASE ~ (old < new)
    <3>1. old - new \in Nat /\ old - new <= v.din.blocks
      BY <1>1, <2>2
    <3> HIDE DEF old, new
    <3> QED BY <2>2, <3>1, ShrunkKept
  <2> QED BY <2>1, <2>2
<1>3. Truncated(v, len) \in {v, w, Sized(w, len)}
  BY DEF Truncated, Sized
<1> HIDE DEF w
<1>4. Kept(v, Sized(w, len), O)
  <2>1. Kept(w, Sized(w, len), O)
    BY <1>2, SizedKept DEF Kept
  <2> QED BY <1>2, <2>1, KeptTwice
<1> QED BY <1>2, <1>3, <1>4, FollowsItself DEF Kept

-----------------------------------------------------------------------------
(* Reading and writing *)

IsDone(r) == r = [v |-> r.v, alen |-> r.alen, ended |-> r.ended] /\ r.alen \in Nat

PartLeaves(r, p, q, O) ==
    /\ IsDone(q) /\ Kept(r.v, q.v, O)
    /\ ~ q.ended => p.blk < q.v.din.blocks

LEMMA PartKept ==
    ASSUME NEW O, NEW r, IsDone(r), Good(r.v, O), NEW p, p.n \in Nat,
           r.ended \/ p.blk \in 0..r.v.din.blocks, NEW u, NEW q, q = PartDone(r, p, u)
    PROVE  PartLeaves(r, p, q, O)
<1> DEFINE v == r.v
           k == p.blk
<1>1. CASE r.ended
  <2>1. q = r
    BY <1>1 DEF PartDone
  <2> QED BY <1>1, <2>1, FollowsItself DEF PartLeaves, Kept
<1>2. CASE ~ r.ended /\ ~ Loads(v, k)
  <2>1. q = [r EXCEPT !.ended = TRUE, !.v = NoSpace(v)]
    BY <1>2 DEF PartDone, NoSpace
  <2>2. q = [v |-> NoSpace(v), alen |-> r.alen, ended |-> TRUE]
    BY <2>1 DEF IsDone
  <2>3. q.v = NoSpace(v) /\ q.alen = r.alen /\ q.ended = TRUE
    BY <2>2
  <2> QED BY <2>2, <2>3, NoSpaceKept DEF PartLeaves, IsDone
<1>3. CASE ~ r.ended /\ Loads(v, k)
  <2> DEFINE w == Loaded(v, k)
  <2>0. k \in 0..v.din.blocks /\ v.din.blocks \in Nat
    BY <1>3, SfsNumbers DEF Good
  <2>1. Kept(v, w, O) /\ k < w.din.blocks
    <3>1. CASE k < v.din.blocks
      <4>1. w = v
        BY <3>1 DEF Loaded
      <4> QED BY <3>1, <4>1, FollowsItself DEF Kept
    <3>2. CASE k = v.din.blocks
      <4>1. w = Loaded(v, k) /\ Loads(v, k) /\ k = v.din.blocks /\ Good(v, O)
        BY <1>3, <3>2
      <4> HIDE DEF w, k, v
      <4>2. Kept(v, w, O) /\ w.din.blocks = k + 1
        BY <4>1, LoadsNext
      <4> QED BY <2>0, <4>2
    <3> QED BY <2>0, <3>1, <3>2
  <2>2. \E b, x : q = [v |-> IF u = << >> THEN w ELSE Written(w, b, x),
                      alen |-> r.alen + p.n, ended |-> FALSE]
    <3> DEFINE b == Pointer(w, p.blk)
               x == [i \in 0..(BLKSIZE - 1) |->
                        IF i >= p.off /\ i < p.off + p.n THEN u[r.alen + i - p.off + 1] ELSE w.data[b][i]]
    <3>1. q = [v |-> IF u = << >> THEN w ELSE [w EXCEPT !.data[b] = x],
               alen |-> r.alen + p.n, ended |-> FALSE]
      BY <1>3 DEF PartDone
    <3> HIDE DEF w, x, b
    <3> QED BY <3>1 DEF Written
  <2> HIDE DEF w
  <2>3. PICK b, x : q = [v |-> IF u = << >> THEN w ELSE Written(w, b, x),
                       alen |-> r.alen + p.n, ended |-> FALSE]
    BY <2>2, Zenon
  <2> DEFINE z == Written(w, b, x)
  <2>4. Kept(w, z, O) /\ z.din.blocks = w.din.blocks
    BY <2>1, WrittenKept DEF Kept
  <2>5. Kept(v, z, O)
    BY <2>1, <2>4, KeptTwice
  <2>6. /\ q = [v |-> q.v, alen |-> q.alen, ended |-> q.ended]
        /\ q.v \in {w, z} /\ q.alen = r.alen + p.n /\ ~ q.ended
    <3> HIDE DEF z
    <3> QED BY <2>3 DEF z
  <2>7. Kept(v, q.v, O) /\ k < q.v.din.blocks
    <3> HIDE DEF z, v, k
    <3> QED BY <2>1, <2>4, <2>5, <2>6
  <2> QED BY <2>6, <2>7 DEF PartLeaves, IsDone
<1> QED BY <1>1, <1>2, <1>3

LEMMA LeastOfTwo ==
    ASSUME NEW a \in Nat, NEW b \in Nat
    PROVE  Min({a, b}) \in Nat /\ Min({a, b}) <= a /\ Min({a, b}) <= b
<1>1. \E x \in {a, b} : \A y \in {a, b} : x <= y
  OBVIOUS
<1>2. Min({a, b}) \in {a, b} /\ \A y \in {a, b} : Min({a, b}) <= y
  BY <1>1, Zenon DEF Min
<1> QED BY <1>2

\* The units lie in the block of off and, if that is too small, in the next.
LEMMA PartsAre ==
    ASSUME NEW off \in Nat, NEW len \in Nat, NEW parts, parts = Parts(off, len)
    PROVE  /\ parts[1].blk = off \div BLKSIZE /\ parts[1].n \in Nat
           /\ Len(parts) # 1 => parts[2].blk = off \div BLKSIZE + 1 /\ parts[2].n \in Nat
<1> DEFINE room == BLKSIZE - (off % BLKSIZE)
           head == Min({len, room})
           first == [blk |-> off \div BLKSIZE, off |-> off % BLKSIZE, n |-> head]
           rest == [blk |-> off \div BLKSIZE + 1, off |-> 0, n |-> len - head]
<1>1. room \in Nat
  BY SfsNumbers
<1>2. head \in Nat /\ len - head \in Nat
  <2> HIDE DEF room
  <2>1. head \in Nat /\ head <= len
    BY <1>1, LeastOfTwo
  <2> QED BY <2>1
<1>3. parts = IF head = len THEN <<first>> ELSE <<first, rest>>
  BY DEF Parts
<1> HIDE DEF head
<1>4. parts[1] = first /\ (Len(parts) # 1 => parts[2] = rest)
  <2> HIDE DEF first, rest
  <2> QED BY <1>3
<1> QED BY <1>2, <1>4

\* sfs_io_nolock, however far it comes
LEMMA IoKept ==
    ASSUME NEW O, NEW v, Good(v, O), NEW off \in Nat, NEW len \in Nat, ~ IoPanics(v, off), NEW u,
           NEW r, r = Io(v, off, len, u)
    PROVE  Kept(v, r.v, O) /\ r.alen \in Nat
<1> DEFINE parts == Parts(off, len)
           start == [v |-> v, alen |-> 0, ended |-> FALSE]
           one == PartDone(start, parts[1], u)
           both == IF Len(parts) = 1 THEN one ELSE PartDone(one, parts[2], u)
           end == off + both.alen
<1>1. r = IF end > v.din.size THEN [both EXCEPT !.v.din.size = end, !.v.dirty = TRUE] ELSE both
  BY DEF Io
<1>2. off \div BLKSIZE \in 0..v.din.blocks /\ v.din.blocks \in Nat
  BY SfsNumbers DEF IoPanics, Good
<1>3. /\ parts[1].blk = off \div BLKSIZE /\ parts[1].n \in Nat
      /\ Len(parts) # 1 => parts[2].blk = off \div BLKSIZE + 1 /\ parts[2].n \in Nat
  BY PartsAre
<1>4. /\ IsDone(start) /\ start.v = v /\ parts[1].blk \in 0..start.v.din.blocks
      /\ one = PartDone(start, parts[1], u)
  BY <1>2, <1>3 DEF IsDone
<1> HIDE DEF parts, start, one
<1>5. PartLeaves(start, parts[1], one, O)
  BY <1>3, <1>4, PartKept
<1>6. /\ IsDone(one) /\ Kept(v, one.v, O) /\ Good(one.v, O) /\ one.v.din.blocks \in Nat
      /\ one.ended \/ off \div BLKSIZE < one.v.din.blocks
  <2>1. IsDone(one) /\ Kept(v, one.v, O) /\ Good(one.v, O)
    BY <1>4, <1>5 DEF PartLeaves, Kept
  <2> QED BY <1>3, <1>5, <2>1, SfsNumbers DEF PartLeaves, Good
<1>7. IsDone(both) /\ Kept(v, both.v, O)
  <2>1. CASE Len(parts) = 1
    BY <1>6, <2>1
  <2>2. CASE Len(parts) # 1
    <3>1. /\ parts[2].n \in Nat /\ (one.ended \/ parts[2].blk \in 0..one.v.din.blocks)
          /\ both = PartDone(one, parts[2], u)
      BY <1>2, <1>3, <1>6, <2>2
    <3> HIDE DEF both
    <3>2. PartLeaves(one, parts[2], both, O)
      BY <1>6, <3>1, PartKept
    <3>3. IsDone(both) /\ Kept(one.v, both.v, O)
      BY <3>2 DEF PartLeaves
    <3> QED BY <1>6, <3>3, KeptTwice
  <2> QED BY <2>1, <2>2
<1> HIDE DEF both
<1>8. both.alen \in Nat /\ end \in Nat
  BY <1>7 DEF IsDone
<1> HIDE DEF end
<1>9. CASE end > v.din.size
  <2> DEFINE z == Sized(both.v, end)
  <2>1. r = [both EXCEPT !.v = z]
    BY <1>1, <1>9 DEF Sized
  <2>2. Kept(both.v, z, O)
    BY <1>7, <1>8, SizedKept DEF Kept
  <2> HIDE DEF z
  <2>3. r = [v |-> z, alen |-> both.alen, ended |-> both.ended]
    BY <1>7, <2>1 DEF IsDone
  <2>4. r.v = z /\ r.alen = both.alen
    BY <2>3
  <2>5. Kept(v, z, O)
    BY <1>7, <2>2, KeptTwice
  <2> QED BY <1>8, <2>4, <2>5
<1>10. CASE ~ (end > v.din.size)
  BY <1>1, <1>7, <1>8, <1>10
<1> QED BY <1>9, <1>10

-----------------------------------------------------------------------------
(* The invariant *)

SfsTypes ==
    /\ freemap \subseteq Blocks /\ unused \in Int /\ entries \in [Blocks -> Tables]
    /\ disk \in [Inodes -> Dinodes]
    /\ sin \in [Inodes -> [din : Dinodes, dirty : BOOLEAN, ref : Nat, open : Nat]]
    /\ \A i \in Inodes : sin[i].ref = 0 => sin[i] = NotLoaded
    /\ file \in [Fds -> [node : Inodes \cup {NULL}, pos : Nat, writable : BOOLEAN]]
    /\ \A f \in Fds : file[f].node = NULL => file[f] = FD_NONE

\* the blocks of the files but i
OthersHold(i) == {b \in Blocks : \E j \in Inodes \ {i}, x \in Slots : Slot(View(j), x) = b}

\* Every file has its blocks for itself, and no block is lost.
MapsInv ==
    /\ unused = Cardinality(freemap)
    /\ \A i \in Inodes : Good(View(i), OthersHold(i))
    /\ \A b \in Blocks \ freemap : \E i \in Inodes, x \in Slots : Slot(View(i), x) = b

\* A clean inode may have come to count blocks, and names none that the stored one
\* does not: it may be dropped.
CachedInv ==
    \A i \in Inodes :
        sin[i].ref > 0 /\ ~ sin[i].dirty =>
            /\ disk[i].direct = sin[i].din.direct /\ disk[i].indirect = sin[i].din.indirect
            /\ disk[i].blocks <= sin[i].din.blocks

SfsInv == SfsTypes /\ MapsInv /\ CachedInv /\ NodesHeld

LEMMA ViewIs ==
    ASSUME SfsTypes, NEW i \in Inodes
    PROVE  /\ IsVolume(View(i)) /\ View(i).freemap = freemap /\ View(i).unused = unused
           /\ View(i).entries = entries /\ View(i).dirty = sin[i].dirty
           /\ View(i).din = IF sin[i].ref > 0 THEN sin[i].din ELSE disk[i]
<1> DEFINE d == IF sin[i].ref > 0 THEN sin[i].din ELSE disk[i]
<1>1. d \in Dinodes /\ sin[i].dirty \in BOOLEAN
  BY DEF SfsTypes
<1>2. View(i) = [freemap |-> freemap, unused |-> unused, entries |-> entries, data |-> data,
                 din |-> d, dirty |-> sin[i].dirty, nospace |-> nospace]
  BY DEF View, Volume
<1> HIDE DEF d
<1>3. /\ View(i).freemap = freemap /\ View(i).unused = unused /\ View(i).entries = entries
      /\ View(i).dirty = sin[i].dirty /\ View(i).din = d /\ View(i).data = data
      /\ View(i).nospace = nospace
  BY <1>2
<1>4. IsVolume(View(i))
  BY <1>1, <1>2, <1>3 DEF IsVolume, SfsTypes
<1> QED BY <1>3, <1>4 DEF d

LEMMA NextViewIs ==
    ASSUME SfsTypes', NEW i \in Inodes
    PROVE  /\ IsVolume(View(i)') /\ View(i)'.freemap = freemap' /\ View(i)'.unused = unused'
           /\ View(i)'.entries = entries' /\ View(i)'.dirty = sin'[i].dirty
           /\ View(i)'.din = IF sin'[i].ref > 0 THEN sin'[i].din ELSE disk'[i]
<1> DEFINE d == IF sin'[i].ref > 0 THEN sin'[i].din ELSE disk'[i]
<1>1. d \in Dinodes /\ sin'[i].dirty \in BOOLEAN
  BY DEF SfsTypes
<1>2. View(i)' = [freemap |-> freemap', unused |-> unused', entries |-> entries', data |-> data',
                  din |-> d, dirty |-> sin'[i].dirty, nospace |-> nospace']
  BY DEF View, Volume
<1> HIDE DEF d
<1>3. /\ View(i)'.freemap = freemap' /\ View(i)'.unused = unused' /\ View(i)'.entries = entries'
      /\ View(i)'.dirty = sin'[i].dirty /\ View(i)'.din = d /\ View(i)'.data = data'
      /\ View(i)'.nospace = nospace'
  BY <1>2
<1>4. IsVolume(View(i)')
  BY <1>1, <1>2, <1>3 DEF IsVolume, SfsTypes
<1> QED BY <1>3, <1>4 DEF d

LEMMA TableStays ==
    ASSUME NEW v, IsVolume(v), NEW w, IsVolume(w), w.din.direct = v.din.direct,
           w.din.indirect = v.din.indirect,
           v.din.indirect # 0 => w.entries[v.din.indirect] = v.entries[v.din.indirect]
    PROVE  SameSlots(v, w)
<1> SUFFICES ASSUME NEW y \in Slots PROVE Slot(w, y) = Slot(v, y)
  BY DEF SameSlots
<1>1. CASE y = -1
  BY <1>1 DEF Slot
<1>2. CASE y # -1
  BY <1>2 DEF Slot, Pointer
<1> QED BY <1>1, <1>2

\* An operation on the volume of i, that leaves i as it makes it or as it is stored.
StepOf(i, w) ==
    /\ Kept(View(i), w, OthersHold(i))
    /\ freemap' = w.freemap /\ unused' = w.unused /\ entries' = w.entries
    /\ \A j \in Inodes \ {i} : sin'[j] = sin[j] /\ disk'[j] = disk[j]
    /\ View(i)'.din.direct = w.din.direct /\ View(i)'.din.indirect = w.din.indirect
    /\ View(i)'.din.blocks <= w.din.blocks

LEMMA MapsStep ==
    ASSUME SfsInv, SfsTypes', NEW i \in Inodes, NEW w, StepOf(i, w)
    PROVE  MapsInv'
<1> DEFINE O == OthersHold(i)
<1>1. Good(w, O) /\ SameEntries(View(i), w, O) /\ IsVolume(w)
  BY DEF StepOf, Kept, Follows, Good
<1>2. ASSUME NEW j \in Inodes PROVE IsVolume(View(j)) /\ IsVolume(View(j)')
  BY ViewIs, NextViewIs DEF SfsInv
<1>3. ASSUME NEW j \in Inodes, j # i PROVE SameSlots(View(j), View(j)') /\ View(j)'.din = View(j).din
  <2>1. View(j)'.din = View(j).din /\ View(j).entries = entries /\ View(j)'.entries = w.entries
    BY <1>3, ViewIs, NextViewIs DEF SfsInv, StepOf
  <2>2. -1 \in Slots /\ Slot(View(j), -1) = View(j).din.indirect
    BY SfsNumbers DEF Slot
  <2>3. View(j).din.indirect # 0 => View(j).din.indirect \in O
    <3>1. View(j).din.indirect \in Ptr
      BY <1>2, <2>2, SlotIs
    <3> QED BY <1>3, <2>2, <3>1 DEF Ptr, OthersHold
  <2>4. View(i).entries = entries
    BY ViewIs DEF SfsInv
  <2>5. View(j).din.indirect # 0 => w.entries[View(j).din.indirect] = entries[View(j).din.indirect]
    BY <1>1, <2>3, <2>4 DEF SameEntries
  <2> QED BY <1>2, <2>1, <2>5, TableStays
<1>4. SameSlots(w, View(i)')
  <2>1. View(i)'.entries = w.entries
    BY NextViewIs DEF StepOf
  <2> QED BY <1>1, <1>2, <2>1, SlotsStay DEF StepOf
<1>5. /\ unused' = Cardinality(freemap') /\ freemap' = w.freemap
      /\ \A j \in Inodes : View(j)'.freemap = freemap' /\ View(j)'.unused = unused'
  BY <1>1, NextViewIs DEF StepOf, Good
<1>6. OthersHold(i)' = O
  BY <1>3 DEF OthersHold, SameSlots
<1>7. ASSUME NEW j \in Inodes, j # i, NEW x \in Slots, Slot(View(j), x) # 0
      PROVE  Slot(View(j), x) \in O
  <2>1. Slot(View(j), x) \in Ptr
    BY <1>2, SlotIs
  <2> QED BY <1>7, <2>1 DEF Ptr, OthersHold
<1>8. Good(View(i)', OthersHold(i)')
  <2> DEFINE z == View(i)'
  <2>1. /\ \A x \in Slots : Slot(z, x) = Slot(w, x)
        /\ IsVolume(z) /\ z.unused = Cardinality(z.freemap) /\ z.freemap = w.freemap
    BY <1>2, <1>4, <1>5 DEF SameSlots
  <2>2. z.din.blocks \in Nat /\ z.din.blocks <= w.din.blocks
    BY <2>1 DEF StepOf, IsVolume, Dinodes
  <2> HIDE DEF z
  <2>3. z.din.blocks \in 0..(NDIRECT + NENTRY) /\ w.din.blocks \in 0..(NDIRECT + NENTRY)
    BY <1>1, <2>2, SfsNumbers DEF Good
  <2>4. \A k \in 0..(z.din.blocks - 1) : k \in Slots /\ k \in 0..(w.din.blocks - 1)
    BY <2>2, <2>3, SfsNumbers DEF Slots
  <2>5. \A k \in 0..(z.din.blocks - 1) : Slot(z, k) # 0
    BY <1>1, <2>1, <2>4 DEF Good
  <2>6. Good(z, O)
    BY <1>1, <2>1, <2>3, <2>5 DEF Good
  <2> QED BY <1>6, <2>6 DEF z
<1>9. ASSUME NEW b \in Blocks \ freemap' PROVE \E j \in Inodes, x \in Slots : Slot(View(j)', x) = b
  <2>1. CASE b \in O
    <3>1. PICK j \in Inodes \ {i}, x \in Slots : Slot(View(j), x) = b
      BY <2>1 DEF OthersHold
    <3>2. Slot(View(j)', x) = b
      BY <1>3, <3>1 DEF SameSlots
    <3> QED BY <3>1, <3>2
  <2>2. CASE b \notin O
    <3>1. PICK x \in Slots : Slot(w, x) = b
      BY <1>1, <1>5, <2>2 DEF Good
    <3>2. Slot(View(i)', x) = b
      BY <1>4, <3>1 DEF SameSlots
    <3> QED BY <3>2
  <2> QED BY <2>1, <2>2
<1>10. ASSUME NEW j \in Inodes, j # i PROVE Good(View(j)', OthersHold(j)')
  <2> DEFINE v == View(j)
             z == View(j)'
             P == OthersHold(j)
             Q == OthersHold(j)'
  <2>1. /\ Good(v, P) /\ IsVolume(z) /\ z.din = v.din
        /\ \A x \in Slots : Slot(z, x) = Slot(v, x)
        /\ z.unused = Cardinality(z.freemap) /\ z.freemap = w.freemap
    BY <1>2, <1>3, <1>5, <1>10 DEF SfsInv, MapsInv, SameSlots
  <2>2. ASSUME NEW b \in Q
        PROVE  /\ b \in Blocks /\ b # 0
               /\ \/ b \in P /\ b \in O
                  \/ \E x \in Slots : Slot(w, x) = b
    <3>1. PICK l \in Inodes \ {j}, x \in Slots : Slot(View(l)', x) = b /\ b \in Blocks
      BY DEF OthersHold
    <3>2. b # 0
      BY <3>1, SfsNumbers
    <3>3. CASE l = i
      <4>1. Slot(w, x) = b
        BY <1>4, <3>1, <3>3 DEF SameSlots
      <4> QED BY <3>1, <3>2, <4>1
    <3>4. CASE l # i
      <4>1. Slot(View(l), x) = b
        BY <1>3, <3>1, <3>4 DEF SameSlots
      <4>2. b \in P /\ b \in O
        BY <3>1, <3>2, <3>4, <4>1 DEF OthersHold
      <4> QED BY <3>1, <3>2, <4>2
    <3> QED BY <3>3, <3>4
  <2>3. \A x \in Slots : Slot(v, x) # 0 => Slot(v, x) \in O
    BY <1>7, <1>10
  <2> HIDE DEF v, z, P, Q, O
  <2>4. Q \subseteq Blocks \ z.freemap
    BY <1>1, <2>1, <2>2 DEF Good
  <2>5. \A x \in Slots : Slot(z, x) # 0 => Slot(z, x) \in Blocks \ (z.freemap \cup Q)
    <3> SUFFICES ASSUME NEW x \in Slots, Slot(z, x) # 0
                 PROVE  Slot(z, x) \in Blocks \ (z.freemap \cup Q)
      OBVIOUS
    <3>1. Slot(z, x) = Slot(v, x) /\ Slot(v, x) \in O /\ Slot(v, x) # 0
      BY <2>1, <2>3
    <3>2. Slot(v, x) \in Blocks \ w.freemap
      BY <1>1, <3>1 DEF Good
    <3>3. Slot(v, x) \notin P
      BY <2>1, <3>1 DEF Good
    <3>4. \A y \in Slots : Slot(w, y) # Slot(v, x)
      BY <1>1, <3>1 DEF Good
    <3>5. Slot(v, x) \notin Q
      BY <2>2, <3>3, <3>4
    <3> QED BY <2>1, <3>1, <3>2, <3>5
  <2>6. \A x, y \in Slots : Slot(z, x) = Slot(z, y) /\ Slot(z, x) # 0 => x = y
    BY <2>1 DEF Good
  <2>7. \A b \in Blocks \ (z.freemap \cup Q) : \E x \in Slots : Slot(z, x) = b
    <3> SUFFICES ASSUME NEW b \in Blocks \ (z.freemap \cup Q)
                 PROVE  \E x \in Slots : Slot(z, x) = b
      OBVIOUS
    <3>1. PICK l \in Inodes, x \in Slots : Slot(View(l)', x) = b
      BY <1>5, <1>9, <2>1
    <3>2. l # j => b \in Q
      BY <3>1 DEF Q, OthersHold
    <3> QED BY <3>1, <3>2 DEF z
  <2>8. z.din.blocks \in 0..(NDIRECT + NENTRY) /\ \A k \in 0..(z.din.blocks - 1) : Slot(z, k) # 0
    <3>1. v.din.blocks \in 0..(NDIRECT + NENTRY) /\ \A k \in 0..(v.din.blocks - 1) : Slot(v, k) # 0
      BY <2>1 DEF Good
    <3>2. \A k \in 0..(v.din.blocks - 1) : k \in Slots
      BY <3>1, SfsNumbers DEF Slots
    <3> QED BY <2>1, <3>1, <3>2
  <2>9. Good(z, Q)
    BY <2>1, <2>4, <2>5, <2>6, <2>7, <2>8 DEF Good
  <2> QED BY <2>9 DEF z, Q
<1>11. \A j \in Inodes : Good(View(j)', OthersHold(j)')
  BY <1>8, <1>10
<1> QED BY <1>5, <1>9, <1>11 DEF MapsInv

LEMMA SfsInvInit == Init => SfsInv
<1> SUFFICES ASSUME Init PROVE SfsInv
  OBVIOUS
<1> USE DEF Init
<1>1. EmptyFile \in Dinodes /\ NotLoaded \in [din : Dinodes, dirty : BOOLEAN, ref : Nat, open : Nat]
  BY SfsNumbers DEF EmptyFile, NotLoaded, Dinodes, Ptr
<1>2. SfsTypes
  <2>1. freemap \subseteq Blocks /\ unused \in Int /\ entries \in [Blocks -> Tables]
    BY SfsNumbers
  <2>2. FD_NONE \in [node : Inodes \cup {NULL}, pos : Nat, writable : BOOLEAN]
    BY DEF FD_NONE
  <2> QED BY <1>1, <2>1, <2>2 DEF SfsTypes
<1>3. ASSUME NEW i \in Inodes
      PROVE  /\ IsVolume(View(i)) /\ View(i).din.blocks = 0 /\ View(i).freemap = Blocks
             /\ View(i).unused = Cardinality(Blocks)
             /\ \A x \in Slots : Slot(View(i), x) = 0
  <2>1. View(i).din = EmptyFile /\ IsVolume(View(i)) /\ View(i).freemap = Blocks
        /\ View(i).unused = Cardinality(Blocks)
    BY <1>2, ViewIs DEF NotLoaded
  <2>2. ASSUME NEW x \in Slots PROVE Slot(View(i), x) = 0
    <3>1. x \in Int /\ x >= -1 /\ NDIRECT \in Nat /\ (x # -1 /\ x < NDIRECT => x \in 0..(NDIRECT - 1))
      BY SfsNumbers DEF Slots
    <3>2. EmptyFile.indirect = 0 /\ \A k \in 0..(NDIRECT - 1) : EmptyFile.direct[k] = 0
      BY DEF EmptyFile
    <3>3. x = -1 => Slot(View(i), x) = 0
      BY <2>1, <3>2 DEF Slot
    <3>4. x # -1 /\ x < NDIRECT => Slot(View(i), x) = 0
      BY <2>1, <3>1, <3>2, SlotIs
    <3>5. x # -1 /\ x >= NDIRECT => Slot(View(i), x) = 0
      BY <2>1, <3>2, SlotIs
    <3> QED BY <3>1, <3>3, <3>4, <3>5
  <2> QED BY <2>1, <2>2 DEF EmptyFile
<1>4. MapsInv
  <2>1. \A i \in Inodes : OthersHold(i) = {}
    BY <1>3, SfsNumbers DEF OthersHold
  <2>2. ASSUME NEW i \in Inodes PROVE Good(View(i), OthersHold(i))
    BY <1>3, <2>1, SfsNumbers DEF Good
  <2> QED BY <2>2 DEF MapsInv
<1>5. CachedInv
  BY DEF CachedInv, NotLoaded
<1>6. NodesHeld
  <2>1. \A i \in Inodes : {f \in Fds : file[f].node = i} = {}
    BY FilesAssumption DEF FD_NONE
  <2>2. Cardinality({}) = 0
    BY FS_EmptySet
  <2>3. \A i \in Inodes : sin[i].open = 0 /\ sin[i].ref >= sin[i].open
    BY DEF NotLoaded
  <2> SUFFICES ASSUME NEW i \in Inodes
               PROVE  /\ sin[i].open = Cardinality({f \in Fds : file[f].node = i})
                      /\ sin[i].ref >= sin[i].open
    BY DEF NodesHeld
  <2>4. {f \in Fds : file[f].node = i} = {}
    BY <2>1
  <2> QED BY <2>2, <2>3, <2>4
<1> QED BY <1>2, <1>4, <1>5, <1>6 DEF SfsInv

\* The places of the invariant are the owners that BlocksExact counts.
LEMMA SfsInvExact == SfsInv => BlocksExact
<1> SUFFICES ASSUME SfsInv PROVE BlocksExact
  OBVIOUS
<1>1. ASSUME NEW i \in Inodes
      PROVE  /\ Good(View(i), OthersHold(i)) /\ View(i).freemap = freemap
             /\ Slot(View(i), -1) = View(i).din.indirect /\ -1 \in Slots
             /\ \A k \in Index : k \in Slots /\ k # -1 /\ Slot(View(i), k) = Pointer(View(i), k)
  BY ViewIs, SfsNumbers DEF SfsInv, MapsInv, Index, Slot
<1>2. ASSUME NEW i \in Inodes, NEW j \in Inodes, NEW x \in Slots, NEW y \in Slots, NEW b \in Blocks,
             Slot(View(i), x) = b, Slot(View(j), y) = b
      PROVE  i = j /\ x = y /\ b \notin freemap
  <2>1. b # 0
    BY SfsNumbers
  <2>2. b \notin OthersHold(i) /\ b \notin freemap
    BY <1>1, <1>2, <2>1 DEF Good
  <2>3. i = j
    BY <1>2, <2>2 DEF OthersHold
  <2> QED BY <1>1, <1>2, <2>1, <2>2, <2>3 DEF Good
<1>3. ASSUME NEW b \in Blocks, NEW s
      PROVE  s \in Owners(b) <=>
                \/ \E i \in Inodes, k \in Index : s = <<i, k>> /\ Slot(View(i), k) = b
                \/ \E i \in Inodes : s = <<i, "table">> /\ Slot(View(i), -1) = b
  BY <1>1 DEF Owners
<1>4. ASSUME NEW b \in Blocks, b \in freemap PROVE Cardinality(Owners(b)) = 0
  <2>1. Owners(b) = {}
    BY <1>1, <1>2, <1>3, <1>4
  <2> QED BY <2>1, FS_EmptySet
<1>5. ASSUME NEW b \in Blocks, b \notin freemap PROVE Cardinality(Owners(b)) = 1
  <2>1. PICK i \in Inodes, x \in Slots : Slot(View(i), x) = b
    BY <1>5 DEF SfsInv, MapsInv
  <2>2. x = -1 \/ x \in Index
    BY SfsNumbers DEF Slots, Index
  <2> DEFINE s == IF x = -1 THEN <<i, "table">> ELSE <<i, x>>
  <2>3. s \in Owners(b)
    BY <1>3, <2>1, <2>2
  <2>4. ASSUME NEW t \in Owners(b) PROVE t = s
    <3>1. CASE \E j \in Inodes, k \in Index : t = <<j, k>> /\ Slot(View(j), k) = b
      <4>1. PICK j \in Inodes, k \in Index : t = <<j, k>> /\ Slot(View(j), k) = b
        BY <3>1
      <4>2. k \in Slots /\ k # -1
        BY <1>1, <4>1
      <4>3. j = i /\ k = x
        BY <1>2, <2>1, <4>1, <4>2
      <4> QED BY <4>1, <4>2, <4>3
    <3>2. CASE \E j \in Inodes : t = <<j, "table">> /\ Slot(View(j), -1) = b
      <4>1. PICK j \in Inodes : t = <<j, "table">> /\ Slot(View(j), -1) = b
        BY <3>2
      <4>2. j = i /\ x = -1
        BY <1>1, <1>2, <2>1, <4>1
      <4> QED BY <4>1, <4>2
    <3> QED BY <1>3, <2>4, <3>1, <3>2
  <2>5. Owners(b) = {s}
    BY <2>3, <2>4
  <2> HIDE DEF s
  <2>6. Cardinality({s}) = 1
    BY FS_Singleton
  <2> QED BY <2>5, <2>6
<1>6. \A b \in Blocks : Cardinality(Owners(b)) = IF b \in freemap THEN 0 ELSE 1
  BY <1>4, <1>5
<1>7. ASSUME NEW i \in Inodes, NEW k \in 0..(View(i).din.blocks - 1) PROVE Pointer(View(i), k) # 0
  <2>1. k \in Index
    BY <1>1, SfsNumbers DEF Good, Index
  <2> QED BY <1>1, <2>1 DEF Good
<1> QED BY <1>6, <1>7 DEF BlocksExact, SfsInv, MapsInv

\* The inode stays in memory, and the disk as it is.
LEMMA CachedStep ==
    ASSUME SfsInv, SfsTypes', NEW i \in Inodes, NEW w, StepOf(i, w), disk' = disk,
           sin'[i].din = w.din, sin'[i].dirty = w.dirty
    PROVE  CachedInv'
<1> SUFFICES ASSUME NEW j \in Inodes, sin'[j].ref > 0, ~ sin'[j].dirty
             PROVE  /\ disk[j].direct = sin'[j].din.direct /\ disk[j].indirect = sin'[j].din.indirect
                    /\ disk[j].blocks <= sin'[j].din.blocks
  BY DEF CachedInv
<1>1. CASE j # i
  BY <1>1 DEF StepOf, SfsInv, CachedInv
<1>2. CASE j = i
  <2>1. /\ Follows(View(i), w, OthersHold(i)) /\ ~ w.dirty
    BY <1>2 DEF StepOf, Kept
  <2>2. ~ View(i).dirty /\ View(i).dirty = sin[i].dirty
    BY <2>1, ViewIs DEF Follows, SfsInv
  <2>3. /\ w.din.direct = View(i).din.direct /\ w.din.indirect = View(i).din.indirect
        /\ View(i).din.blocks <= w.din.blocks
    BY <2>1 DEF Follows
  <2>4. /\ disk[i].direct = View(i).din.direct /\ disk[i].indirect = View(i).din.indirect
        /\ disk[i].blocks <= View(i).din.blocks
    <3>1. CASE sin[i].ref > 0
      BY <2>2, <3>1, ViewIs DEF SfsInv, CachedInv
    <3>2. CASE ~ (sin[i].ref > 0)
      <4>1. View(i).din = disk[i] /\ disk[i].blocks \in Nat
        BY <3>2, ViewIs DEF SfsInv, SfsTypes, Dinodes
      <4> QED BY <4>1
    <3> QED BY <3>1, <3>2
  <2>5. disk[i].blocks \in Int /\ View(i).din.blocks \in Int /\ w.din.blocks \in Int
    <3>1. IsVolume(View(i)) /\ IsVolume(w) /\ disk[i] \in Dinodes
      BY ViewIs DEF SfsInv, SfsTypes, StepOf, Kept, Good
    <3> QED BY <3>1 DEF IsVolume, Dinodes
  <2> QED BY <1>2, <2>3, <2>4, <2>5
<1> QED BY <1>1, <1>2

-----------------------------------------------------------------------------
(* The calls *)

\* the entries that hold i
Holding(i) == {f \in Fds : file[f].node = i}

LEMMA HoldingIs ==
    ASSUME SfsInv, NEW i \in Inodes
    PROVE  /\ IsFiniteSet(Holding(i)) /\ Cardinality(Holding(i)) \in Nat
           /\ sin[i].open = Cardinality(Holding(i)) /\ sin[i].ref >= sin[i].open
<1>1. Holding(i) \in SUBSET Fds /\ IsFiniteSet(Fds)
  BY FilesAssumption DEF Holding
<1>2. IsFiniteSet(Holding(i))
  BY <1>1, FS_Subset
<1>3. Cardinality(Holding(i)) \in Nat
  BY <1>2, FS_CardinalityType
<1> QED BY <1>2, <1>3 DEF SfsInv, NodesHeld, Holding

LEMMA OpenNode ==
    ASSUME SfsInv, NEW f \in Fds, IsOpen(f), NEW i, i = Node(f)
    PROVE  /\ i \in Inodes /\ f \in Holding(i) /\ sin[i].ref > 0 /\ sin[i].open > 0
           /\ View(i) = Volume(i)
<1>1. i \in Inodes
  BY DEF SfsInv, SfsTypes, IsOpen, Node
<1>2. f \in Holding(i)
  BY DEF Holding, Node
<1>3. Cardinality(Holding(i)) # 0
  BY <1>1, <1>2, HoldingIs, FS_EmptySet
<1>4. sin[i].open > 0 /\ sin[i].ref > 0
  BY <1>1, <1>3, HoldingIs DEF SfsInv, SfsTypes
<1> QED BY <1>1, <1>2, <1>4 DEF View

\* Nodes are counted as before ...
LEMMA NodesSame ==
    ASSUME SfsInv, \A f \in Fds : file'[f].node = file[f].node,
           \A j \in Inodes : sin'[j].open = sin[j].open /\ sin'[j].ref >= sin[j].ref,
           \A j \in Inodes : sin'[j].ref \in Nat
    PROVE  NodesHeld'
<1> SUFFICES ASSUME NEW j \in Inodes
             PROVE  /\ sin'[j].open = Cardinality({f \in Fds : file'[f].node = j})
                    /\ sin'[j].ref >= sin'[j].open
  BY DEF NodesHeld
<1>1. {f \in Fds : file'[f].node = j} = Holding(j)
  BY DEF Holding
<1>2. sin[j].open = Cardinality(Holding(j)) /\ sin[j].ref >= sin[j].open /\ sin[j].open \in Nat /\ sin[j].ref \in Nat
  BY HoldingIs DEF SfsInv, SfsTypes
<1>3. sin'[j].open = sin[j].open /\ sin'[j].ref >= sin[j].ref /\ sin'[j].ref \in Nat
  OBVIOUS
<1>4. sin'[j].ref >= sin'[j].open
  BY <1>2, <1>3
<1> QED BY <1>1, <1>2, <1>3, <1>4

\* ... or for one entry more ...
LEMMA NodesOpened ==
    ASSUME SfsInv, NEW f \in Fds, ~ IsOpen(f), NEW i \in Inodes, file'[f].node = i,
           \A g \in Fds \ {f} : file'[g] = file[g],
           \A j \in Inodes \ {i} : sin'[j] = sin[j],
           sin'[i].open = sin[i].open + 1, sin'[i].ref = sin[i].ref + 1
    PROVE  NodesHeld'
<1> SUFFICES ASSUME NEW j \in Inodes
             PROVE  /\ sin'[j].open = Cardinality({g \in Fds : file'[g].node = j})
                    /\ sin'[j].ref >= sin'[j].open
  BY DEF NodesHeld
<1>1. file[f].node = NULL /\ \A l \in Inodes : f \notin Holding(l)
  BY FilesAssumption DEF IsOpen, FD_NONE, Holding
<1>2. /\ sin[j].open = Cardinality(Holding(j)) /\ sin[j].ref >= sin[j].open
      /\ sin[j].open \in Nat /\ sin[j].ref \in Nat /\ IsFiniteSet(Holding(j))
  BY HoldingIs DEF SfsInv, SfsTypes
<1>3. CASE j = i
  <2>1. {g \in Fds : file'[g].node = j} = Holding(j) \cup {f}
    BY <1>3 DEF Holding
  <2>2. Cardinality(Holding(j) \cup {f}) = Cardinality(Holding(j)) + 1
    BY <1>1, <1>2, FS_AddElement
  <2>3. sin'[j].open = sin[j].open + 1 /\ sin'[j].ref = sin[j].ref + 1
    BY <1>3
  <2>4. sin'[j].ref >= sin'[j].open
    BY <1>2, <2>3
  <2> QED BY <1>2, <2>1, <2>2, <2>3, <2>4
<1>4. CASE j # i
  <2>1. {g \in Fds : file'[g].node = j} = Holding(j)
    BY <1>1, <1>4 DEF Holding
  <2> QED BY <1>2, <1>4, <2>1
<1> QED BY <1>3, <1>4

\* ... or less.
LEMMA NodesClosed ==
    ASSUME SfsInv, NEW f \in Fds, IsOpen(f), NEW i, i = Node(f), file'[f].node = NULL,
           \A g \in Fds \ {f} : file'[g] = file[g],
           \A j \in Inodes \ {i} : sin'[j] = sin[j],
           sin'[i].open = sin[i].open - 1, sin'[i].ref = sin[i].ref - 1
    PROVE  NodesHeld'
<1> SUFFICES ASSUME NEW j \in Inodes
             PROVE  /\ sin'[j].open = Cardinality({g \in Fds : file'[g].node = j})
                    /\ sin'[j].ref >= sin'[j].open
  BY DEF NodesHeld
<1>1. f \in Holding(i) /\ \A l \in Inodes : l # i => f \notin Holding(l)
  BY OpenNode DEF Holding
<1>2. /\ sin[j].open = Cardinality(Holding(j)) /\ sin[j].ref >= sin[j].open
      /\ sin[j].open \in Nat /\ sin[j].ref \in Nat /\ IsFiniteSet(Holding(j))
  BY HoldingIs DEF SfsInv, SfsTypes
<1>3. CASE j = i
  <2>1. {g \in Fds : file'[g].node = j} = Holding(j) \ {f}
    BY <1>3, FilesAssumption DEF Holding
  <2>2. Cardinality(Holding(j) \ {f}) = Cardinality(Holding(j)) - 1
    BY <1>1, <1>2, <1>3, FS_RemoveElement
  <2>3. sin'[j].open = sin[j].open - 1 /\ sin'[j].ref = sin[j].ref - 1
    BY <1>3
  <2>4. sin'[j].ref >= sin'[j].open
    BY <1>2, <2>3
  <2> QED BY <1>2, <2>1, <2>2, <2>3, <2>4
<1>4. CASE j # i
  <2>1. {g \in Fds : file'[g].node = j} = Holding(j)
    BY <1>1, <1>4, FilesAssumption DEF Holding
  <2> QED BY <1>2, <1>4, <2>1
<1> QED BY <1>3, <1>4

\* A call that changes the volume of an inode in memory
LEMMA InstallStep ==
    ASSUME SfsInv, NEW f \in Fds, IsOpen(f), NEW i, i = Node(f),
           NEW w, Kept(Volume(i), w, OthersHold(i)), Install(w, i), disk' = disk,
           NEW p \in Nat, file' = [file EXCEPT ![f].pos = p]
    PROVE  SfsInv'
<1>1. i \in Inodes /\ sin[i].ref > 0 /\ View(i) = Volume(i)
  BY OpenNode
<1>2. IsVolume(w) /\ w.din \in Dinodes /\ w.dirty \in BOOLEAN
  BY DEF Kept, Good, IsVolume
<1>3. /\ freemap' = w.freemap /\ unused' = w.unused /\ entries' = w.entries
      /\ sin' = [sin EXCEPT ![i].din = w.din, ![i].dirty = w.dirty]
  BY DEF Install
<1> DEFINE s == [sin[i] EXCEPT !.din = w.din, !.dirty = w.dirty]
<1>4. sin' = [sin EXCEPT ![i] = s]
  BY <1>3
<1>5. /\ s \in [din : Dinodes, dirty : BOOLEAN, ref : Nat, open : Nat]
      /\ s.din = w.din /\ s.dirty = w.dirty /\ s.ref = sin[i].ref /\ s.open = sin[i].open
  <2>1. sin[i] \in [din : Dinodes, dirty : BOOLEAN, ref : Nat, open : Nat]
    BY <1>1 DEF SfsInv, SfsTypes
  <2> QED BY <1>2, <2>1
<1> HIDE DEF s
<1>6. /\ sin' \in [Inodes -> [din : Dinodes, dirty : BOOLEAN, ref : Nat, open : Nat]]
      /\ sin'[i] = s /\ \A j \in Inodes \ {i} : sin'[j] = sin[j]
  BY <1>1, <1>4, <1>5 DEF SfsInv, SfsTypes
<1>7. /\ file' \in [Fds -> [node : Inodes \cup {NULL}, pos : Nat, writable : BOOLEAN]]
      /\ \A g \in Fds : file'[g].node = file[g].node
      /\ \A g \in Fds : file'[g].node = NULL => file'[g] = FD_NONE
  <2>1. file \in [Fds -> [node : Inodes \cup {NULL}, pos : Nat, writable : BOOLEAN]]
    BY DEF SfsInv, SfsTypes
  <2> DEFINE e == [file[f] EXCEPT !.pos = p]
  <2>2. e \in [node : Inodes \cup {NULL}, pos : Nat, writable : BOOLEAN] /\ e.node = file[f].node
    BY <2>1
  <2>3. file' = [file EXCEPT ![f] = e]
    OBVIOUS
  <2>4. file[f].node # NULL
    BY <1>1, FilesAssumption DEF Node
  <2> HIDE DEF e
  <2>5. file'[f] = e /\ \A g \in Fds \ {f} : file'[g] = file[g]
    BY <2>1, <2>3
  <2> QED BY <2>1, <2>2, <2>3, <2>4, <2>5 DEF SfsInv, SfsTypes
<1>8. SfsTypes'
  <2>1. \A j \in Inodes : sin'[j].ref = 0 => sin'[j] = NotLoaded
    BY <1>1, <1>5, <1>6 DEF SfsInv, SfsTypes
  <2> QED BY <1>2, <1>3, <1>6, <1>7, <2>1 DEF SfsInv, SfsTypes, IsVolume
<1>9. StepOf(i, w)
  <2>1. View(i)'.din = w.din
    BY <1>1, <1>5, <1>6, <1>8, NextViewIs
  <2>2. w.din.blocks <= w.din.blocks
    BY <1>2 DEF Dinodes
  <2> QED BY <1>1, <1>3, <1>6, <2>1, <2>2 DEF StepOf
<1>10. MapsInv'
  BY <1>1, <1>8, <1>9, MapsStep
<1>11. CachedInv'
  BY <1>1, <1>5, <1>6, <1>8, <1>9, CachedStep
<1>12. NodesHeld'
  <2>1. \A j \in Inodes : /\ sin'[j].open = sin[j].open /\ sin'[j].ref = sin[j].ref
                          /\ sin'[j].ref \in Nat
    BY <1>5, <1>6
  <2>2. \A j \in Inodes : sin'[j].ref >= sin[j].ref
    BY <2>1
  <2> QED BY <1>7, <2>1, <2>2, NodesSame
<1> QED BY <1>8, <1>10, <1>11, <1>12 DEF SfsInv

LEMMA NothingStep ==
    ASSUME SfsInv, UNCHANGED <<freemap, unused, entries, data, disk, sin, file, nospace>>
    PROVE  SfsInv'
<1>1. \A i \in Inodes : View(i)' = View(i)
  BY DEF View, Volume
<1>2. \A i \in Inodes : OthersHold(i)' = OthersHold(i)
  BY <1>1 DEF OthersHold
<1>3. MapsInv'
  BY <1>1, <1>2 DEF SfsInv, MapsInv
<1>4. SfsTypes' /\ CachedInv' /\ NodesHeld'
  BY DEF SfsInv, SfsTypes, CachedInv, NodesHeld
<1> QED BY <1>3, <1>4 DEF SfsInv

Nodes == [din : Dinodes, dirty : BOOLEAN, ref : Nat, open : Nat]

\* sfs_load_inode finds the inode that View reads.
LEMMA FoundIs ==
    ASSUME SfsInv, NEW i \in Inodes
    PROVE  /\ Found(i) \in Nodes /\ Found(i).din = View(i).din /\ Found(i).dirty = View(i).dirty
           /\ Found(i).ref = sin[i].ref + 1 /\ Found(i).open = sin[i].open
<1>0. sin[i] \in Nodes /\ disk[i] \in Dinodes /\ (sin[i].ref = 0 => sin[i] = NotLoaded)
  BY DEF SfsInv, SfsTypes, Nodes
<1>1. CASE sin[i].ref > 0
  <2>1. Found(i) = [sin[i] EXCEPT !.ref = @ + 1]
    BY <1>1 DEF Found
  <2>2. View(i).din = sin[i].din /\ View(i).dirty = sin[i].dirty
    BY <1>1, ViewIs DEF SfsInv
  <2> QED BY <1>0, <2>1, <2>2 DEF Nodes
<1>2. CASE ~ (sin[i].ref > 0)
  <2>1. Found(i) = [din |-> disk[i], dirty |-> FALSE, ref |-> 1, open |-> 0]
    BY <1>2 DEF Found
  <2>2. sin[i] = NotLoaded /\ sin[i].ref = 0
    BY <1>0, <1>2 DEF Nodes
  <2>3. View(i).din = disk[i] /\ View(i).dirty = sin[i].dirty
    BY <1>2, ViewIs DEF SfsInv
  <2> QED BY <1>0, <2>1, <2>2, <2>3 DEF Nodes, NotLoaded
<1> QED BY <1>1, <1>2

\* The inode in memory becomes s, with the volume w.
LEMMA LoadStep ==
    ASSUME SfsInv, NEW i \in Inodes, NEW w, Kept(View(i), w, OthersHold(i)),
           NEW s \in Nodes, s.din = w.din, s.dirty = w.dirty, s.ref > 0,
           freemap' = w.freemap, unused' = w.unused, entries' = w.entries,
           sin' = [sin EXCEPT ![i] = s], disk' = disk,
           file' \in [Fds -> [node : Inodes \cup {NULL}, pos : Nat, writable : BOOLEAN]],
           \A g \in Fds : file'[g].node = NULL => file'[g] = FD_NONE,
           NodesHeld'
    PROVE  SfsInv'
<1>1. /\ sin' \in [Inodes -> Nodes] /\ sin'[i] = s /\ \A j \in Inodes \ {i} : sin'[j] = sin[j]
  BY DEF SfsInv, SfsTypes, Nodes
<1>2. IsVolume(w)
  BY DEF Kept, Good
<1>3. SfsTypes'
  <2>1. \A j \in Inodes : sin'[j].ref = 0 => sin'[j] = NotLoaded
    BY <1>1 DEF SfsInv, SfsTypes
  <2> QED BY <1>1, <1>2, <2>1 DEF SfsInv, SfsTypes, IsVolume, Nodes
<1>4. StepOf(i, w)
  <2>1. View(i)'.din = w.din
    BY <1>1, <1>3, NextViewIs
  <2>2. w.din.blocks <= w.din.blocks
    BY <1>2 DEF IsVolume, Dinodes
  <2> QED BY <1>1, <2>1, <2>2 DEF StepOf
<1>5. MapsInv'
  BY <1>3, <1>4, MapsStep
<1>6. CachedInv'
  BY <1>1, <1>3, <1>4, CachedStep
<1> QED BY <1>3, <1>5, <1>6 DEF SfsInv

LEMMA OpenExclStep ==
    ASSUME SfsInv, NEW i \in Inodes, OpenExcl(i)
    PROVE  SfsInv'
<1> DEFINE s == Found(i)
           w == View(i)
<1>1. /\ sin' = [sin EXCEPT ![i] = s] /\ disk' = disk /\ file' = file
      /\ freemap' = freemap /\ unused' = unused /\ entries' = entries
  BY DEF OpenExcl, VolumeUnchanged
<1>2. /\ s \in Nodes /\ s.din = w.din /\ s.dirty = w.dirty
      /\ s.ref = sin[i].ref + 1 /\ s.open = sin[i].open /\ s.ref > 0 /\ sin[i].ref \in Nat
  BY FoundIs DEF SfsInv, SfsTypes
<1>3. /\ Kept(w, w, OthersHold(i)) /\ w.freemap = freemap /\ w.unused = unused /\ w.entries = entries
  BY ViewIs, FollowsItself DEF SfsInv, MapsInv, Kept
<1> HIDE DEF s, w
<1>4. sin \in [Inodes -> Nodes]
  BY DEF SfsInv, SfsTypes, Nodes
<1>5. NodesHeld'
  <2>1. \A j \in Inodes : sin'[j] = IF j = i THEN s ELSE sin[j]
    BY <1>1, <1>4
  <2>2. \A j \in Inodes : sin[j].ref \in Nat /\ sin[j].ref >= sin[j].ref
    BY <1>4 DEF Nodes
  <2>3. \A j \in Inodes : /\ sin'[j].open = sin[j].open /\ sin'[j].ref >= sin[j].ref
                          /\ sin'[j].ref \in Nat
    BY <1>2, <2>1, <2>2
  <2> QED BY <1>1, <2>3, NodesSame
<1>6. /\ file' \in [Fds -> [node : Inodes \cup {NULL}, pos : Nat, writable : BOOLEAN]]
      /\ \A g \in Fds : file'[g].node = NULL => file'[g] = FD_NONE
  BY <1>1 DEF SfsInv, SfsTypes
<1>7. Kept(View(i), w, OthersHold(i))
  BY <1>3 DEF w
<1> QED BY <1>1, <1>2, <1>3, <1>5, <1>6, <1>7, LoadStep

NodeSet(t, d, q) == [t EXCEPT !.din = d, !.dirty = q]
NodeMore(t) == [t EXCEPT !.ref = @ + 1, !.open = @ + 1]

LEMMA NodeFields ==
    ASSUME NEW t \in Nodes, NEW d \in Dinodes, NEW q \in BOOLEAN, NEW s, s = NodeSet(t, d, q)
    PROVE  s \in Nodes /\ s.din = d /\ s.dirty = q /\ s.ref = t.ref /\ s.open = t.open
<1>1. /\ t = [din |-> t.din, dirty |-> t.dirty, ref |-> t.ref, open |-> t.open]
      /\ t.ref \in Nat /\ t.open \in Nat
  BY DEF Nodes
<1>2. s = [din |-> d, dirty |-> q, ref |-> t.ref, open |-> t.open]
  BY <1>1 DEF NodeSet
<1> QED BY <1>1, <1>2 DEF Nodes

LEMMA NodeCounted ==
    ASSUME NEW t \in Nodes, NEW s, s = NodeMore(t)
    PROVE  /\ s \in Nodes /\ s.din = t.din /\ s.dirty = t.dirty
           /\ s.ref = t.ref + 1 /\ s.open = t.open + 1 /\ s.ref > 0
<1>1. /\ t = [din |-> t.din, dirty |-> t.dirty, ref |-> t.ref, open |-> t.open]
      /\ t.din \in Dinodes /\ t.dirty \in BOOLEAN /\ t.ref \in Nat /\ t.open \in Nat
  BY DEF Nodes
<1>2. s = [din |-> t.din, dirty |-> t.dirty, ref |-> t.ref + 1, open |-> t.open + 1]
  BY <1>1 DEF NodeMore
<1> QED BY <1>1, <1>2 DEF Nodes

LEMMA OpenStep ==
    ASSUME SfsInv, NEW f \in Fds, NEW i \in Inodes, NEW fl \in Flags, Open(f, i, fl)
    PROVE  SfsInv'
<1> DEFINE node == [Found(i) EXCEPT !.open = @ + 1]
           v == [Volume(i) EXCEPT !.din = node.din, !.dirty = node.dirty]
           w == IF {"O_CREAT", "O_TRUNC"} \cap fl # {} THEN Truncated(v, 0) ELSE v
           s == [node EXCEPT !.din = w.din, !.dirty = w.dirty]
           e == [node |-> i, writable |-> "O_RDWR" \in fl,
                 pos |-> IF "O_APPEND" \in fl THEN w.din.size ELSE 0]
<1>1. CASE {"O_CREAT", "O_TRUNC"} \cap fl # {} /\ TruncPanics(v, 0)
  <2>1. Panic("blocks")
    BY <1>1 DEF Open
  <2> QED BY <2>1, NothingStep DEF Panic
<1>2. CASE ~ ({"O_CREAT", "O_TRUNC"} \cap fl # {} /\ TruncPanics(v, 0))
  <2>1. /\ freemap' = w.freemap /\ unused' = w.unused /\ entries' = w.entries
        /\ sin' = [sin EXCEPT ![i] = s] /\ file' = [file EXCEPT ![f] = e]
        /\ disk' = disk /\ ~ IsOpen(f)
    BY <1>2 DEF Open
  <2>2. /\ node \in Nodes /\ node.din = View(i).din /\ node.dirty = View(i).dirty
        /\ node.ref = sin[i].ref + 1 /\ node.open = sin[i].open + 1
    BY FoundIs DEF Nodes
  <2> HIDE DEF node
  <2>3. v = View(i)
    BY <2>2 DEF View, Volume
  <2> HIDE DEF v
  <2>4. Kept(View(i), w, OthersHold(i))
    <3>1. Good(View(i), OthersHold(i)) /\ 0 \in Nat
      BY DEF SfsInv, MapsInv
    <3>2. Kept(View(i), Truncated(View(i), 0), OthersHold(i))
      BY <3>1, TruncatedKept
    <3> QED BY <2>3, <3>1, <3>2, FollowsItself DEF Kept
  <2> HIDE DEF w
  <2>5. w.din \in Dinodes /\ w.dirty \in BOOLEAN /\ w.din.size \in Nat
    BY <2>4 DEF Kept, Good, IsVolume, Dinodes
  <2>6. sin[i].ref \in Nat /\ sin[i].open \in Nat
    BY DEF SfsInv, SfsTypes
  <2>7. /\ s \in Nodes /\ s.din = w.din /\ s.dirty = w.dirty
        /\ s.ref = sin[i].ref + 1 /\ s.open = sin[i].open + 1 /\ s.ref > 0
    <3>1. s = NodeSet(node, w.din, w.dirty)
      BY DEF NodeSet
    <3> HIDE DEF s
    <3>2. s \in Nodes /\ s.din = w.din /\ s.dirty = w.dirty /\ s.ref = node.ref /\ s.open = node.open
      BY <2>2, <2>5, <3>1, NodeFields
    <3> QED BY <2>2, <2>6, <3>2
  <2>8. e \in [node : Inodes \cup {NULL}, pos : Nat, writable : BOOLEAN] /\ e.node = i
    BY <2>5
  <2> HIDE DEF s, e
  <2>9. /\ sin \in [Inodes -> Nodes]
        /\ file \in [Fds -> [node : Inodes \cup {NULL}, pos : Nat, writable : BOOLEAN]]
        /\ \A g \in Fds : file[g].node = NULL => file[g] = FD_NONE
    BY DEF SfsInv, SfsTypes, Nodes
  <2>10. /\ sin'[i] = s /\ \A j \in Inodes \ {i} : sin'[j] = sin[j]
         /\ file'[f] = e /\ \A g \in Fds \ {f} : file'[g] = file[g]
         /\ file' \in [Fds -> [node : Inodes \cup {NULL}, pos : Nat, writable : BOOLEAN]]
    BY <2>1, <2>8, <2>9
  <2>11. \A g \in Fds : file'[g].node = NULL => file'[g] = FD_NONE
    BY <2>8, <2>9, <2>10, FilesAssumption
  <2>12. NodesHeld'
    BY <2>1, <2>7, <2>8, <2>10, NodesOpened
  <2> QED BY <2>1, <2>4, <2>7, <2>10, <2>11, <2>12, LoadStep
<1> QED BY <1>1, <1>2

LEMMA DupStep ==
    ASSUME SfsInv, NEW f \in Fds, NEW g \in Fds, Dup(f, g), NEW i, i = Node(f)
    PROVE  SfsInv'
<1> DEFINE w == View(i)
           s == [sin[i] EXCEPT !.ref = @ + 1, !.open = @ + 1]
<1>1. /\ IsOpen(f) /\ ~ IsOpen(g) /\ file' = [file EXCEPT ![g] = file[f]]
      /\ sin' = [sin EXCEPT ![i] = s] /\ disk' = disk
      /\ freemap' = freemap /\ unused' = unused /\ entries' = entries
  BY DEF Dup, VolumeUnchanged
<1>2. i \in Inodes /\ sin[i].ref > 0
  BY <1>1, OpenNode
<1>3. /\ Kept(w, w, OthersHold(i)) /\ w.freemap = freemap /\ w.unused = unused /\ w.entries = entries
      /\ w.din = sin[i].din /\ w.dirty = sin[i].dirty
  BY <1>2, ViewIs, FollowsItself DEF SfsInv, MapsInv, Kept
<1>4. sin[i] \in Nodes /\ sin[i].ref \in Nat /\ sin[i].open \in Nat
  BY <1>2 DEF SfsInv, SfsTypes, Nodes
<1>5. /\ s \in Nodes /\ s.din = w.din /\ s.dirty = w.dirty
      /\ s.ref = sin[i].ref + 1 /\ s.open = sin[i].open + 1 /\ s.ref > 0
  <2>1. s = NodeMore(sin[i])
    BY DEF NodeMore
  <2> HIDE DEF s, w
  <2> QED BY <1>3, <1>4, <2>1, NodeCounted
<1>6. /\ sin \in [Inodes -> Nodes]
      /\ file \in [Fds -> [node : Inodes \cup {NULL}, pos : Nat, writable : BOOLEAN]]
      /\ \A h \in Fds : file[h].node = NULL => file[h] = FD_NONE
  BY DEF SfsInv, SfsTypes, Nodes
<1>7. Kept(View(i), w, OthersHold(i)) /\ file[f].node = i
  BY <1>3 DEF Node
<1> HIDE DEF s, w
<1>8. /\ sin'[i] = s /\ \A j \in Inodes \ {i} : sin'[j] = sin[j]
      /\ file'[g] = file[f] /\ \A h \in Fds \ {g} : file'[h] = file[h]
      /\ file' \in [Fds -> [node : Inodes \cup {NULL}, pos : Nat, writable : BOOLEAN]]
  BY <1>1, <1>2, <1>6
<1>9. \A h \in Fds : file'[h].node = NULL => file'[h] = FD_NONE
  BY <1>6, <1>8
<1>10. NodesHeld'
  BY <1>1, <1>2, <1>5, <1>7, <1>8, NodesOpened
<1> QED BY <1>1, <1>2, <1>3, <1>5, <1>7, <1>8, <1>9, <1>10, LoadStep

\* The inode is stored.
LEMMA StoredIs ==
    ASSUME SfsInv, NEW i \in Inodes, sin[i].ref > 0
    PROVE  /\ Stored(i) \in [Inodes -> Dinodes] /\ \A j \in Inodes \ {i} : Stored(i)[j] = disk[j]
           /\ Stored(i)[i].direct = sin[i].din.direct /\ Stored(i)[i].indirect = sin[i].din.indirect
           /\ Stored(i)[i].blocks <= sin[i].din.blocks
<1>1. sin[i].din \in Dinodes /\ disk \in [Inodes -> Dinodes]
  BY DEF SfsInv, SfsTypes
<1>2. CASE sin[i].dirty
  <2>1. Stored(i) = [disk EXCEPT ![i] = sin[i].din]
    BY <1>2 DEF Stored
  <2>2. sin[i].din.blocks <= sin[i].din.blocks
    BY <1>1 DEF Dinodes
  <2> QED BY <1>1, <2>1, <2>2
<1>3. CASE ~ sin[i].dirty
  BY <1>1, <1>3 DEF Stored, SfsInv, CachedInv
<1> QED BY <1>2, <1>3

LEMMA FsyncStep ==
    ASSUME SfsInv, NEW f \in Fds, Fsync(f), NEW i, i = Node(f)
    PROVE  SfsInv'
<1> DEFINE w == View(i)
           s == [sin[i] EXCEPT !.dirty = FALSE]
<1>1. /\ IsOpen(f) /\ file' = file /\ sin' = [sin EXCEPT ![i] = s] /\ disk' = Stored(i)
      /\ freemap' = freemap /\ unused' = unused /\ entries' = entries
  BY DEF Fsync, VolumeUnchanged
<1>2. i \in Inodes /\ sin[i].ref > 0
  BY <1>1, OpenNode
<1>3. /\ Kept(View(i), w, OthersHold(i)) /\ w.freemap = freemap /\ w.unused = unused
      /\ w.entries = entries /\ w.din = sin[i].din /\ w.din \in Dinodes
  BY <1>2, ViewIs, FollowsItself DEF SfsInv, SfsTypes, MapsInv, Kept
<1>4. /\ sin \in [Inodes -> Nodes] /\ \A j \in Inodes : sin[j].ref = 0 => sin[j] = NotLoaded
  BY DEF SfsInv, SfsTypes, Nodes
<1>5. /\ s \in Nodes /\ s.din = sin[i].din /\ s.dirty = FALSE
      /\ s.ref = sin[i].ref /\ s.open = sin[i].open
  BY <1>2, <1>4 DEF Nodes
<1> HIDE DEF s, w
<1>6. /\ sin' \in [Inodes -> Nodes] /\ sin'[i] = s /\ \A j \in Inodes \ {i} : sin'[j] = sin[j]
  BY <1>1, <1>2, <1>4, <1>5
<1>7. /\ disk' \in [Inodes -> Dinodes] /\ \A j \in Inodes \ {i} : disk'[j] = disk[j]
      /\ disk'[i].direct = sin[i].din.direct /\ disk'[i].indirect = sin[i].din.indirect
      /\ disk'[i].blocks <= sin[i].din.blocks
  BY <1>1, <1>2, StoredIs
<1>8. SfsTypes'
  <2>1. \A j \in Inodes : sin'[j].ref = 0 => sin'[j] = NotLoaded
    BY <1>2, <1>4, <1>5, <1>6
  <2> QED BY <1>1, <1>6, <1>7, <2>1 DEF SfsInv, SfsTypes, Nodes
<1>9. StepOf(i, w)
  <2>1. View(i)'.din = w.din
    <3>1. View(i)'.din = sin'[i].din
      BY <1>2, <1>5, <1>6, <1>8, NextViewIs
    <3> QED BY <1>3, <1>5, <1>6, <3>1
  <2>2. w.din.blocks <= w.din.blocks
    BY <1>3 DEF Dinodes
  <2> QED BY <1>1, <1>3, <1>6, <1>7, <2>1, <2>2 DEF StepOf
<1>10. MapsInv'
  BY <1>2, <1>8, <1>9, MapsStep
<1>11. CachedInv'
  BY <1>5, <1>6, <1>7 DEF SfsInv, CachedInv
<1>12. NodesHeld'
  <2>1. \A j \in Inodes : /\ sin'[j].open = sin[j].open /\ sin'[j].ref = sin[j].ref
                          /\ sin'[j].ref \in Nat
    BY <1>4, <1>5, <1>6 DEF Nodes
  <2>2. \A j \in Inodes : sin'[j].ref >= sin[j].ref
    BY <2>1
  <2> QED BY <1>1, <2>1, <2>2, NodesSame
<1> QED BY <1>8, <1>10, <1>11, <1>12 DEF SfsInv

NodeLess(t) == [t EXCEPT !.ref = @ - 1, !.open = @ - 1, !.dirty = @ /\ t.open > 1]

LEMMA NodeReleased ==
    ASSUME NEW t \in Nodes, t.ref > 0, t.open > 0, NEW s, s = NodeLess(t)
    PROVE  /\ s \in Nodes /\ s.din = t.din /\ s.dirty = (t.dirty /\ t.open > 1)
           /\ s.ref = t.ref - 1 /\ s.open = t.open - 1
<1>1. /\ t = [din |-> t.din, dirty |-> t.dirty, ref |-> t.ref, open |-> t.open]
      /\ t.din \in Dinodes /\ t.dirty \in BOOLEAN /\ t.ref \in Nat /\ t.open \in Nat
  BY DEF Nodes
<1> DEFINE q == t.dirty /\ t.open > 1
<1>2. s = [t EXCEPT !.ref = @ - 1, !.open = @ - 1, !.dirty = q]
  BY DEF NodeLess
<1>3. q \in BOOLEAN
  OBVIOUS
<1> HIDE DEF q
<1>4. s = [din |-> t.din, dirty |-> q, ref |-> t.ref - 1, open |-> t.open - 1]
  BY <1>1, <1>2
<1>5. /\ s.din = t.din /\ s.dirty = q /\ s.ref = t.ref - 1 /\ s.open = t.open - 1
  BY <1>4
<1>6. s \in Nodes
  BY <1>1, <1>3, <1>4 DEF Nodes
<1> QED BY <1>5, <1>6 DEF q

\* The inode that nobody holds any more is read from the disk from now on.
LEMMA CloseStep ==
    ASSUME SfsInv, NEW f \in Fds, Close(f), NEW i, i = Node(f)
    PROVE  SfsInv'
<1> DEFINE t == sin[i]
           left == NodeLess(t)
           s == IF left.ref = 0 THEN NotLoaded ELSE left
           w == View(i)
<1>1. /\ IsOpen(f) /\ file' = [file EXCEPT ![f] = FD_NONE] /\ sin' = [sin EXCEPT ![i] = s]
      /\ disk' = (IF t.open = 1 \/ t.ref = 1 THEN Stored(i) ELSE disk)
      /\ freemap' = freemap /\ unused' = unused /\ entries' = entries
  BY DEF Close, VolumeUnchanged, NodeLess
<1>2. i \in Inodes /\ t.ref > 0 /\ t.open > 0
  BY <1>1, OpenNode
<1>3. /\ Kept(View(i), w, OthersHold(i)) /\ w.freemap = freemap /\ w.unused = unused
      /\ w.entries = entries /\ w.din = t.din /\ w.din \in Dinodes
  BY <1>2, ViewIs, FollowsItself DEF SfsInv, SfsTypes, MapsInv, Kept
<1>4. /\ sin \in [Inodes -> Nodes] /\ \A j \in Inodes : sin[j].ref = 0 => sin[j] = NotLoaded
      /\ t \in Nodes /\ t.ref \in Nat /\ t.open \in Nat /\ t.ref >= t.open /\ disk \in [Inodes -> Dinodes]
  BY <1>2, HoldingIs DEF SfsInv, SfsTypes, Nodes
<1> HIDE DEF left
<1>5. /\ left \in Nodes /\ left.din = t.din /\ left.dirty = (t.dirty /\ t.open > 1)
      /\ left.ref = t.ref - 1 /\ left.open = t.open - 1
  <2> HIDE DEF t
  <2> QED BY <1>2, <1>4, NodeReleased DEF left
<1>6. NotLoaded \in Nodes /\ NotLoaded.ref = 0 /\ NotLoaded.open = 0
  <2>1. EmptyFile \in Dinodes
    BY SfsNumbers DEF EmptyFile, Dinodes, Ptr
  <2> QED BY <2>1 DEF NotLoaded, Nodes
<1>7. /\ s \in Nodes /\ s.ref = t.ref - 1 /\ s.open = t.open - 1 /\ (s.ref = 0 => s = NotLoaded)
      /\ s.ref > 0 => s = left
  <2> HIDE DEF t
  <2> QED BY <1>2, <1>4, <1>5, <1>6
<1> HIDE DEF s, w
<1>8. /\ sin' \in [Inodes -> Nodes] /\ sin'[i] = s /\ \A j \in Inodes \ {i} : sin'[j] = sin[j]
  BY <1>1, <1>2, <1>4, <1>7
<1>9. /\ disk' \in [Inodes -> Dinodes] /\ \A j \in Inodes \ {i} : disk'[j] = disk[j]
      /\ t.open = 1 \/ t.ref = 1 =>
            /\ disk'[i].direct = t.din.direct /\ disk'[i].indirect = t.din.indirect
            /\ disk'[i].blocks <= t.din.blocks
      /\ ~ (t.open = 1 \/ t.ref = 1) => disk' = disk
  <2>1. CASE t.open = 1 \/ t.ref = 1
    BY <1>1, <1>2, <2>1, StoredIs
  <2>2. CASE ~ (t.open = 1 \/ t.ref = 1)
    BY <1>1, <1>4, <2>2
  <2> QED BY <2>1, <2>2
<1>10. /\ file' \in [Fds -> [node : Inodes \cup {NULL}, pos : Nat, writable : BOOLEAN]]
       /\ file'[f] = FD_NONE /\ \A g \in Fds \ {f} : file'[g] = file[g]
       /\ \A g \in Fds : file'[g].node = NULL => file'[g] = FD_NONE
  BY <1>1 DEF SfsInv, SfsTypes, FD_NONE
<1>11. SfsTypes'
  <2>1. \A j \in Inodes : sin'[j].ref = 0 => sin'[j] = NotLoaded
    BY <1>2, <1>4, <1>7, <1>8
  <2> QED BY <1>1, <1>8, <1>9, <1>10, <2>1 DEF SfsInv, SfsTypes, Nodes
<1>12. StepOf(i, w)
  <2>1. /\ View(i)'.din.direct = w.din.direct /\ View(i)'.din.indirect = w.din.indirect
        /\ View(i)'.din.blocks <= w.din.blocks
    <3>1. View(i)'.din = IF sin'[i].ref > 0 THEN sin'[i].din ELSE disk'[i]
      BY <1>2, <1>11, NextViewIs
    <3>2. CASE s.ref > 0
      <4>1. View(i)'.din = w.din
        BY <1>3, <1>5, <1>7, <1>8, <3>1, <3>2
      <4>2. w.din.blocks <= w.din.blocks
        BY <1>3 DEF Dinodes
      <4> QED BY <4>1, <4>2
    <3>3. CASE ~ (s.ref > 0)
      <4>1. View(i)'.din = disk'[i]
        BY <1>8, <3>1, <3>3
      <4>2. t.ref = 1
        BY <1>2, <1>4, <1>7, <3>3
      <4> QED BY <1>3, <1>9, <4>1, <4>2
    <3> QED BY <3>2, <3>3
  <2> QED BY <1>1, <1>3, <1>8, <1>9, <2>1 DEF StepOf
<1>13. MapsInv'
  BY <1>2, <1>11, <1>12, MapsStep
<1>14. CachedInv'
  <2> SUFFICES ASSUME NEW j \in Inodes, sin'[j].ref > 0, ~ sin'[j].dirty
               PROVE  /\ disk'[j].direct = sin'[j].din.direct /\ disk'[j].indirect = sin'[j].din.indirect
                      /\ disk'[j].blocks <= sin'[j].din.blocks
    BY DEF CachedInv
  <2>1. CASE j # i
    <3>1. sin'[j] = sin[j] /\ disk'[j] = disk[j]
      BY <1>8, <1>9, <2>1
    <3> QED BY <3>1 DEF SfsInv, CachedInv
  <2>2. CASE j = i
    <3>1. sin'[i] = left /\ sin'[i].din = t.din /\ ~ (t.dirty /\ t.open > 1)
      BY <1>5, <1>7, <1>8, <2>2
    <3>2. CASE t.open = 1
      BY <1>9, <2>2, <3>1, <3>2
    <3>3. CASE t.open # 1
      <4>1. ~ t.dirty /\ t.ref # 1
        BY <1>2, <1>4, <3>1, <3>3
      <4>2. disk' = disk
        BY <1>9, <3>3, <4>1
      <4>3. /\ disk[i].direct = sin[i].din.direct /\ disk[i].indirect = sin[i].din.indirect
            /\ disk[i].blocks <= sin[i].din.blocks
        BY <1>2, <4>1 DEF SfsInv, CachedInv
      <4> QED BY <2>2, <3>1, <4>2, <4>3
    <3> QED BY <3>2, <3>3
  <2> QED BY <2>1, <2>2
<1>15. NodesHeld'
  <2>1. file'[f].node = NULL
    BY <1>10 DEF FD_NONE
  <2>2. sin'[i].open = sin[i].open - 1 /\ sin'[i].ref = sin[i].ref - 1
    BY <1>7, <1>8
  <2> QED BY <1>1, <1>8, <1>10, <2>1, <2>2, NodesClosed
<1> QED BY <1>11, <1>13, <1>14, <1>15 DEF SfsInv

LEMMA PosIs ==
    ASSUME SfsInv, NEW f \in Fds, IsOpen(f), NEW i, i = Node(f)
    PROVE  /\ file[f].pos \in Nat /\ i \in Inodes /\ Good(Volume(i), OthersHold(i))
           /\ Volume(i).din = sin[i].din /\ sin[i].din.size \in Nat
<1>1. i \in Inodes /\ View(i) = Volume(i)
  BY OpenNode
<1>2. Good(Volume(i), OthersHold(i))
  BY <1>1 DEF SfsInv, MapsInv
<1>3. Volume(i).din = sin[i].din
  BY DEF Volume
<1> QED BY <1>1, <1>2, <1>3 DEF SfsInv, SfsTypes, Dinodes

\* file_read and file_write come to this.
LEMMA TransferStep ==
    ASSUME SfsInv, NEW f \in Fds, IsOpen(f), NEW i, i = Node(f), NEW p, p = file[f].pos,
           NEW len \in Nat, NEW u, NEW r, r = Io(Volume(i), p, len, u),
           ~ IoPanics(Volume(i), p), Install(r.v, i), disk' = disk,
           file' = [file EXCEPT ![f].pos = @ + r.alen]
    PROVE  SfsInv'
<1>1. p \in Nat /\ i \in Inodes /\ Good(Volume(i), OthersHold(i))
  BY PosIs
<1>2. Kept(Volume(i), r.v, OthersHold(i)) /\ r.alen \in Nat
  BY <1>1, IoKept
<1> DEFINE q == p + r.alen
<1>3. q \in Nat /\ file' = [file EXCEPT ![f].pos = q]
  BY <1>1, <1>2
<1> HIDE DEF q
<1> QED BY <1>2, <1>3, InstallStep

LEMMA WriteStep ==
    ASSUME SfsInv, NEW f \in Fds, NEW u \in SeqOf(Values, BLKSIZE), Write(f, u)
    PROVE  SfsInv'
<1> DEFINE i == Node(f)
           p == file[f].pos
           len == Min({Len(u), MaxFileSize - p})
           r == Io(Volume(i), p, len, u)
<1>1. CASE IoPanics(Volume(i), p)
  <2>1. Panic("index")
    BY <1>1 DEF Write
  <2> QED BY <2>1, NothingStep DEF Panic
<1>2. CASE ~ IoPanics(Volume(i), p)
  <2>1. /\ IsOpen(f) /\ p < MaxFileSize /\ Install(r.v, i) /\ disk' = disk
        /\ file' = [file EXCEPT ![f].pos = @ + r.alen]
    BY <1>2 DEF Write
  <2>2. p \in Nat
    BY <2>1, PosIs
  <2>3. Len(u) \in Nat
    BY SfsNumbers DEF SeqOf
  <2>4. MaxFileSize - p \in Nat
    BY <2>1, <2>2, SfsNumbers
  <2>5. len \in Nat
    BY <2>3, <2>4, LeastOfTwo
  <2> HIDE DEF len
  <2> QED BY <1>2, <2>1, <2>5, TransferStep
<1> QED BY <1>1, <1>2

LEMMA ReadStep ==
    ASSUME SfsInv, NEW f \in Fds, NEW n \in 1..BLKSIZE, Read(f, n)
    PROVE  SfsInv'
<1> DEFINE i == Node(f)
           p == file[f].pos
           len == Min({n, sin[i].din.size - p})
           r == Io(Volume(i), p, len, << >>)
<1>1. CASE IoPanics(Volume(i), p)
  <2>1. Panic("index")
    BY <1>1 DEF Read
  <2> QED BY <2>1, NothingStep DEF Panic
<1>2. CASE ~ IoPanics(Volume(i), p)
  <2>1. /\ IsOpen(f) /\ p < sin[i].din.size /\ Install(r.v, i) /\ disk' = disk
        /\ file' = [file EXCEPT ![f].pos = @ + r.alen]
    BY <1>2 DEF Read
  <2>2. p \in Nat /\ sin[i].din.size \in Nat
    BY <2>1, PosIs
  <2>3. n \in Nat /\ sin[i].din.size - p \in Nat
    BY <2>1, <2>2
  <2>4. len \in Nat
    BY <2>3, LeastOfTwo
  <2> HIDE DEF len
  <2> QED BY <1>2, <2>1, <2>4, TransferStep
<1> QED BY <1>1, <1>2

LEMMA SeekStep ==
    ASSUME SfsInv, NEW f \in Fds, NEW p \in Positions, Seek(f, p), NEW i, i = Node(f)
    PROVE  SfsInv'
<1> DEFINE v == Volume(i)
           w == IF p > v.din.size THEN Truncated(v, p) ELSE v
           q == IF w.din.size >= p THEN p ELSE file[f].pos
<1>1. /\ IsOpen(f) /\ Install(w, i) /\ disk' = disk
      /\ file' = IF w.din.size >= p THEN [file EXCEPT ![f].pos = p] ELSE file
  BY DEF Seek
<1>2. file[f].pos \in Nat /\ i \in Inodes /\ Good(v, OthersHold(i)) /\ p \in Nat
  BY <1>1, PosIs, PositionsAssumption
<1> HIDE DEF v
<1>3. Kept(v, w, OthersHold(i))
  BY <1>2, TruncatedKept, FollowsItself DEF Kept
<1> HIDE DEF w
<1>4. q \in Nat
  BY <1>2
<1>5. file' = [file EXCEPT ![f].pos = q]
  <2>1. file = [file EXCEPT ![f].pos = file[f].pos]
    <3>1. /\ file \in [Fds -> [node : Inodes \cup {NULL}, pos : Nat, writable : BOOLEAN]]
      BY DEF SfsInv, SfsTypes
    <3> QED BY <3>1
  <2> QED BY <1>1, <2>1
<1> HIDE DEF q
<1> QED BY <1>1, <1>3, <1>4, <1>5, InstallStep DEF v

LEMMA SfsInvNext == SfsInv /\ [Next]_vars => SfsInv'
<1> SUFFICES ASSUME SfsInv, [Next]_vars PROVE SfsInv'
  OBVIOUS
<1>1. ASSUME NEW i \in Inodes, OpenExcl(i) PROVE SfsInv'
  BY <1>1, OpenExclStep
<1>2. ASSUME NEW f \in Fds, NEW i \in Inodes, NEW fl \in Flags, Open(f, i, fl) PROVE SfsInv'
  BY <1>2, OpenStep
<1>3. ASSUME NEW f \in Fds, NEW g \in Fds, Dup(f, g) PROVE SfsInv'
  BY <1>3, DupStep
<1>4. ASSUME NEW f \in Fds, Fsync(f) PROVE SfsInv'
  BY <1>4, FsyncStep
<1>5. ASSUME NEW f \in Fds, Close(f) PROVE SfsInv'
  BY <1>5, CloseStep
<1>6. ASSUME NEW f \in Fds, NEW u \in SeqOf(Values, BLKSIZE), Write(f, u) PROVE SfsInv'
  BY <1>6, WriteStep
<1>7. ASSUME NEW f \in Fds, NEW n \in 1..BLKSIZE, Read(f, n) PROVE SfsInv'
  BY <1>7, ReadStep
<1>8. ASSUME NEW f \in Fds, NEW p \in Positions, Seek(f, p) PROVE SfsInv'
  BY <1>8, SeekStep
<1>9. CASE UNCHANGED vars
  BY <1>9, NothingStep DEF vars
<1> QED BY <1>1, <1>2, <1>3, <1>4, <1>5, <1>6, <1>7, <1>8, <1>9 DEF Next

\* The freemap, the block maps in memory and on disk and the count of the super block
\* agree: each block is free or belongs to one place of one file, and no block of a file
\* is missing, whatever calls have failed for want of a block, in sfs_bmap_load_nolock
\* and sfs_truncfile, and whatever inodes sfs_reclaim has dropped.
THEOREM SfsSound == Spec => []BlocksExact
<1>1. Spec => []SfsInv
  BY SfsInvInit, SfsInvNext, PTL DEF Spec
<1> QED BY <1>1, SfsInvExact, PTL

\* vfs_open, fd_array_dup and vfs_close count an inode once for every entry that holds
\* it, and sfs_reclaim never drops one that an entry holds.
THEOREM NodesCounted == Spec => []NodesHeld
<1>1. Spec => []SfsInv
  BY SfsInvInit, SfsInvNext, PTL DEF Spec
<1>2. SfsInv => NodesHeld
  BY DEF SfsInv
<1> QED BY <1>1, <1>2, PTL
================================================================================
