---------------------------------- MODULE Sfs ----------------------------------
(***************************************************************************)
(* Regular files of the Simple FS and the open-file tables above them: the *)
(* freemap, the block map of an inode (direct blocks and one table of      *)
(* entries), the inodes in memory with their reference and open counts and *)
(* dirty flags, and file_open, file_read, file_write, file_seek,           *)
(* file_fsync, file_dup and file_close.                                    *)
(* The kernel is not switched out inside these calls and the disk is a     *)
(* part of memory, so each call is one step; sysfile_read and              *)
(* sysfile_write make one file_read or file_write per block (IOBUF_SIZE =  *)
(* SFS_BLKSIZE), so one of those touches two blocks at most.               *)
(***************************************************************************)
EXTENDS Integers, FiniteSets, FiniteSetsExt, Sequences, SequencesExt

CONSTANTS
    Inodes,         \* the regular files of the image; no call makes or unlinks one
    Fds,            \* entries of all open-file tables
    Blocks,         \* data blocks of the image
    NDIRECT,        \* SFS_NDIRECT
    NENTRY,         \* SFS_BLK_NENTRY
    BLKSIZE,        \* SFS_BLKSIZE in units
    MaxFileSize,    \* SFS_MAX_FILE_SIZE
    Values,         \* what may be written to a unit
    Positions,      \* bound: the positions of lseek
    Flags,          \* bound: the combinations of open flags that are used
    MaxLeaks,       \* bound: references that failed opens may leave behind
    NULL

ASSUME BlocksAssumption == Blocks \subseteq Nat \ {0} /\ IsFiniteSet(Blocks)
\* sfs.img (480 kB) holds fewer blocks than one inode can map.
ASSUME ImageAssumption ==
    NDIRECT \in Nat /\ NENTRY \in Nat /\ Cardinality(Blocks) < NDIRECT + NENTRY
ASSUME FilesAssumption == NULL \notin Inodes /\ IsFiniteSet(Fds)
\* sfs_tryseek refuses a position below 0.
ASSUME PositionsAssumption == Positions \subseteq Nat
ASSUME SizeAssumption == BLKSIZE \in Nat \ {0} /\ MaxFileSize \in Nat \ {0}

VARIABLES
    freemap,    \* blocks marked free
    unused,     \* super.unused_blocks
    entries,    \* entries[b]: block b read as a table of entries
    data,       \* data[b]: block b read as units
    disk,       \* disk[i]: the stored sfs_disk_inode
    sin,        \* sin[i]: the inode in memory, its ref 0 when there is none
    file,       \* the open-file entries
    panic,      \* the assertion that stopped the kernel, or "none"
    nospace     \* history: a call has failed for want of a block

vars == <<freemap, unused, entries, data, disk, sin, file, panic, nospace>>

Index == 0..(NDIRECT + NENTRY - 1)

NoEntries == [k \in 0..(NENTRY - 1) |-> 0]
ZeroBlock == [k \in 0..(BLKSIZE - 1) |-> 0]
EmptyFile == [size |-> 0, blocks |-> 0, direct |-> [k \in 0..(NDIRECT - 1) |-> 0], indirect |-> 0]
NotLoaded == [din |-> EmptyFile, dirty |-> FALSE, ref |-> 0, open |-> 0]
FD_NONE == [node |-> NULL, pos |-> 0, writable |-> FALSE]

\* The image holds empty files; every other content is written through the calls.
Init ==
    /\ freemap = Blocks
    /\ unused = Cardinality(Blocks)
    /\ entries = [b \in Blocks |-> NoEntries]
    /\ data = [b \in Blocks |-> ZeroBlock]
    /\ disk = [i \in Inodes |-> EmptyFile]
    /\ sin = [i \in Inodes |-> NotLoaded]
    /\ file = [f \in Fds |-> FD_NONE]
    /\ panic = "none"
    /\ nospace = FALSE

-----------------------------------------------------------------------------
(* The block map.  A volume v is the freemap, the blocks and one inode in   *)
(* memory.                                                                  *)

Volume(i) == [freemap |-> freemap, unused |-> unused, entries |-> entries, data |-> data,
              din |-> sin[i].din, dirty |-> sin[i].dirty, nospace |-> nospace]

\* sfs_bmap_get_nolock with create = 0
Pointer(v, k) ==
    CASE k < NDIRECT -> v.din.direct[k]
      [] k >= NDIRECT /\ v.din.indirect # 0 -> v.entries[v.din.indirect][k - NDIRECT]
      [] OTHER -> 0

\* Mutant: the block is not cleared.
AllocatedDirty(v) == [v EXCEPT !.freemap = @ \ {Min(@)}, !.unused = @ - 1]

\* sfs_block_alloc: bitmap_alloc takes the lowest free block.
Allocated(v) ==
    LET b == Min(v.freemap) IN
    [v EXCEPT !.freemap = @ \ {b}, !.unused = @ - 1,
              !.entries[b] = NoEntries, !.data[b] = ZeroBlock]

\* sfs_block_free
Released(v, b) == [v EXCEPT !.freemap = @ \cup {b}, !.unused = @ + 1]

\* the blocks sfs_bmap_get_nolock has to allocate for index k
Needed(v, k) ==
    CASE Pointer(v, k) # 0 -> 0
      [] Pointer(v, k) = 0 /\ (k < NDIRECT \/ v.din.indirect # 0) -> 1
      [] OTHER -> 2

Mapped(v, k) ==
    LET b == Min(v.freemap)  w == Allocated(v)  c == Min(w.freemap) IN
    CASE Needed(v, k) = 0 -> v
      [] k < NDIRECT /\ Needed(v, k) = 1 -> [w EXCEPT !.din.direct[k] = b, !.dirty = TRUE]
      [] k >= NDIRECT /\ Needed(v, k) = 1 -> [w EXCEPT !.entries[v.din.indirect][k - NDIRECT] = b]
      [] OTHER -> [Allocated(w) EXCEPT !.entries[b][k - NDIRECT] = c,
                                       !.din.indirect = b, !.dirty = TRUE]

\* sfs_bmap_load_nolock returns 0: the next block is made when it is missing.
Loads(v, k) == k < v.din.blocks \/ Needed(v, k) <= Cardinality(v.freemap)

Loaded(v, k) ==
    IF k < v.din.blocks THEN v ELSE [Mapped(v, k) EXCEPT !.din.blocks = @ + 1]

\* Mutant: the entry of the freed block is left in the table.
LastFreedKeeps(v) ==
    LET k == v.din.blocks - 1
        w == IF Pointer(v, k) = 0 THEN v ELSE Released(v, Pointer(v, k))
    IN  [(IF k < NDIRECT THEN [w EXCEPT !.din.direct[k] = 0] ELSE w)
            EXCEPT !.din.blocks = k, !.dirty = TRUE]

\* sfs_bmap_truncate_nolock
LastFreed(v) ==
    LET k == v.din.blocks - 1
        b == Pointer(v, k)
        w == IF b = 0 THEN v ELSE Released(v, b)
        x == CASE b = 0 -> w
               [] k < NDIRECT -> [w EXCEPT !.din.direct[k] = 0]
               [] OTHER -> [w EXCEPT !.entries[v.din.indirect][k - NDIRECT] = 0]
    IN  [x EXCEPT !.din.blocks = k, !.dirty = TRUE]

\* the loops of sfs_truncfile; the first stops when no block is free
Grown(v, n) ==
    LET g[k \in 0..n] ==
            IF k = 0 THEN v
            ELSE LET w == g[k - 1] IN
                 IF Loads(w, w.din.blocks) THEN Loaded(w, w.din.blocks)
                 ELSE [w EXCEPT !.nospace = TRUE]
    IN  g[n]

Shrunk(v, n) == LET g[k \in 0..n] == IF k = 0 THEN v ELSE LastFreed(g[k - 1]) IN g[n]

BlocksFor(len) == (len + BLKSIZE - 1) \div BLKSIZE

\* sfs_truncfile asserts the block count when the size stays.
TruncPanics(v, len) == v.din.size = len /\ BlocksFor(len) # v.din.blocks

Truncated(v, len) ==
    LET old == v.din.blocks
        new == BlocksFor(len)
        w == IF old < new THEN Grown(v, new - old) ELSE Shrunk(v, old - new)
    IN  CASE v.din.size = len -> v
          [] v.din.size # len /\ w.din.blocks # new -> w
          [] OTHER -> [w EXCEPT !.din.size = len, !.dirty = TRUE]

-----------------------------------------------------------------------------
(* sfs_io_nolock                                                            *)

\* the pieces of blocks that len units from off lie in
Parts(off, len) ==
    LET head == Min({len, BLKSIZE - (off % BLKSIZE)})
        first == [blk |-> off \div BLKSIZE, off |-> off % BLKSIZE, n |-> head]
        rest == [blk |-> off \div BLKSIZE + 1, off |-> 0, n |-> len - head]
    IN  IF head = len THEN <<first>> ELSE <<first, rest>>

\* One piece: sfs_bmap_load_nolock, then sfs_wbuf or sfs_wblock with the units u,
\* or a read when u is empty.  A piece that finds no block ends the call.
PartDone(r, p, u) ==
    IF r.ended THEN r
    ELSE IF ~ Loads(r.v, p.blk) THEN [r EXCEPT !.ended = TRUE, !.v.nospace = TRUE]
    ELSE LET w == Loaded(r.v, p.blk)
             b == Pointer(w, p.blk)
             new == [k \in 0..(BLKSIZE - 1) |->
                        IF k >= p.off /\ k < p.off + p.n THEN u[r.alen + k - p.off + 1] ELSE w.data[b][k]]
         IN  [v |-> IF u = << >> THEN w ELSE [w EXCEPT !.data[b] = new],
              alen |-> r.alen + p.n, ended |-> FALSE]

\* sfs_bmap_load_nolock asserts index <= blocks.
IoPanics(v, off) == off \div BLKSIZE > v.din.blocks

\* The size is raised at out:, after failures too.
Io(v, off, len, u) ==
    LET parts == Parts(off, len)
        one == PartDone([v |-> v, alen |-> 0, ended |-> FALSE], parts[1], u)
        r == IF Len(parts) = 1 THEN one ELSE PartDone(one, parts[2], u)
        end == off + r.alen
    IN  IF end > v.din.size
        THEN [r EXCEPT !.v.din.size = end, !.v.dirty = TRUE]
        ELSE r

-----------------------------------------------------------------------------
(* The calls                                                                *)

Alive == panic = "none"

Panic(why) ==
    /\ panic' = why
    /\ UNCHANGED <<freemap, unused, entries, data, disk, sin, file, nospace>>

\* The volume v becomes the state, node i with it.
Install(v, i) ==
    /\ freemap' = v.freemap /\ unused' = v.unused
    /\ entries' = v.entries /\ data' = v.data /\ nospace' = v.nospace
    /\ sin' = [sin EXCEPT ![i].din = v.din, ![i].dirty = v.dirty]
    /\ UNCHANGED panic

VolumeUnchanged == UNCHANGED <<freemap, unused, entries, data, panic, nospace>>

\* sfs_load_inode: the inode in memory, or the stored one
Found(i) ==
    IF sin[i].ref > 0 THEN [sin[i] EXCEPT !.ref = @ + 1]
    ELSE [din |-> disk[i], dirty |-> FALSE, ref |-> 1, open |-> 0]

IsOpen(f) == file[f] # FD_NONE
Node(f) == file[f].node

\* vfs_open gives up on a file that exists when it is to be made.
OpenExcl(i) ==
    /\ Alive
    /\ \E fl \in Flags : {"O_CREAT", "O_EXCL"} \subseteq fl
    /\ \E f \in Fds : ~ IsOpen(f)
    /\ MapThenSumSet(LAMBDA j : sin[j].ref - sin[j].open, Inodes) < MaxLeaks
    /\ sin' = [sin EXCEPT ![i] = Found(i)]
    /\ VolumeUnchanged /\ UNCHANGED <<disk, file>>

\* file_open of an existing file: O_CREAT truncates it too.
Open(f, i, fl) ==
    LET node == [Found(i) EXCEPT !.open = @ + 1]
        v == [Volume(i) EXCEPT !.din = node.din, !.dirty = node.dirty]
        w == IF {"O_CREAT", "O_TRUNC"} \cap fl # {} THEN Truncated(v, 0) ELSE v
    IN  /\ Alive
        /\ ~ IsOpen(f)
        /\ ~ {"O_CREAT", "O_EXCL"} \subseteq fl
        /\ "O_TRUNC" \in fl => "O_RDWR" \in fl
        /\ IF {"O_CREAT", "O_TRUNC"} \cap fl # {} /\ TruncPanics(v, 0)
           THEN Panic("blocks")
           ELSE /\ freemap' = w.freemap /\ unused' = w.unused
                /\ entries' = w.entries /\ data' = w.data
                /\ sin' = [sin EXCEPT ![i] = [node EXCEPT !.din = w.din, !.dirty = w.dirty]]
                /\ file' = [file EXCEPT ![f] =
                              [node |-> i, writable |-> "O_RDWR" \in fl,
                               pos |-> IF "O_APPEND" \in fl THEN w.din.size ELSE 0]]
                /\ UNCHANGED <<disk, panic, nospace>>

\* Mutant: fd_array_dup takes a reference and does not count the open.
DupUncounted(f, g) ==
    /\ Alive
    /\ IsOpen(f) /\ ~ IsOpen(g)
    /\ file' = [file EXCEPT ![g] = file[f]]
    /\ sin' = [sin EXCEPT ![Node(f)].ref = @ + 1]
    /\ VolumeUnchanged /\ UNCHANGED disk

\* fd_array_dup, in file_dup and for every entry in dup_files
Dup(f, g) ==
    /\ Alive
    /\ IsOpen(f) /\ ~ IsOpen(g)
    /\ file' = [file EXCEPT ![g] = file[f]]
    /\ sin' = [sin EXCEPT ![Node(f)].ref = @ + 1, ![Node(f)].open = @ + 1]
    /\ VolumeUnchanged /\ UNCHANGED disk

\* sfs_fsync
Stored(i) == IF sin[i].dirty THEN [disk EXCEPT ![i] = sin[i].din] ELSE disk

Fsync(f) ==
    /\ Alive
    /\ IsOpen(f)
    /\ disk' = Stored(Node(f))
    /\ sin' = [sin EXCEPT ![Node(f)].dirty = FALSE]
    /\ VolumeUnchanged /\ UNCHANGED file

\* vfs_close: the last close stores the inode; sfs_reclaim, when nobody holds
\* it, stores it if it is dirty and drops it.
Close(f) ==
    LET i == Node(f)
        s == sin[i]
        left == [s EXCEPT !.ref = @ - 1, !.open = @ - 1, !.dirty = @ /\ s.open > 1]
    IN  /\ Alive
        /\ IsOpen(f)
        /\ file' = [file EXCEPT ![f] = FD_NONE]
        /\ disk' = IF s.open = 1 \/ s.ref = 1 THEN Stored(i) ELSE disk
        /\ sin' = [sin EXCEPT ![i] = IF left.ref = 0 THEN NotLoaded ELSE left]
        /\ VolumeUnchanged

Write(f, u) ==
    LET i == Node(f)
        p == file[f].pos
        len == Min({Len(u), MaxFileSize - p})
        r == Io(Volume(i), p, len, u)
    IN  /\ Alive
        /\ IsOpen(f) /\ file[f].writable
        /\ p < MaxFileSize
        /\ IF IoPanics(Volume(i), p)
           THEN Panic("index")
           ELSE /\ Install(r.v, i)
                /\ file' = [file EXCEPT ![f].pos = @ + r.alen]
                /\ UNCHANGED disk

Read(f, n) ==
    LET i == Node(f)
        p == file[f].pos
        len == Min({n, sin[i].din.size - p})
        r == Io(Volume(i), p, len, << >>)
    IN  /\ Alive
        /\ IsOpen(f)
        /\ p < sin[i].din.size
        /\ IF IoPanics(Volume(i), p)
           THEN Panic("index")
           ELSE /\ Install(r.v, i)
                /\ file' = [file EXCEPT ![f].pos = @ + r.alen]
                /\ UNCHANGED disk

\* file_seek: sfs_tryseek makes a file longer when the position is beyond its end.
Seek(f, p) ==
    LET i == Node(f)
        v == Volume(i)
        w == IF p > v.din.size THEN Truncated(v, p) ELSE v
    IN  /\ Alive
        /\ IsOpen(f)
        /\ p < MaxFileSize
        /\ Install(w, i)
        /\ file' = IF w.din.size >= p THEN [file EXCEPT ![f].pos = p] ELSE file
        /\ UNCHANGED disk

Next ==
    \/ \E i \in Inodes : OpenExcl(i)
    \/ \E f \in Fds, i \in Inodes, fl \in Flags : Open(f, i, fl)
    \/ \E f, g \in Fds : Dup(f, g)
    \/ \E f \in Fds : Fsync(f)
    \/ \E f \in Fds : Close(f)
    \/ \E f \in Fds, u \in SeqOf(Values, BLKSIZE) : u # << >> /\ Write(f, u)
    \/ \E f \in Fds, n \in 1..BLKSIZE : Read(f, n)
    \/ \E f \in Fds, p \in Positions : Seek(f, p)

Spec == Init /\ [][Next]_vars

-----------------------------------------------------------------------------
(* Properties                                                               *)

\* the block map through which file i is read now
View(i) == IF sin[i].ref > 0 THEN Volume(i) ELSE [Volume(i) EXCEPT !.din = disk[i]]

\* the places that point to block b
Owners(b) ==
    {s \in Inodes \X Index : Pointer(View(s[1]), s[2]) = b}
        \cup {<<i, "table">> : i \in {j \in Inodes : View(j).din.indirect = b}}

\* The freemap, the block maps in memory and on disk and the count of the super
\* block agree, after failed calls, evictions and reloads too: a block is free
\* or belongs to one place of one file, and no block of a file is missing.
BlocksExact ==
    /\ \A b \in Blocks : Cardinality(Owners(b)) = IF b \in freemap THEN 0 ELSE 1
    /\ unused = Cardinality(freemap)
    /\ \A i \in Inodes : \A k \in 0..(View(i).din.blocks - 1) : Pointer(View(i), k) # 0

\* An inode that an open file uses is in memory, and is counted once for every
\* entry that holds it: sfs_reclaim never frees it under a reader.
NodesHeld ==
    \A i \in Inodes :
        /\ sin[i].open = Cardinality({f \in Fds : file[f].node = i})
        /\ sin[i].ref >= sin[i].open

Unit(i, k) ==
    LET b == Pointer(View(i), k \div BLKSIZE) IN IF b = 0 THEN 0 ELSE data[b][k % BLKSIZE]

Contents == INSTANCE FileContents WITH
    content <- [i \in Inodes |-> [k \in 1..View(i).din.size |-> Unit(i, k - 1)]],
    at <- [f \in Fds |-> [node |-> file[f].node, pos |-> file[f].pos]]

\* Through block maps, freed and reused blocks, evicted and reloaded inodes, a
\* file reads as what was written to it, until a call fails for want of a block.
\* (After one that did, sfs_bmap_load_nolock may count a block in an inode it
\* leaves clean; evicted, the inode forgets the block and shows it again later.)
ImplementsFileContents ==
    Contents!Init /\ [][nospace' \/ Contents!Next]_<<Contents!vars, nospace>>

\* sfs_inode.c:396 asserts that no call asks for a block behind the next one.
IndexInRange == panic # "index"
==============================================================================
