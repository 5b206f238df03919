----------------------------- MODULE AddressSpace -----------------------------
(***************************************************************************)
(* What do_fork and do_execve of lab8 take of physical memory, and what    *)
(* their failing paths, do_exit and do_wait give back: kernel stacks, open-*)
(* file tables, page directories, page tables and user pages.  No page is  *)
(* shared (fork copies), so pages are counted, not named.                  *)
(***************************************************************************)
EXTENDS Integers, Sequences, FiniteSets, SequencesExt

CONSTANTS
    User,           \* blocks of user processes
    UserMain,       \* the one of them that begins as the kernel thread user_main
    NFrames,        \* pages that are free before user_main is made
    PerLevel,       \* NPTEENTRY and NPDEENTRY: entries of a table, of a directory
    StackArea,      \* area of the user stack
    StackPages,     \* pages of it that load_icode maps at once
    Disks           \* each a set of programs that the file system may hold

KSTACKPAGE == 2

VARIABLES
    at,         \* [User -> "none" | "thread" | "user" | "zombie"]
    mm,         \* [User -> areas, directories, tables and pages of the process]
    nr_free,    \* pages that alloc_pages has left
    lost,       \* tables and directories that nothing points to any more
    stranded,   \* open-file tables whose process is gone
    short,      \* an allocation has failed
    panicked,   \* an assertion has stopped the kernel
    programs    \* what is on the disk

avars == <<at, mm, nr_free, lost, stranded, short, panicked, programs>>

NoSpace == [areas |-> <<>>, dirs |-> {}, tables |-> {}, ptes |-> {}]

\* The page table of a page, the level-0 directory of a table or of a page.
PTof(v) == v \div PerLevel
PDofTable(t) == t \div PerLevel
PDof(v) == PDofTable(PTof(v))

\* An address space while it is built or taken down: its structure, the memory
\* around it and how the work goes.
Fresh(free) ==
    [areas |-> <<>>, dirs |-> {}, tables |-> {}, ptes |-> {}, free |-> free, lost |-> 0,
     reads |-> 0, ok |-> TRUE, short |-> FALSE, panic |-> FALSE]
Open(sp, free) == [Fresh(free) EXCEPT !.areas = sp.areas, !.dirs = sp.dirs,
                                      !.tables = sp.tables, !.ptes = sp.ptes]
Space(m) == [areas |-> m.areas, dirs |-> m.dirs, tables |-> m.tables, ptes |-> m.ptes]

Failed(m) == [m EXCEPT !.ok = FALSE]
NoMemory(m) == [m EXCEPT !.ok = FALSE, !.short = TRUE]
Going(m) == m.ok /\ ~m.panic

------------------------------------------------------------------------------
(* Page tables *)

\* A valid entry i at one level, for which a page is taken if there is none.
Entry(m, level, i) ==
    IF i \in m[level] THEN m
    ELSE IF m.free = 0 THEN NoMemory(m)
    ELSE [m EXCEPT ![level] = @ \cup {i}, !.free = @ - 1]

get_pte(m, v) ==
    LET d == Entry(m, "dirs", PDof(v)) IN IF d.ok THEN Entry(d, "tables", PTof(v)) ELSE d

pgdir_alloc_page(m, v) ==
    IF m.free = 0 THEN NoMemory(m)
    ELSE LET t == get_pte([m EXCEPT !.free = @ - 1], v)
         IN  IF t.ok THEN [t EXCEPT !.ptes = @ \cup {v}] ELSE [t EXCEPT !.free = @ + 1]

Within(a) == a.start..(a.end - 1)
Pages(a) == [i \in 1..(a.end - a.start) |-> a.start + i - 1]

unmap_range(m, a) ==
    [m EXCEPT !.ptes = @ \ Within(a), !.free = @ + Cardinality(m.ptes \cap Within(a))]

\* exit_range in one level-0 directory: empty tables of the range are freed, and
\* the directory too if each entry of the range was valid, whatever it still holds.
FreeTables(m, a, d) ==
    LET range == {t \in PTof(a.start)..PTof(a.end - 1) : PDofTable(t) = d}
        empty == {t \in range \cap m.tables : \A v \in m.ptes : PTof(v) # t}
        left  == m.tables \ empty
        free_pd0 == range \subseteq m.tables
        cut   == IF free_pd0 THEN {t \in left : PDofTable(t) = d} ELSE {}
    IN  IF d \notin m.dirs THEN m
        ELSE [m EXCEPT !.tables = left \ cut,
                       !.dirs = IF free_pd0 THEN @ \ {d} ELSE @,
                       !.free = @ + Cardinality(empty) + (IF free_pd0 THEN 1 ELSE 0),
                       !.lost = @ + Cardinality(cut)]

exit_range(m, a) ==
    LET dirs == [i \in 1..(PDof(a.end - 1) - PDof(a.start) + 1) |-> PDof(a.start) + i - 1]
    IN  FoldLeft(LAMBDA n, d : FreeTables(n, a, d), m, dirs)

\* Mutant: the pages are unmapped, the tables stay.
exit_mmapTablesStay(m) == FoldLeft(unmap_range, m, m.areas)

exit_mmap(m) == FoldLeft(exit_range, FoldLeft(unmap_range, m, m.areas), m.areas)

\* The directory goes, whatever still hangs below it.
put_pgdir(m) ==
    [m EXCEPT !.free = @ + 1, !.lost = @ + Cardinality(m.dirs) + Cardinality(m.tables)]

\* mm_destroy gives the areas back, which are small objects of kmalloc.
Released(m) == put_pgdir(exit_mmap(m))

------------------------------------------------------------------------------
(* Areas *)

find_vma(m, v) == {i \in DOMAIN m.areas : v \in Within(m.areas[i])}

\* insert_vma_struct: behind the last area that begins no later, with both
\* neighbours asserted to be disjoint.
insert_vma_struct(m, a) ==
    LET k == Max({0} \cup {i \in DOMAIN m.areas : m.areas[i].start <= a.start})
        n == Len(m.areas)
    IN  [m EXCEPT !.areas = SubSeq(@, 1, k) \o <<a>> \o SubSeq(@, k + 1, n),
                  !.panic = \/ k > 0 /\ m.areas[k].end > a.start
                            \/ k < n /\ a.end > m.areas[k + 1].start]

\* Only the area that holds the first address is looked at.
mm_map(m, a) ==
    IF find_vma(m, a.start) # {} THEN Failed(m) ELSE insert_vma_struct(m, a)

------------------------------------------------------------------------------
(* do_fork *)

\* copy_range for one page, if from has it: a failing page table is an error, a
\* failing page an assertion.
CopyPage(m, from, v) ==
    LET t == get_pte(m, v)
    IN  IF ~Going(m) \/ v \notin from.ptes THEN m
        ELSE IF ~t.ok THEN t
        ELSE IF t.free = 0 THEN [t EXCEPT !.panic = TRUE, !.short = TRUE]
        ELSE [t EXCEPT !.ptes = @ \cup {v}, !.free = @ - 1]

copy_range(m, from, a) ==
    IF Going(m)
    THEN FoldLeft(LAMBDA n, v : CopyPage(n, from, v), insert_vma_struct(m, a), Pages(a))
    ELSE m

\* dup_mmap goes from the last area to the first; vma_create succeeds vmas times.
dup_mmap(m, from, vmas) ==
    LET taken == IF vmas < Len(from.areas) THEN vmas ELSE Len(from.areas)
        n == FoldLeft(LAMBDA k, a : copy_range(k, from, a), m,
                      SubSeq(Reverse(from.areas), 1, taken))
    IN  IF taken < Len(from.areas) /\ Going(n) THEN NoMemory(n) ELSE n

\* Mutant: a failing dup_mmap gives back the directory alone.
copy_mmNoExit(free, from, vmas) ==
    IF free = 0 THEN NoMemory(Fresh(0))
    ELSE LET n == dup_mmap(Fresh(free - 1), from, vmas)
         IN  IF n.ok \/ n.panic THEN n ELSE [put_pgdir(n) EXCEPT !.ok = FALSE]

\* copy_mm: a failing dup_mmap gives back what it has built.
copy_mm(free, from, vmas) ==
    IF free = 0 THEN NoMemory(Fresh(0))
    ELSE LET n == dup_mmap(Fresh(free - 1), from, vmas)
         IN  IF n.ok \/ n.panic THEN n
             ELSE [Released(n) EXCEPT !.ok = FALSE]

\* What do_fork makes of n, the outcome of copy_mm, and of the stack and the
\* open-file table that it had taken before.
Commit(n, free) ==
    /\ nr_free' = free
    /\ lost' = lost + n.lost
    /\ short' = (short \/ n.short)
    /\ panicked' = n.panic
    /\ UNCHANGED programs

Fork(p, c) ==
    /\ at[p] = "user"
    /\ at[c] = "none"
    /\ nr_free >= KSTACKPAGE + 1
    /\ \E vmas \in 0..Len(mm[p].areas) :
          LET n == copy_mm(nr_free - KSTACKPAGE - 1, mm[p], vmas)
          IN  /\ IF n.ok
                 THEN /\ at' = [at EXCEPT ![c] = "user"]
                      /\ mm' = [mm EXCEPT ![c] = Space(n)]
                 ELSE UNCHANGED <<at, mm>>
              /\ Commit(n, IF n.ok THEN n.free ELSE n.free + 1 + KSTACKPAGE)
    /\ UNCHANGED stranded

\* setup_kstack or files_create finds no memory: what was taken is given back.
ForkNoStack(p) ==
    /\ at[p] = "user"
    /\ nr_free < KSTACKPAGE + 1
    /\ short' = TRUE
    /\ UNCHANGED <<at, mm, nr_free, lost, stranded, panicked, programs>>

------------------------------------------------------------------------------
(* do_execve and do_exit *)

\* A page of a segment; those below filled are read from the file.
LoadPage(m, v, filled) ==
    LET n == pgdir_alloc_page(m, v)
    IN  IF ~Going(m) THEN m
        ELSE IF ~n.ok \/ v >= filled THEN n
        ELSE IF n.reads = 0 THEN Failed(n) ELSE [n EXCEPT !.reads = @ - 1]

LoadSegment(m, s) ==
    LET n == mm_map(m, [start |-> s.start, end |-> s.end])
    IN  IF ~Going(m) THEN m
        ELSE FoldLeft(LAMBDA k, v : LoadPage(k, v, s.filled), n, Pages(s))

\* The stack: mm_map may fail, its pages are asserted.
LoadStack(m) ==
    LET n == mm_map(m, StackArea)
        k == FoldLeft(pgdir_alloc_page, n,
                      [i \in 1..StackPages |-> StackArea.end - i])
    IN  IF ~Going(m) THEN m ELSE IF n.ok THEN [k EXCEPT !.panic = @ \/ ~k.ok] ELSE n

\* load_icode of program g; a failure gives back what it has built.
load_icode(free, g) ==
    IF free = 0 THEN NoMemory(Fresh(0))
    ELSE LET m == [Fresh(free - 1) EXCEPT !.reads = g.reads]
             n == LoadStack(FoldLeft(LoadSegment, m, g.segments))
         IN  IF ~g.elf THEN Failed([m EXCEPT !.free = @ + 1])
             ELSE IF Going(n) \/ n.panic THEN n
             ELSE [Released(n) EXCEPT !.ok = FALSE]

\* The space of a process that has one is given back; m tells of the pages then.
Left(p) == IF at[p] = "user" THEN Released(Open(mm[p], nr_free)) ELSE Fresh(nr_free)

\* do_exit returns the open-file table only of a process that has a space.
do_exit(p, n, hasMm) ==
    /\ at' = [at EXCEPT ![p] = "zombie"]
    /\ mm' = [mm EXCEPT ![p] = NoSpace]
    /\ stranded' = IF hasMm THEN stranded ELSE stranded + 1
    /\ Commit(n, IF hasMm THEN n.free + 1 ELSE n.free)

\* Also do_execve of a file that sysfile_open does not find.
Exit(p) == at[p] = "user" /\ do_exit(p, Left(p), TRUE)

\* The old space goes before the new one is built; without one the process dies.
Exec(p, g) ==
    /\ at[p] \in {"user", "thread"}
    /\ LET old == Left(p)
           built == load_icode(old.free, g)
           n == [built EXCEPT !.lost = @ + old.lost]
       IN  IF n.ok
           THEN /\ at' = [at EXCEPT ![p] = "user"]
                /\ mm' = [mm EXCEPT ![p] = Space(n)]
                /\ Commit(n, n.free)
                /\ UNCHANGED stranded
           ELSE do_exit(p, n, FALSE)

\* A page fault of user code: an address outside the areas, and a page that is
\* not to be had, stop the kernel.
Fault(p, v) ==
    /\ at[p] = "user"
    /\ v \notin mm[p].ptes
    /\ LET m == Open(mm[p], nr_free)
           t == IF find_vma(m, v) = {} THEN Failed(m) ELSE get_pte(m, v)
           n == IF t.ok THEN pgdir_alloc_page(t, v) ELSE t
       IN  /\ mm' = [mm EXCEPT ![p] = Space(n)]
           /\ Commit([n EXCEPT !.panic = ~n.ok], n.free)
    /\ UNCHANGED <<at, stranded>>

\* do_wait: put_kstack and kfree of the child's block.
Wait(c) ==
    /\ at[c] = "zombie"
    /\ at' = [at EXCEPT ![c] = "none"]
    /\ nr_free' = nr_free + KSTACKPAGE
    /\ UNCHANGED <<mm, lost, stranded, short, panicked, programs>>

SpaceInit ==
    /\ at = [p \in User |-> IF p = UserMain THEN "thread" ELSE "none"]
    /\ mm = [p \in User |-> NoSpace]
    /\ nr_free = NFrames - KSTACKPAGE - 1
    /\ lost = 0 /\ stranded = 0 /\ short = FALSE /\ panicked = FALSE
    /\ programs \in Disks

SpaceNext ==
    /\ ~panicked
    /\ \E p \in User :
          \/ \E c \in User : Fork(p, c)
          \/ ForkNoStack(p)
          \/ Exit(p) \/ Wait(p)
          \/ \E g \in programs : Exec(p, g)
          \/ \E v \in 0..(StackArea.end - 1) : Fault(p, v)

SpaceSpec == SpaceInit /\ [][SpaceNext]_avars

------------------------------------------------------------------------------
(* Properties *)

\* Pages that process p holds.
Held(p) ==
    (IF at[p] = "none" THEN 0 ELSE KSTACKPAGE)
    + (IF at[p] \in {"user", "thread"} THEN 1 ELSE 0)
    + (IF at[p] # "user" THEN 0
       ELSE 1 + Cardinality(mm[p].dirs) + Cardinality(mm[p].tables) + Cardinality(mm[p].ptes))

\* The tables in use hang below directories in use, and pages in tables in use.
Hangs(sp) ==
    /\ \A t \in sp.tables : PDofTable(t) \in sp.dirs
    /\ \A v \in sp.ptes : PTof(v) \in sp.tables /\ find_vma(sp, v) # {}

\* Every page is free, or held once, or lost at one of the three places where the
\* code loses it, through any forks, faults and execs that succeed or fail
\* half-way, and page tables are never freed under their pages.
FramesExact ==
    ~panicked => /\ nr_free + lost + stranded + MapThenSumSet(Held, User) = NFrames
                 /\ \A p \in User : Hangs(mm[p])

\* A program whose areas, with the stack, need one page table in each directory.
Compact(g) ==
    LET areas == {g.segments[i] : i \in DOMAIN g.segments} \cup {StackArea}
    IN  \A a, b \in areas : \A v \in Within(a), w \in Within(b) :
            PDof(v) = PDof(w) => PTof(v) = PTof(w)

\* A program that load_icode can load.
Sound(g) ==
    LET Filled(s) == s.filled - s.start
    IN  /\ g.elf
        /\ g.reads >= FoldLeft(LAMBDA n, s : n + Filled(s), 0, g.segments)
        /\ \A i, j \in DOMAIN g.segments :
              i # j => Within(g.segments[i]) \cap Within(g.segments[j]) = {}

\* Unless memory runs short, page tables are lost only by programs that fill more
\* than one table of a directory, and open-file tables only by files that cannot
\* be loaded.
LeaksExplained ==
    ~short => /\ lost > 0 => \E g \in programs : ~Compact(g)
              /\ stranded > 0 => \E g \in programs : ~Sound(g)

\* What the comments of do_wait and init_main say: when the last user process has
\* been waited for, all its pages are free again.
AllReturned == (\A p \in User : at[p] = "none") => nr_free = NFrames
==============================================================================
