------------------------------- MODULE Resources -------------------------------
(***************************************************************************)
(* What the kernel gives out and takes back, one manager at a time, as     *)
(* they share no state: alloc_pages and free_pages with each manager that  *)
(* init_pmm_manager of lab2 may name, alloc_pages of lab3, which swaps     *)
(* pages out, and what do_fork, do_execve, do_exit and do_wait of lab8     *)
(* take, pages (AddressSpace) and numbers and links (Family), and kmalloc. *)
(* zone is what slub_pmm_manager is given; default and best_fit are given  *)
(* NPages pages, buddy_system BuddyZone.                                   *)
(***************************************************************************)
EXTENDS Slub

CONSTANTS
    NPages, BuddyZone, NVirtual, PerTable, NFrames, MaxAge,
    User, UserMain, NFree, PerLevel, StackArea, StackPages, Disks,
    Child, idle, init, NULL, MAX_PID, MAX_PROCESS,
    HeapPages, PageUnits, Orders

\* get_pid asserts that there are more numbers than processes.
ASSUME FamilyAssumption ==
    /\ MAX_PROCESS \in Nat \ {0, 1} /\ MAX_PID \in Nat /\ MAX_PROCESS < MAX_PID
    /\ idle # init /\ {idle, init, NULL} \cap Child = {} /\ NULL \notin {idle, init}

ASSUME ListAssumption == NPages \in Nat \ {0}

ASSUME SwapAssumption == NVirtual \in Nat \ {0} /\ NFrames \in Nat /\ MaxAge \in Nat

\* Areas and segments have pages, and what is read of a segment is its beginning,
\* as insert_vma_struct asserts and load_icode checks.
ASSUME SpacesAssumption ==
    /\ IsFiniteSet(User) /\ UserMain \in User /\ NFree \in Nat /\ PerLevel \in Nat \ {0}
    /\ StackArea \in [start : Nat, end : Nat]
    /\ StackArea.start < StackArea.end /\ StackPages \in 0..(StackArea.end - StackArea.start)
    /\ \A g \in UNION Disks :
          /\ g \in [elf : BOOLEAN, reads : Nat,
                    segments : Seq([start : Nat, filled : Nat, end : Nat])]
          /\ \A i \in DOMAIN g.segments :
                LET s == g.segments[i] IN s.start < s.end /\ s.filled \in s.start..s.end

\* A page has room for a block and its header, and an order is of one page or more.
ASSUME SlobAssumption ==
    /\ HeapPages \in Nat /\ PageUnits \in Nat \ {0, 1}
    /\ Orders \subseteq Nat /\ \A order \in Orders : 2^order \in Nat \ {0}

VARIABLES
    running,
    fit, links, property, PageProperty, nr_free, held, damage, stopped,
    sm, pte, touched, tables, pra_list, pra_vaddr, visited, curr_ptr, mem, disk,
    fault, lost, age,
    at, mm, nr_free_pages, lost_pages, stranded, short, panicked, programs,
    pid, zombie, kin, proc_list, hash_list, last_pid, next_safe,
    heap, slobs, small, bigblocks

FreeList == INSTANCE FirstFit
Buddy == INSTANCE Buddy WITH zone <- BuddyZone
Swap == INSTANCE Swap
Spaces == INSTANCE AddressSpace
    WITH NFrames <- NFree, nr_free <- nr_free_pages, lost <- lost_pages
Families == INSTANCE Family
Slob == INSTANCE Kmalloc WITH NPages <- HeapPages

lvars == <<fit, links, property, PageProperty, nr_free, held, damage, stopped>>
swvars == <<sm, pte, touched, tables, pra_list, pra_vaddr, visited, curr_ptr, mem,
            disk, fault, lost, age>>
avars == <<at, mm, nr_free_pages, lost_pages, stranded, short, panicked, programs>>
fvars == <<pid, zombie, kin, proc_list, hash_list, last_pid, next_safe>>
kvars == <<heap, slobs, small, bigblocks>>
managers == <<running, lvars, bvars, svars, swvars, avars, fvars, kvars>>

\* default_pmm_manager and best_fit_pmm_manager are "list": they differ in fit.
ResourcesInit ==
    /\ running \in {"list", "buddy_system", "slub", "swap", "spaces", "family", "kmalloc"}
    /\ FreeList!FFInit
    /\ running # "list" => fit = "first"
    /\ Swap!SwapInit
    /\ running # "swap" => sm = "fifo"
    /\ Spaces!SpaceInit
    /\ running # "spaces" => programs = CHOOSE d \in Disks : TRUE
    /\ Families!FamilyInit
    /\ Slob!HeapInit
    /\ IF running = "slub"
       THEN SlubInit
       ELSE /\ Buddy!BuddyInit
            /\ num = <<>> /\ lists = <<>> /\ cachep = <<>> /\ inuse = <<>> /\ bufctl = <<>>
            /\ objects = {} /\ faulted = FALSE

ResourcesNext ==
    \/ /\ running = "list" /\ FreeList!FFNext
       /\ UNCHANGED <<bvars, svars, swvars, avars, fvars, kvars, running>>
    \/ /\ running = "buddy_system" /\ Buddy!BuddyNext
       /\ UNCHANGED <<lvars, svars, swvars, avars, fvars, kvars, running>>
    \/ /\ running = "slub" /\ SlubNext
       /\ UNCHANGED <<lvars, swvars, avars, fvars, kvars, running>>
    \/ /\ running = "swap" /\ Swap!SwapNext
       /\ UNCHANGED <<lvars, bvars, svars, avars, fvars, kvars, running>>
    \/ /\ running = "spaces" /\ Spaces!SpaceNext
       /\ UNCHANGED <<lvars, bvars, svars, swvars, fvars, kvars, running>>
    \/ /\ running = "family" /\ Families!FamilyNext
       /\ UNCHANGED <<lvars, bvars, svars, swvars, avars, kvars, running>>
    \/ /\ running = "kmalloc" /\ Slob!HeapNext
       /\ UNCHANGED <<lvars, bvars, svars, swvars, avars, fvars, running>>

ResourcesSpec == ResourcesInit /\ [][ResourcesNext]_managers

\* What a page outside the free list keeps in its links and its size is not read.
Read ==
    LET listed == FreeList!Linked(links) \cup {FreeList!free_list}
    IN  <<[e \in listed |-> links.next[e]], [e \in listed |-> links.prev[e]],
          [e \in listed \ {FreeList!free_list} |-> property[e]]>>
View ==
    <<running,
      IF running = "list" THEN Read ELSE <<links, property>>,
      IF running = "swap" THEN Swap!SwapView ELSE swvars,
      IF running = "family" THEN Families!FamilyView ELSE fvars,
      fit, PageProperty, nr_free, held, damage, stopped, bvars, svars, avars, kvars>>

\* Bound: the list is followed until the link of a block to itself is used.
Followed == damage # "torn"

\* The functions that the view does not have as they are: as a constraint this
\* has TLC evaluate them before it stores a state.  It leaves no state out, as
\* FreeListExact and SwapExact say.
Typed ==
    /\ running = "list" => FreeList!Typed
    /\ running = "swap" => Swap!Typed

------------------------------------------------------------------------------
(* Properties *)

\* However blocks are split, freed in parts and merged, the free list of default
\* and best_fit is exact, until a block is put behind the last one; even then no
\* page is lost or handed out twice until the link of that block to itself is used.
FreeListExact == running = "list" => FreeList!FreeListExact

\* However pages are taken and given back, the tree of the buddy allocator knows
\* the largest block that is free below each node.
BuddyExact ==
    /\ running = "buddy_system" => Buddy!TreeExact
    /\ running = "slub" => TreeExact

\* With pages taken and given back around them, no object of a slab is handed out
\* twice or lost, and the lists of the caches are exact.
SlabsExact == running = "slub" => ObjectsExact

\* However blocks are taken, cut, freed and joined, kmalloc hands out every unit of
\* its pages once and loses none, and the circle of free blocks stays in order.
SlobExact == running = "kmalloc" => Slob!SlobExact

\* Pages that were swapped out in any order come back with what was last written;
\* the list of pages that may be swapped out is exact after any faults, ticks and
\* evictions, and only the clock misses a victim while a page is listed.
SwapExact == running = "swap" => Swap!ContentsKept /\ Swap!ListExact

\* fifo evicts a page that came first, lru one whose use a tick found longest ago.
EvictsOldest == [][running = "swap" => Swap!EvictsOldest]_pte

\* Each manager hands out only pages that nobody holds, as Pages says; the lists
\* until the link of a block to itself is used.
ImplementsPages ==
    /\ FreeList!HandOutPages
    /\ [][running = "buddy_system" => Buddy!P!Next]_(Buddy!Handed)
    /\ [][running = "slub" => P!Next]_Handed

\* Through forks, faults and execs that fail half-way every page is free, held
\* once or lost where the code is known to lose it.
FramesExact == running = "spaces" => Spaces!FramesExact

\* With memory left, only programs that fill several page tables and files that
\* cannot be loaded lose pages.
LeaksExplained == running = "spaces" => Spaces!LeaksExplained

\* No two processes have one number, however numbers go round the range.
PidsUnique == running = "family" => Families!PidsUnique

\* The lists of children agree with the parents through any deaths and adoptions.
FamilyExact == running = "family" => Families!FamilyExact
==============================================================================
