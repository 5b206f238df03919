---------------------------------- MODULE Swap ----------------------------------
(***************************************************************************)
(* Page replacement of lab3: do_pgfault of one address space, the loop of  *)
(* alloc_pages, swap_out and swap_in, and the three swap managers.  A page *)
(* of memory is a frame here, to tell it from a page of the address space. *)
(***************************************************************************)
EXTENDS Integers, SequencesExt

CONSTANTS
    NVirtual,       \* pages of the address space
    PerTable,       \* how many of them share a page table
    NFrames,
    MaxAge          \* bound: ages are counted up to it

VPage == 0..(NVirtual - 1)
Frame == 1..NFrames
head == 0           \* pra_list_head
nowhere == 0        \* no entry in the page table
swapped == NFrames + 1
stale == -1

\* swap_out writes page v to entry v + 1, so that the entry need not be kept.
Table(v) == v \div PerTable

VARIABLES
    sm,             \* never changes: "fifo", "clock" or "lru"
    pte,            \* nowhere, swapped, or the frame
    touched,        \* the pages whose PTE_A or PTE_D is set
    tables,         \* frame by page table
    pra_list,       \* the frames from list_next(head) on, newest first
    pra_vaddr,      \* by frame
    visited,        \* the frames with that mark
    curr_ptr,
    mem, disk,      \* by frame, by entry: the page whose contents, as they were
                    \* when it was last written, are there, or stale
    fault,          \* the page do_pgfault is at work for, or -1
    lost,           \* swap_out has gone on without a victim
    age             \* history: arrivals, for lru ticks, since a page came or was used

swvars == <<sm, pte, touched, tables, pra_list, pra_vaddr, visited, curr_ptr,
            mem, disk, fault, lost, age>>

Resident(v) == pte[v] \in Frame
Free == Frame \ ({pte[v] : v \in VPage} \cup {tables[t] : t \in DOMAIN tables})

\* default_pmm takes the first of the free frames.
First == CHOOSE f \in Free : \A g \in Free : f <= g
Older(a) == IF a < MaxAge THEN a + 1 ELSE a

-----------------------------------------------------------------------------
(* swap_out_victim                                                          *)

\* _fifo_swap_out_victim and _lru_swap_out_victim: list_prev of the head.
Victim == Last(pra_list)

\* The frames in the order in which _clock_swap_out_victim comes to them, from
\* curr_ptr towards the head and on behind it.
At(f) == CHOOSE i \in DOMAIN pra_list : pra_list[i] = f
Circle ==
    Reverse(SubSeq(pra_list, 1, At(curr_ptr)))
        \o Reverse(SubSeq(pra_list, At(curr_ptr) + 1, Len(pra_list)))
Unvisited == {i \in DOMAIN Circle : Circle[i] \notin visited}

\* Where the walk ends: at the first page that is not visited or, after all, at
\* curr_ptr, whose mark is gone by then.
Stop == IF Unvisited = {} THEN 1 ELSE CHOOSE i \in Unvisited : \A j \in Unvisited : i <= j
Cleared == IF Unvisited = {} THEN Frame ELSE {Circle[i] : i \in 1..(Stop - 1)}

\* The walk reads and clears the mark of the list head, which is no page: what is
\* there is memory of something else.
PassesHead == \A i \in Unvisited : i > At(curr_ptr)

\* list_prev of the frame, or the head.
Newer(f) == IF At(f) = 1 THEN head ELSE pra_list[At(f) - 1]

-----------------------------------------------------------------------------
(* swap_out                                                                 *)

\* Mutant: every page goes to the same entry of the disk.
StoredFirst(v, f) == [disk EXCEPT ![0] = mem[f]]

Stored(v, f) == [disk EXCEPT ![v] = mem[f]]

\* The victim leaves the list and its contents go to the disk.
Evict(f) ==
    LET v == pra_vaddr[f]
    IN  /\ pra_list' = RemoveFirst(pra_list, f)
        /\ pte' = [pte EXCEPT ![v] = swapped]
        /\ touched' = touched \ {v}
        /\ disk' = Stored(v, f)
        /\ UNCHANGED <<sm, tables, pra_vaddr, mem, fault, lost, age>>

\* alloc_pages found no frame.
Needed == fault # -1 /\ ~ lost /\ Free = {}

swap_out ==
    /\ Needed /\ pra_list # <<>>
    /\ \/ /\ sm # "clock"
          /\ Evict(Victim)
          /\ UNCHANGED <<visited, curr_ptr>>
       \/ /\ sm = "clock" /\ curr_ptr # head
          /\ Evict(Circle[Stop])
          /\ visited' = visited \ Cleared
          /\ curr_ptr' = Newer(Circle[Stop])

\* No manager has a victim when no frame is listed, _clock_swap_out_victim gives
\* NULL while curr_ptr is the head, and takes the head for a page when what is in
\* the place of its mark is 0.  swap_out goes on with what it was given.
swap_out_nothing ==
    /\ Needed
    /\ \/ pra_list = <<>>
       \/ sm = "clock" /\ (curr_ptr = head \/ PassesHead)
    /\ lost' = TRUE
    /\ UNCHANGED <<sm, pte, touched, tables, pra_list, pra_vaddr, visited, curr_ptr,
                   mem, disk, fault, age>>

-----------------------------------------------------------------------------
(* do_pgfault                                                               *)

\* What was kept of a page before is stale once it is written.
Outdated(m, v) == [x \in DOMAIN m |-> IF m[x] = v THEN stale ELSE m[x]]

\* The program uses a page that is mapped.
use(v, write) ==
    /\ fault = -1 /\ Resident(v)
    /\ touched' = touched \cup {v}
    /\ IF write
       THEN mem' = [Outdated(mem, v) EXCEPT ![pte[v]] = v] /\ disk' = Outdated(disk, v)
       ELSE UNCHANGED <<mem, disk>>
    /\ UNCHANGED <<sm, pte, tables, pra_list, pra_vaddr, visited, curr_ptr,
                   fault, lost, age>>

\* It uses one that is not.
pgfault(v) ==
    /\ fault = -1 /\ ~ Resident(v)
    /\ fault' = v
    /\ UNCHANGED <<sm, pte, touched, tables, pra_list, pra_vaddr, visited, curr_ptr,
                   mem, disk, lost, age>>

\* alloc_pages has a frame.
Given == fault # -1 /\ ~ lost /\ Free # {}

\* get_pte takes a frame for the page table, for good.
get_pte ==
    /\ Given
    /\ Table(fault) \notin DOMAIN tables
    /\ tables' = (Table(fault) :> First) @@ tables
    /\ UNCHANGED <<sm, pte, touched, pra_list, pra_vaddr, visited, curr_ptr,
                   mem, disk, fault, lost, age>>

\* map_swappable of the clock: curr_ptr leaves the head.
Current(f) == IF curr_ptr = head THEN f ELSE curr_ptr

\* pgdir_alloc_page takes a frame with whatever it holds, swap_in fills it from the
\* disk; then page_insert and swap_map_swappable.
map_page ==
    LET v == fault
        f == First
    IN  /\ Given
        /\ Table(v) \in DOMAIN tables
        /\ pte' = [pte EXCEPT ![v] = f]
        /\ mem' = [mem EXCEPT ![f] = IF pte[v] = swapped THEN disk[v] ELSE v]
        /\ pra_list' = <<f>> \o pra_list
        /\ pra_vaddr' = [pra_vaddr EXCEPT ![f] = v]
        /\ visited' = IF sm = "clock" THEN visited \cup {f} ELSE visited
        /\ curr_ptr' = IF sm = "clock" THEN Current(f) ELSE head
        /\ age' = [w \in VPage |-> IF w = v THEN 0
                                   ELSE IF sm = "fifo" /\ Resident(w) THEN Older(age[w]) ELSE age[w]]
        /\ fault' = -1
        /\ UNCHANGED <<sm, touched, tables, disk, lost>>

-----------------------------------------------------------------------------

\* Mutant: the pages used go to the other end of the list.
UsedLast ==
    LET used(f) == pra_vaddr[f] \in touched
    IN  SelectSeq(pra_list, LAMBDA f : ~ used(f)) \o SelectSeq(pra_list, used)

\* _lru_tick_event goes through the list from its end: a page that was used since
\* the last tick goes to the front.
ToFront(q, f) == IF pra_vaddr[f] \in touched THEN <<f>> \o RemoveFirst(q, f) ELSE q
UsedFirst ==
    LET after[n \in 0..Len(pra_list)] ==
            IF n = 0 THEN pra_list
            ELSE ToFront(after[n - 1], pra_list[Len(pra_list) + 1 - n])
    IN  after[Len(pra_list)]

lru_tick_event ==
    /\ sm = "lru" /\ fault = -1
    /\ pra_list' = UsedFirst
    /\ touched' = {}
    /\ age' = [v \in VPage |-> IF v \in touched \/ ~ Resident(v) THEN 0 ELSE Older(age[v])]
    /\ UNCHANGED <<sm, pte, tables, pra_vaddr, visited, curr_ptr, mem, disk, fault,
                   lost>>

SwapInit ==
    /\ sm \in {"fifo", "clock", "lru"}
    /\ pte = [v \in VPage |-> nowhere]
    /\ touched = {} /\ tables = <<>> /\ pra_list = <<>> /\ visited = {} /\ curr_ptr = head
    /\ pra_vaddr = [f \in Frame |-> 0]
    /\ mem = [f \in Frame |-> stale]
    /\ disk = [v \in VPage |-> stale]
    /\ fault = -1 /\ lost = FALSE
    /\ age = [v \in VPage |-> 0]

SwapNext ==
    \/ swap_out
    \/ swap_out_nothing
    \/ \E v \in VPage : pgfault(v) \/ \E write \in BOOLEAN : use(v, write)
    \/ get_pte
    \/ map_page
    \/ lru_tick_event

\* Contents, marks and ages that are not read any more are left out.
SwapView ==
    <<sm, pte, tables, pra_list, curr_ptr, fault, lost,
      IF sm = "lru" THEN touched ELSE {}, visited \cap ToSet(pra_list),
      [f \in ToSet(pra_list) |-> <<mem[f], pra_vaddr[f]>>],
      [v \in {w \in VPage : pte[w] = swapped} |-> disk[v]],
      [v \in {w \in VPage : Resident(w) /\ sm # "clock"} |-> age[v]]>>

------------------------------------------------------------------------------
(* Properties *)

Typed ==
    /\ mem \in [Frame -> VPage \cup {stale}]
    /\ disk \in [VPage -> VPage \cup {stale}]
    /\ pra_vaddr \in [Frame -> VPage]
    /\ age \in [VPage -> 0..MaxAge]

\* A page has what was last written to it, in its frame or on the disk.
ContentsKept ==
    \A v \in VPage :
        /\ Resident(v) => mem[pte[v]] = v
        /\ pte[v] = swapped => disk[v] = v

\* The list has every mapped frame once, with its page; curr_ptr is on it; and
\* fifo and lru always find a victim while a frame is listed.
ListExact ==
    /\ Typed
    /\ IsInjective(pra_list)
    /\ ToSet(pra_list) = {pte[v] : v \in VPage} \cap Frame
    /\ \A v \in VPage : Resident(v) => pra_vaddr[pte[v]] = v
    /\ curr_ptr \in {head} \cup ToSet(pra_list)
    /\ lost => pra_list = <<>> \/ sm = "clock"

\* fifo evicts a page that came no later than any other, lru one that no tick has
\* found used for at least as many ticks as any other: what is used after the last
\* tick is not yet in the order of the list.
EvictsOldest ==
    \A v, w \in VPage :
        Resident(v) /\ pte'[v] = swapped /\ Resident(w) /\ sm # "clock" => age[v] >= age[w]
==============================================================================
