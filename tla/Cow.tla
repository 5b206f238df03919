----------------------------------- MODULE Cow -----------------------------------
(***************************************************************************)
(* Copy on write of lab5: fork shares the pages of the parent, read only   *)
(* on both sides, and a write fault copies a page that is shared.  One     *)
(* writable region with the pages VPage, in every process.                 *)
(***************************************************************************)
EXTENDS Integers, FiniteSets

CONSTANTS
    Proc,           \* processes with an address space of their own
    FirstProc,      \* the one that runs first
    VPage,
    NFrames

Frame == 1..NFrames
none == 0           \* *ptep is 0

VARIABLES
    live,           \* the processes that have a mm
    pte,            \* the frame by process and page, or none
    writable,       \* the <<process, page>> whose entry has PTE_W
    ref,            \* by frame
    free,           \* what alloc_page may give
    stopped         \* an assertion failed, or NULL was used as a page

vars == <<live, pte, writable, ref, free, stopped>>

\* default_pmm gives the first free page.
First == CHOOSE f \in free : \A g \in free : f <= g

OutOfMemory ==
    /\ free = {}
    /\ stopped' = TRUE
    /\ UNCHANGED <<live, pte, writable, ref, free>>

-----------------------------------------------------------------------------
(* do_pgfault                                                               *)

\* *ptep is 0: pgdir_alloc_page.
first_use(p, v) ==
    /\ pte[p][v] = none
    /\ \/ /\ free # {}
          /\ pte' = [pte EXCEPT ![p][v] = First]
          /\ writable' = writable \cup {<<p, v>>}
          /\ ref' = [ref EXCEPT ![First] = 1]
          /\ free' = free \ {First}
          /\ UNCHANGED <<live, stopped>>
       \/ OutOfMemory

\* The entry is there but not writable.
WriteFault(p, v) == pte[p][v] # none /\ <<p, v>> \notin writable

\* "Copy-on-write error": page_insert of the copy counts the old page down, and then
\* do_pgfault counts it down again.
copy_page(p, v) ==
    LET page == pte[p][v]
    IN  /\ WriteFault(p, v)
        /\ ref[page] > 1
        /\ \/ /\ free # {}
              /\ pte' = [pte EXCEPT ![p][v] = First]
              /\ writable' = writable \cup {<<p, v>>}
              /\ ref' = [ref EXCEPT ![First] = 1, ![page] = @ - 2]
              /\ free' = free \ {First}
              /\ UNCHANGED <<live, stopped>>
           \/ OutOfMemory

\* "Own write only read page": the page becomes writable where it is.
own_page(p, v) ==
    /\ WriteFault(p, v)
    /\ ref[pte[p][v]] <= 1
    /\ writable' = writable \cup {<<p, v>>}
    /\ UNCHANGED <<live, pte, ref, free, stopped>>

-----------------------------------------------------------------------------

\* copy_range takes a new page for each page of the parent, and when it shares the
\* page nothing refers to the new one.
Mapped(p) == {v \in VPage : pte[p][v] # none}

fork(p, child) ==
    /\ child \notin live
    /\ \/ \E unused \in SUBSET free :
              /\ Cardinality(unused) = Cardinality(Mapped(p))
              /\ \A f \in unused, g \in free \ unused : f < g
              /\ free' = free \ unused
              /\ pte' = [pte EXCEPT ![child] = pte[p]]
              /\ writable' = writable \ {<<p, v>> : v \in VPage}
              /\ ref' = [f \in Frame |-> ref[f] + Cardinality({v \in VPage : pte[p][v] = f})]
              /\ live' = live \cup {child}
              /\ UNCHANGED stopped
       \/ /\ Cardinality(free) < Cardinality(Mapped(p))
          /\ stopped' = TRUE
          /\ UNCHANGED <<live, pte, writable, ref, free>>

\* exit_mmap: page_remove_pte of every page.
exit(p) ==
    LET After(f) == ref[f] - Cardinality({v \in VPage : pte[p][v] = f})
    IN  /\ live' = live \ {p}
        /\ ref' = [f \in Frame |-> After(f)]
        /\ free' = free \cup {f \in Frame : After(f) = 0 /\ \E v \in VPage : pte[p][v] = f}
        /\ pte' = [pte EXCEPT ![p] = [v \in VPage |-> none]]
        /\ writable' = {e \in writable : e[1] # p}
        /\ UNCHANGED stopped

CowInit ==
    /\ live = {FirstProc}
    /\ pte = [p \in Proc |-> [v \in VPage |-> none]]
    /\ writable = {}
    /\ ref = [f \in Frame |-> 0]
    /\ free = Frame
    /\ stopped = FALSE

CowNext ==
    /\ ~ stopped
    /\ \E p \in live :
          \/ \E v \in VPage : first_use(p, v) \/ copy_page(p, v) \/ own_page(p, v)
          \/ \E child \in Proc : fork(p, child)
          \/ exit(p)

CowSpec == CowInit /\ [][CowNext]_vars

------------------------------------------------------------------------------
(* Properties *)

\* "The process is the only one that refers to the page": a page that a process
\* may write is in no other address space.
OwnPage ==
    \A p, q \in Proc, v, w \in VPage :
        <<p, v>> \in writable /\ pte[q][w] = pte[p][v] => <<q, w>> = <<p, v>>
==============================================================================
