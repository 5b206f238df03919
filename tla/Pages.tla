--------------------------------- MODULE Pages ---------------------------------
(***************************************************************************)
(* What a pmm_manager promises: alloc_pages(n) hands out n contiguous      *)
(* pages that nobody holds, and free_pages takes pages back.               *)
(***************************************************************************)
EXTENDS Naturals

CONSTANT NPages     \* the pages init_memmap was given

Page == 0..(NPages - 1)
Run(base, n) == base..(base + n - 1)

VARIABLE held       \* the pages that are handed out

Init == held = {}

Alloc(base, n) ==
    /\ Run(base, n) \subseteq Page \ held
    /\ held' = held \cup Run(base, n)

\* Pages come back in runs, and several runs in one step where a caller frees
\* several.
Free == held' \in SUBSET held

Next == Free \/ \E base \in Page, n \in 1..NPages : Alloc(base, n)

Spec == Init /\ [][Next]_held
==============================================================================
