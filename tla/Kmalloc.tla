-------------------------------- MODULE Kmalloc --------------------------------
(***************************************************************************)
(* kmalloc.c: small blocks are cut out of pages that are never given back  *)
(* (slob), large ones are pages of their own with a small block to note    *)
(* them (bigblock).  Memory is counted in units, a block is named by its   *)
(* first unit.  Pages come from alloc_pages, whose other users may hold    *)
(* any of them.                                                            *)
(***************************************************************************)
EXTENDS Naturals, SequencesExt, FiniteSetsExt

CONSTANTS
    NPages,
    PageUnits,      \* units of 16 bytes in a page: 256 in the code
    Orders          \* the orders of large blocks that are asked for

arena == 0          \* lies below all pages, with a gap
Page == 0..(NPages - 1)
First(page) == (page + 1) * PageUnits
Run(page, order) == page..(page + 2^order - 1)

\* SLOB_UNITS(sizeof(bigblock_t))
BigUnits == 2

VARIABLES
    heap,           \* next and units of the free blocks, and slobfree
    slobs,          \* pages taken for small blocks
    small,          \* units of the small blocks handed out, their headers
    bigblocks

kvars == <<heap, slobs, small, bigblocks>>

Pages(bb) == Run(bb.pages, bb.order)
FreePages == Page \ (slobs \cup UNION {Pages(bb) : bb \in Range(bigblocks)})

-----------------------------------------------------------------------------

\* The blocks of the list h in the order of a walk that begins at slobfree and
\* comes back to it.
Length(h) == Cardinality(DOMAIN h.next)
Walk(h) ==
    LET step[i \in 0..Length(h)] == IF i = 0 THEN h.slobfree ELSE h.next[step[i - 1]]
    IN  step

Touches(h, cur, b) == cur + h.units[cur] = b

\* slob_free of n units at b, to the list h.
slob_free(h, b, n) ==
    LET Between(c, d) == b > c /\ b < d
        AtEnds(c, d) == c >= d /\ (b > c \/ b < d)
        stop == Min({i \in 0..Length(h) :
                        LET c == Walk(h)[i] IN Between(c, h.next[c]) \/ AtEnds(c, h.next[c])})
        cur == Walk(h)[stop]
        after == h.next[cur]
        behind == b + n = after
        link == IF behind THEN h.next[after] ELSE after
        len == IF behind THEN n + h.units[after] ELSE n
        into == IF Touches(h, cur, b) THEN cur ELSE b
        kept == DOMAIN h.next \ (IF behind THEN {after} ELSE {})
    IN  [next |-> [c \in kept \cup {into} |->
                      IF c = into THEN link ELSE IF c = cur THEN b ELSE h.next[c]],
         units |-> [c \in kept \cup {into} |->
                      IF c # into THEN h.units[c]
                      ELSE IF into = cur THEN h.units[cur] + len ELSE len],
         slobfree |-> cur]

\* The places of the walk behind slobfree whose block has n units.
Enough(h, n) == {i \in 1..Length(h) : h.units[Walk(h)[i]] >= n}

\* Mutant: slobfree is left at the block that is handed out.
HandOn(prev, cur) == cur

\* slob_alloc leaves slobfree in front of the block it takes from.
Hand(prev, cur) == prev

\* The first block that has n units, and the list without these.
Cut(h, n) ==
    LET i == Min(Enough(h, n))
        prev == Walk(h)[i - 1]
        cur == Walk(h)[i]
        exact == h.units[cur] = n
        rest == (DOMAIN h.next \ {cur}) \cup (IF exact THEN {} ELSE {cur + n})
    IN  [block |-> cur,
         heap |-> [next |-> [c \in rest |->
                       IF c = cur + n /\ ~ exact THEN h.next[cur]
                       ELSE IF c = prev THEN (IF exact THEN h.next[cur] ELSE cur + n)
                       ELSE h.next[c]],
                   units |-> [c \in rest |->
                       IF c = cur + n /\ ~ exact THEN h.units[cur] - n ELSE h.units[c]],
                   slobfree |-> Hand(prev, cur)]]

\* What slob_alloc of n units may come to: with no block of that size it frees a new
\* page to the list and goes through it once more.
slob_alloc(n) ==
    IF Enough(heap, n) # {}
    THEN {[cut |-> Cut(heap, n), slobs |-> slobs]}
    ELSE {[cut |-> Cut(slob_free(heap, First(page), PageUnits), n),
           slobs |-> slobs \cup {page}] : page \in FreePages}

\* kmalloc of a block that takes n units with its header; at most PageUnits - 1, as
\* slob_alloc asserts.
kmalloc(n) ==
    \E got \in slob_alloc(n) :
        /\ heap' = got.cut.heap /\ slobs' = got.slobs
        /\ small' = [b \in DOMAIN small \cup {got.cut.block} |->
                        IF b = got.cut.block THEN n ELSE small[b]]
        /\ UNCHANGED bigblocks

\* kmalloc of pages: the note first, then the pages; without them the note is freed.
kmalloc_pages(order) ==
    \E got \in slob_alloc(BigUnits) :
        /\ slobs' = got.slobs /\ UNCHANGED small
        /\ \/ /\ heap' = got.cut.heap
              /\ \E page \in Page :
                    /\ Run(page, order) \subseteq FreePages \ got.slobs
                    /\ bigblocks' =
                         <<[order |-> order, pages |-> page, bb |-> got.cut.block]>> \o bigblocks
           \/ /\ heap' = slob_free(got.cut.heap, got.cut.block, BigUnits)
              /\ UNCHANGED bigblocks

\* kfree: an address at the beginning of a page may be a large block; all others, and
\* those not noted, have their header in the unit before.
Noted(address) == {i \in DOMAIN bigblocks : First(bigblocks[i].pages) = address}

kfree(address) ==
    IF Noted(address) # {}
    THEN LET i == Min(Noted(address))
         IN  /\ bigblocks' = RemoveAt(bigblocks, i)
             /\ heap' = slob_free(heap, bigblocks[i].bb, BigUnits)
             /\ UNCHANGED <<slobs, small>>
    ELSE LET b == address - 1
         IN  /\ heap' = slob_free(heap, b, small[b])
             /\ small' = [c \in DOMAIN small \ {b} |-> small[c]]
             /\ UNCHANGED <<slobs, bigblocks>>

HeapInit ==
    /\ heap = [next |-> [c \in {arena} |-> arena], units |-> [c \in {arena} |-> 1],
               slobfree |-> arena]
    /\ slobs = {}
    /\ small = <<>>
    /\ bigblocks = <<>>

HeapNext ==
    \/ \E n \in 2..(PageUnits - 1) : kmalloc(n)
    \/ \E order \in Orders : kmalloc_pages(order)
    \/ \E b \in DOMAIN small : kfree(b + 1)
    \/ \E bb \in Range(bigblocks) : kfree(First(bb.pages))

HeapSpec == HeapInit /\ [][HeapNext]_kvars

------------------------------------------------------------------------------
(* Properties *)

Span(b, n) == b..(b + n - 1)

\* The free blocks are one circle through all addresses in order, no two of them
\* touch, and slobfree is one of them.
CircleExact ==
    LET free == DOMAIN heap.next
    IN  /\ arena \in free /\ heap.slobfree \in free /\ DOMAIN heap.units = free
        /\ \A b \in free : heap.next[b] \in free
        /\ {Walk(heap)[i] : i \in 0..(Length(heap) - 1)} = free
        /\ Cardinality({b \in free : heap.next[b] <= b}) = 1
        /\ \A b, c \in free : b + heap.units[b] # c

\* Free blocks, blocks handed out and the notes of large blocks cover the pages taken
\* for small blocks, each unit once; large blocks have pages of their own.
UnitsExact ==
    LET free == {Span(b, heap.units[b]) : b \in DOMAIN heap.next}
        given == {Span(b, small[b]) : b \in DOMAIN small}
        notes == {Span(bb.bb, BigUnits) : bb \in Range(bigblocks)}
        parts == free \cup given \cup notes
        runs == {Pages(bb) : bb \in Range(bigblocks)} \cup {{page} : page \in slobs}
    IN  /\ UNION parts = {arena} \cup UNION {Span(First(page), PageUnits) : page \in slobs}
        /\ \A a, b \in parts : a # b => a \cap b = {}
        /\ Cardinality(notes) = Len(bigblocks)
        /\ Cardinality(parts) = Cardinality(DOMAIN heap.next) + Cardinality(DOMAIN small)
                                + Len(bigblocks)
        /\ Cardinality(runs) = Len(bigblocks) + Cardinality(slobs)
        /\ \A r, s \in runs : r # s => r \cap s = {}

\* Whatever is taken and freed, kmalloc hands out every unit once and loses none.
SlobExact == CircleExact /\ UnitsExact
==============================================================================
