-------------------------------- MODULE FirstFit --------------------------------
(***************************************************************************)
(* default_pmm.c and best_fit_pmm.c: free blocks in a list ordered by      *)
(* address.  The two differ in the block alloc_pages takes, see fit.  The  *)
(* list is the doubly linked one of list.h, pointer by pointer, since      *)
(* free_pages goes on with its loop after it has put a block behind the    *)
(* last one, and links the block to itself.                                *)
(***************************************************************************)
EXTENDS Naturals, FiniteSets, FiniteSetsExt

CONSTANT NPages     \* the pages init_memmap was given

Page == 0..(NPages - 1)
Run(base, n) == base..(base + n - 1)
free_list == NPages         \* the head of the list among its entries
Entry == Page \cup {free_list}

VARIABLES
    fit,            \* never changes: "first" or "best"
    links,          \* next and prev of every list_entry_t
    property,       \* size of the free block that begins at a page
    PageProperty,   \* the pages with that flag
    nr_free,
    held,           \* the pages that are handed out
    damage,         \* history: "appended" once a block was linked to itself,
                    \* "torn" once the link was used
    stopped         \* "loop" when a walk does not end, "assert" when an
                    \* assertion failed, else "no"

ffvars == <<fit, links, property, PageProperty, nr_free, held, damage, stopped>>

-----------------------------------------------------------------------------
(* list.h                                                                   *)

\* __list_add(e, p, n), its assignments in their order
Between(L, e, p, n) ==
    [next |-> [L.next EXCEPT ![p] = e, ![e] = n],
     prev |-> [L.prev EXCEPT ![n] = e, ![e] = p]]

list_add(L, le, e) == Between(L, e, le, L.next[le])
list_add_before(L, le, e) == Between(L, e, L.prev[le], le)

list_del(L, e) ==
    [next |-> [L.next EXCEPT ![L.prev[e]] = L.next[e]],
     prev |-> [L.prev EXCEPT ![L.next[e]] = L.prev[e]]]

\* The entries that calls of list_next reach from the head, one after the other.  A
\* walk longer than the number of entries goes round for ever.
Walk(L) ==
    LET entry[k \in 0..(NPages + 1)] == IF k = 0 THEN free_list ELSE L.next[entry[k - 1]]
    IN  entry

\* The walk of a loop that stops at an entry of stops: where it may end, and does.
WalkEnds(L, stops) == LET w == Walk(L) IN {k \in 1..(NPages + 1) : w[k] \in stops}
WalkEnd(L, stops) == Walk(L)[Min(WalkEnds(L, stops))]

\* An entry that was linked to itself is taken out, or another put before it.
Tears(L, e) == IF L.prev[e] = e THEN "torn" ELSE damage

-----------------------------------------------------------------------------
(* alloc_pages                                                              *)

\* The free blocks in the order of the list.
Linked(L) ==
    LET w == Walk(L)
    IN  {w[k] : k \in 1..Min(WalkEnds(L, {free_list}))} \ {free_list}

Large(n) == {p \in Page : property[p] >= n}
Fits(n) == Linked(links) \cap Large(n)

\* Whether the walk over the free list ends.
Ends(n) == WalkEnds(links, {free_list} \cup (IF fit = "first" THEN Large(n) ELSE {})) # {}

\* The page default_alloc_pages and best_fit_alloc_pages choose, or free_list.
Chosen(n) ==
    IF fit = "first"
    THEN WalkEnd(links, {free_list} \cup Large(n))
    ELSE LET least == Min({property[e] : e \in Fits(n)})
         IN  IF Fits(n) = {} THEN free_list
             ELSE WalkEnd(links, {p \in Page : property[p] = least})

\* Mutant: the rest of a block that is split is not linked again.
SplitLost(page, n) ==
    /\ links' = list_del(links, page)
    /\ property' = [property EXCEPT ![page + n] = property[page] - n]
    /\ PageProperty' = (PageProperty \cup {page + n}) \ {page}

\* The first n pages of a larger block are taken; the rest goes to its place.
Split(page, n) ==
    /\ links' = list_add(list_del(links, page), links.prev[page], page + n)
    /\ property' = [property EXCEPT ![page + n] = property[page] - n]
    /\ PageProperty' = (PageProperty \cup {page + n}) \ {page}

Whole(page) ==
    /\ links' = list_del(links, page)
    /\ PageProperty' = PageProperty \ {page}
    /\ UNCHANGED property

\* A walk that does not end, or a failed assertion, stops the kernel.
Halts(why) ==
    /\ stopped' = why
    /\ UNCHANGED <<fit, links, property, PageProperty, nr_free, held, damage>>

alloc_pages(n) ==
    /\ stopped = "no"
    /\ n <= nr_free
    /\ IF ~ Ends(n)
       THEN Halts("loop")
       ELSE LET page == Chosen(n)
            IN  /\ page # free_list
                /\ IF property[page] > n THEN Split(page, n) ELSE Whole(page)
                /\ nr_free' = nr_free - n
                /\ held' = held \cup Run(page, n)
                /\ damage' = Tears(links, page)
                /\ UNCHANGED <<fit, stopped>>

-----------------------------------------------------------------------------
(* free_pages                                                               *)

\* Where the loop of free_pages puts base: before the first block above it, or
\* behind the last.
Stops(base) == {free_list} \cup {e \in Page : base < e \/ links.next[e] = free_list}
Place(base) == WalkEnd(links, Stops(base))

\* Behind the last block the loop goes on with base itself, and links it a second
\* time, to itself.
Inserted(base) ==
    LET le == Place(base)
    IN  CASE le = free_list -> list_add(links, free_list, base)
          [] le # free_list /\ base < le -> list_add_before(links, le, base)
          [] OTHER -> list_add(list_add(links, le, base), base, base)

Damaged(base) ==
    LET le == Place(base)
    IN  CASE le = free_list -> damage
          [] le # free_list /\ base < le -> Tears(links, le)
          [] OTHER -> IF damage = "torn" THEN damage ELSE "appended"

\* free_pages first clears and links the block, then merges it with the block
\* before it and the block behind.  A list with its sizes and flags is b.
Joined(b, low, high) ==
    [links |-> list_del(b.links, high),
     property |-> [b.property EXCEPT ![low] = @ + b.property[high]],
     flags |-> b.flags \ {high}]

Adjacent(b, low, high) ==
    low # free_list /\ high # free_list /\ low + b.property[low] = high

Merged(b, base) ==
    LET low == b.links.prev[base]
        joined == Adjacent(b, low, base)
        c == IF joined THEN Joined(b, low, base) ELSE b
        first == IF joined THEN low ELSE base
        high == c.links.next[first]
    IN  IF Adjacent(c, first, high) THEN Joined(c, first, high) ELSE c

free_pages(base, n) ==
    /\ stopped = "no"
    /\ Run(base, n) \subseteq held
    /\ CASE Run(base, n) \cap PageProperty # {} -> Halts("assert")
         [] Run(base, n) \cap PageProperty = {}
            /\ WalkEnds(links, Stops(base)) = {} -> Halts("loop")
         [] OTHER ->
            LET b == [links |-> Inserted(base),
                      property |-> [property EXCEPT ![base] = n],
                      flags |-> PageProperty \cup {base}]
                c == Merged(b, base)
            IN  /\ links' = c.links /\ property' = c.property /\ PageProperty' = c.flags
                /\ nr_free' = nr_free + n
                /\ held' = held \ Run(base, n)
                /\ damage' = Damaged(base)
                /\ UNCHANGED <<fit, stopped>>

-----------------------------------------------------------------------------

\* init_memmap has put all pages into the list as one block.
FFInit ==
    /\ fit \in {"first", "best"}
    /\ links = [next |-> [e \in Entry |-> IF e = 0 THEN free_list ELSE IF e = free_list THEN 0 ELSE e],
                prev |-> [e \in Entry |-> IF e = 0 THEN free_list ELSE IF e = free_list THEN 0 ELSE e]]
    /\ property = [p \in Page |-> IF p = 0 THEN NPages ELSE 0]
    /\ PageProperty = {0}
    /\ nr_free = NPages
    /\ held = {}
    /\ damage = "none"
    /\ stopped = "no"

FFNext ==
    \/ \E n \in 1..NPages : alloc_pages(n)
    \/ \E base \in Page : \E n \in 1..(NPages - base) : free_pages(base, n)

FFSpec == FFInit /\ [][FFNext]_ffvars

------------------------------------------------------------------------------
(* Properties *)

Typed ==
    /\ links \in [next : [Entry -> Entry], prev : [Entry -> Entry]]
    /\ property \in [Page -> 0..NPages]

Block(e) == Run(e, property[e])

\* The list is ordered, its blocks are disjoint and together they are the pages
\* nobody holds; sizes, flags and nr_free agree with it.
BlocksExact ==
    LET free == Linked(links)
    IN  /\ UNION {Block(e) : e \in free} = Page \ held
        /\ \A e, f \in free : e < f => e + property[e] <= f
        /\ \A e \in free : links.next[e] = free_list \/ e < links.next[e]
        /\ PageProperty = free
        /\ nr_free = NPages - Cardinality(held)

\* Neighbouring free blocks have been merged and the list can be walked back, so
\* that alloc_pages fails only when there is no run of n free pages.
Coalesced ==
    \A e \in Linked(links) :
        /\ links.next[e] \in {free_list} \cup (Page \ {e + property[e]})
        /\ links.next[links.prev[e]] = e

\* However blocks are split, freed in parts and merged, the free list is exact,
\* until a block is put behind the last one; even then no page is lost or
\* handed out twice until the link of that block to itself is used.
FreeListExact ==
    /\ Typed
    /\ damage # "torn" => stopped = "no" /\ BlocksExact
    /\ damage = "none" => Coalesced

\* "unlink the pages from free_list": no page of a listed block is handed out.
Unlinked ==
    stopped = "no" => \A e \in Linked(links) : Block(e) \cap held = {}

P == INSTANCE Pages

\* Until then both managers hand out pages as Pages says.
HandOutPages == P!Init /\ [][damage' = "torn" \/ P!Next]_held
==============================================================================
