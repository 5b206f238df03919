--------------------------------- MODULE Buddy ---------------------------------
(***************************************************************************)
(* buddy_system_pmm.c, the same code that slub_pmm.c has: one zone of      *)
(* memory under a complete binary tree.  Node i holds in longest[i] the    *)
(* size of the largest free block below it; a handed out block is a node   *)
(* with 0, and what is below such a node is not looked at.                 *)
(***************************************************************************)
EXTENDS Integers, FiniteSets, SequencesExt

CONSTANTS
    zone,               \* the pages init_memmap was given, its n
    longest_num_page    \* those of them that hold the tree

VARIABLES
    longest,
    free_size,
    blocks          \* the blocks handed out: size by first page

bvars == <<longest, free_size, blocks>>

\* 2^64 - 1 with all bits set becomes 0 again, so that 0 gives 0.
next_power_of_2(n) ==
    IF n = 0 THEN 0 ELSE 2^(CHOOSE k \in 0..n : n <= 2^k /\ 2^k < 2 * n)

\* What init_memmap computes from n.
size == next_power_of_2(zone)
v_alloced_size == next_power_of_2(size - zone)
Managed == size - v_alloced_size

\* init_memmap never ends when n is a power of two, as no node is 0 pages wide; and
\* it asserts less than that the managed pages behind the tree are in the zone.
Fitting == zone # size /\ Managed <= zone - longest_num_page

Node == 0..(2 * size - 2)
LEFT_LEAF(i) == 2 * i + 1
RIGHT_LEAF(i) == 2 * i + 2
Leaf(page) == page + size - 1

\* How often i + 1 can be halved: the steps from node i up to the root.
Level(i) == CHOOSE k \in 0..i : 2^k <= i + 1 /\ i + 1 < 2^(k + 1)

\* The nodes on the way from i to the root, without i.
Above(i) == {(i + 1) \div 2^k - 1 : k \in 1..Level(i)}

\* The width of a node: halved whenever i + 1 is a power of two.
NodeSize(i) == size \div 2^Level(i)
FirstPage(i) == (i + 1) * NodeSize(i) - size
Span(i) == FirstPage(i)..(FirstPage(i) + NodeSize(i) - 1)

-----------------------------------------------------------------------------

\* L with node i set to v, and the nodes above it recomputed by Join.
Updated(L, i, v, Join(_, _, _)) ==
    LET above == Above(i)
        new[j \in Node] ==
            IF j = i THEN v
            ELSE IF j \in above THEN Join(j, new[LEFT_LEAF(j)], new[RIGHT_LEAF(j)])
            ELSE L[j]
    IN  new

Larger(j, a, b) == IF a > b THEN a ELSE b

\* Mutant: the node is as large as both halves.
Summed(j, a, b) == a + b

\* Mutant: two free halves are not put together.
MergedNever(j, a, b) == Larger(j, a, b)

\* free_pages puts two halves together that are free as a whole.
Merge(j, a, b) == IF a + b = NodeSize(j) THEN NodeSize(j) ELSE Larger(j, a, b)

\* The node alloc_pages descends to for n pages: to the left where n pages fit.
Chosen(n) ==
    LET down[i \in Node] ==
            IF NodeSize(i) = n THEN i
            ELSE IF longest[LEFT_LEAF(i)] >= n THEN down[LEFT_LEAF(i)]
            ELSE down[RIGHT_LEAF(i)]
    IN  down[0]

\* alloc_pages gives a whole node: n rounded up to a power of two.
Available(n) == longest[0] >= next_power_of_2(n)

buddy_alloc_pages(n) ==
    LET i == Chosen(next_power_of_2(n))
    IN  /\ Available(n)
        /\ longest' = Updated(longest, i, 0, Larger)
        /\ free_size' = free_size - NodeSize(i)
        /\ blocks' = (FirstPage(i) :> NodeSize(i)) @@ blocks

\* free_pages ignores n and climbs from the leaf to the first node with 0.
Found(tree, page) == Max({i \in {Leaf(page)} \cup Above(Leaf(page)) : tree[i] = 0})

\* The tree after free_pages of several pages in a row.
Released(pages) ==
    FoldLeft(LAMBDA t, page :
                LET i == Found(t.tree, page)
                IN  [tree |-> Updated(t.tree, i, NodeSize(i), Merge), free |-> t.free + NodeSize(i)],
             [tree |-> longest, free |-> free_size], pages)

buddy_free_pages(pages) ==
    /\ Range(pages) \subseteq DOMAIN blocks
    /\ longest' = Released(pages).tree
    /\ free_size' = Released(pages).free
    /\ blocks' = [p \in DOMAIN blocks \ Range(pages) |-> blocks[p]]

-----------------------------------------------------------------------------

\* All nodes are free, but for the rightmost one of v_alloced_size pages.
BuddyInit ==
    /\ Fitting
    /\ LET excess == CHOOSE i \in Node :
                        NodeSize(i) = v_alloced_size /\ Span(i) \cap 0..(Managed - 1) = {}
       IN  longest = Updated([i \in Node |-> NodeSize(i)], excess, 0, Larger)
    /\ free_size = Managed
    /\ blocks = <<>>

BuddyNext ==
    \/ \E n \in 1..size : buddy_alloc_pages(n)
    \/ \E page \in DOMAIN blocks : buddy_free_pages(<<page>>)

------------------------------------------------------------------------------
(* Properties *)

Handed == UNION {p..(p + blocks[p] - 1) : p \in DOMAIN blocks}
FreePages == 0..(Managed - 1) \ Handed

\* A handed out block, or the excess, is a node with 0 over nodes that are whole;
\* every other node knows the largest free node below it, so that alloc_pages fails
\* only when there is none, and free_size counts the free pages.
TreeExact ==
    LET taken == {i \in Node : FirstPage(i) \in DOMAIN blocks /\ blocks[FirstPage(i)] = NodeSize(i)}
                 \cup {i \in Node : FirstPage(i) = Managed /\ NodeSize(i) = v_alloced_size}
        free == FreePages
        whole == {i \in Node : Span(i) \subseteq free}
        Largest(i) == Max({0} \cup {NodeSize(j) : j \in {k \in whole : k = i \/ i \in Above(k)}})
    IN  /\ \A p \in DOMAIN blocks : DOMAIN blocks \cap p..(p + blocks[p] - 1) = {p}
        /\ Handed \subseteq 0..(Managed - 1)
        /\ free_size = Cardinality(free)
        /\ \A i \in Node :
               longest[i] = IF Above(i) \cap taken # {} THEN NodeSize(i) ELSE Largest(i)

P == INSTANCE Pages WITH NPages <- Managed, held <- Handed
==============================================================================
