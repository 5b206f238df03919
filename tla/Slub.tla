--------------------------------- MODULE Slub ----------------------------------
(***************************************************************************)
(* slub_pmm.c: caches of objects of one size, on pages (slabs) of the      *)
(* buddy allocator.  A cache is itself an object of cache_cache.  Pages    *)
(* are also handed out directly, by alloc_pages.                           *)
(***************************************************************************)
EXTENDS Buddy

CONSTANTS
    Nums,           \* the numbers of objects a slab may have, by their size
    MaxCaches       \* bound: caches besides cache_cache

cache_cache == <<-1, -1>>
List == {"slabs_full", "slabs_partial", "slabs_free"}

VARIABLES
    num,            \* by cache: its objects per slab
    lists,          \* by cache: its three lists of slabs
    cachep,         \* by slab: its cache
    inuse,          \* by slab
    bufctl,         \* by slab: its free objects, from slab->free on
    objects,        \* the objects handed out: <<page, index>>
    faulted         \* cache_grow has gone on without a page

svars == <<num, lists, cachep, inuse, bufctl, objects, faulted>>

Caches == DOMAIN num
Slabs == DOMAIN cachep
NoSlabs == [l \in List |-> <<>>]

Without(f, S) == [x \in DOMAIN f \ S |-> f[x]]

\* Taken off the list it is on, and put at the head of another.
Moved(ls, page, l) ==
    [k \in List |-> (IF k = l THEN <<page>> ELSE <<>>) \o SelectSeq(ls[k], LAMBDA p : p # page)]

-----------------------------------------------------------------------------
(* cache_alloc                                                              *)

\* The slab cache_alloc uses without cache_grow.
Ready(c) == IF lists[c].slabs_partial # <<>> THEN lists[c].slabs_partial ELSE lists[c].slabs_free

\* An object is taken from a page whose free objects are chain, of which used are
\* in use already, and the page moves on.
Take(c, page, chain, used) ==
    /\ bufctl' = (page :> Tail(chain)) @@ bufctl
    /\ inuse' = (page :> used + 1) @@ inuse
    /\ cachep' = (page :> c) @@ cachep
    /\ objects' = objects \cup {<<page, Head(chain)>>}

\* Mutant: a full slab stays on the list of partial ones.
OntoPartial(c, page, used) == Moved(lists[c], page, "slabs_partial")

Onto(c, page, used) ==
    Moved(lists[c], page, IF used + 1 = num[c] THEN "slabs_full" ELSE "slabs_partial")

\* cache_alloc on slab page, with the effect on num and lists of the caller, that
\* cache_create extends.
AllocIn(c, page, chain, used) ==
    /\ Take(c, page, chain, used)
    /\ lists' = [lists EXCEPT ![c] = Onto(c, page, used)]
    /\ UNCHANGED <<num, faulted>>

\* cache_create takes an object of cache_cache for a cache with n objects per slab.
CreateIn(n, page, chain, used) ==
    LET c == <<page, Head(chain)>>
    IN  /\ Take(cache_cache, page, chain, used)
        /\ lists' = (c :> NoSlabs) @@ [lists EXCEPT ![cache_cache] = Onto(cache_cache, page, used)]
        /\ num' = (c :> n) @@ num
        /\ UNCHANGED faulted

\* cache_grow takes a page from the buddy allocator, whose page it is then.
Grown(c) == FirstPage(Chosen(1))
AllFree(c) == [i \in 1..num[c] |-> i - 1]

\* cache_alloc, the object going to Use.
From(c, Use(_, _, _)) ==
    \/ /\ Ready(c) # <<>>
       /\ LET page == Head(Ready(c)) IN Use(page, bufctl[page], inuse[page])
       /\ UNCHANGED bvars
    \/ /\ Ready(c) = <<>>
       /\ buddy_alloc_pages(1)
       /\ Use(Grown(c), AllFree(c), 0)

\* cache_grow does not look at what alloc_page returns, and writes through NULL.
Fault(c) ==
    /\ Ready(c) = <<>> /\ ~ Available(1)
    /\ faulted' = TRUE
    /\ UNCHANGED <<bvars, num, lists, cachep, inuse, bufctl, objects>>

cache_alloc(c) ==
    \/ From(c, LAMBDA page, chain, used : AllocIn(c, page, chain, used))
    \/ Fault(c)

cache_create(n) ==
    \/ From(cache_cache, LAMBDA page, chain, used : CreateIn(n, page, chain, used))
    \/ Fault(cache_cache)

-----------------------------------------------------------------------------

\* The slab of an object that is freed goes to the list it belongs on, the object
\* to the head of its chain.
BackOn(ls, page) ==
    Moved(ls, page, IF inuse[page] = 1 THEN "slabs_free" ELSE "slabs_partial")

PutBack(obj) ==
    /\ inuse' = [inuse EXCEPT ![obj[1]] = @ - 1]
    /\ bufctl' = [bufctl EXCEPT ![obj[1]] = <<obj[2]>> \o @]
    /\ objects' = objects \ {obj}

\* cache_free of an object that is not a cache: cache_destroy frees those.
cache_free(obj) ==
    LET page == obj[1]
    IN  /\ PutBack(obj)
        /\ lists' = [lists EXCEPT ![cachep[page]] = BackOn(@, page)]
        /\ UNCHANGED <<bvars, num, cachep, faulted>>

\* slab_destroy takes the slab off its list and gives the page back.
Destroyed(pages) ==
    /\ cachep' = Without(cachep, Range(pages))
    /\ buddy_free_pages(pages)

\* As check_slub calls it: on a slab all of whose objects are free.
slab_destroy(page) ==
    LET c == cachep[page]
    IN  /\ c # cache_cache /\ page \in Range(lists[c].slabs_free)
        /\ Destroyed(<<page>>)
        /\ inuse' = Without(inuse, {page})
        /\ bufctl' = Without(bufctl, {page})
        /\ lists' = [lists EXCEPT ![c].slabs_free = SelectSeq(@, LAMBDA p : p # page)]
        /\ UNCHANGED <<num, objects, faulted>>

\* All slabs of the cache go, with the objects still handed out, and the cache
\* itself is freed, to cache_cache.
cache_destroy(c) ==
    LET ls == lists[c]
        pages == ls.slabs_full \o ls.slabs_partial \o ls.slabs_free
        page == c[1]
    IN  /\ c # cache_cache
        /\ Destroyed(pages)
        /\ inuse' = Without([inuse EXCEPT ![page] = @ - 1], Range(pages))
        /\ bufctl' = Without([bufctl EXCEPT ![page] = <<c[2]>> \o @], Range(pages))
        /\ objects' = {o \in objects : o # c /\ o[1] \notin Range(pages)}
        /\ lists' = Without([lists EXCEPT ![cache_cache] = BackOn(@, page)], {c})
        /\ num' = Without(num, {c})
        /\ UNCHANGED faulted

-----------------------------------------------------------------------------

SlubInit ==
    /\ BuddyInit
    /\ num \in [{cache_cache} -> Nums]
    /\ lists = (cache_cache :> NoSlabs)
    /\ cachep = <<>> /\ inuse = <<>> /\ bufctl = <<>>
    /\ objects = {}
    /\ faulted = FALSE

\* A page handed out by alloc_pages, not a slab.
DirectPages == DOMAIN blocks \ Slabs

SlubNext ==
    /\ ~ faulted
    /\ \/ \E c \in Caches \ {cache_cache} : cache_alloc(c) \/ cache_destroy(c)
       \/ \E n \in Nums : Cardinality(Caches) <= MaxCaches /\ cache_create(n)
       \/ \E obj \in objects \ Caches : cache_free(obj)
       \/ \E page \in Slabs : slab_destroy(page)
       \/ /\ UNCHANGED svars
          /\ \/ \E n \in 1..size : buddy_alloc_pages(n)
             \/ \E page \in DirectPages : buddy_free_pages(<<page>>)

------------------------------------------------------------------------------
(* Properties *)

ListOf(page) ==
    CASE inuse[page] = num[cachep[page]] -> "slabs_full"
      [] inuse[page] = 0 -> "slabs_free"
      [] OTHER -> "slabs_partial"

\* An object is either handed out, once, or on the chain of its slab; inuse counts
\* the first, a slab is on the one list that goes with it, and slabs are pages
\* that the buddy allocator has handed out and nobody else has.
ObjectsExact ==
    /\ \A page \in Slabs :
          LET c == cachep[page]
              out == {o[2] : o \in {x \in objects : x[1] = page}}
          IN  /\ page \in DOMAIN blocks /\ blocks[page] = 1
              /\ out \cap Range(bufctl[page]) = {}
              /\ out \cup Range(bufctl[page]) = 0..(num[c] - 1)
              /\ Len(bufctl[page]) = num[c] - inuse[page]
              /\ inuse[page] = Cardinality(out)
    /\ \A c \in Caches, l \in List :
          /\ IsInjective(lists[c][l])
          /\ Range(lists[c][l]) = {page \in Slabs : cachep[page] = c /\ ListOf(page) = l}
    /\ {o[1] : o \in objects} \subseteq Slabs
    /\ Caches \ {cache_cache} = {o \in objects : cachep[o[1]] = cache_cache}
==============================================================================
