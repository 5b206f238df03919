-------------------------------- MODULE Stride --------------------------------
(***************************************************************************)
(* The stride scheduling class and the skew heap it keeps the run queue    *)
(* in.  Strides have W bits and wrap round; they are compared through the  *)
(* sign of their difference.                                               *)
(***************************************************************************)
EXTENDS Integers, FiniteSets, Sequences

CONSTANTS
    Proc,
    None,           \* no process: idleproc runs
    W,              \* width of a stride: 32 in the code
    Priorities      \* arguments of lab6_set_priority

ASSUME WidthAssumption == W \in Nat /\ W >= 2
ASSUME PrioritiesAssumption == Priorities \subseteq Nat

VARIABLES
    stride, priority,   \* lab6_stride and lab6_priority
    run_pool,           \* the skew heap of the queued processes
    state,              \* of each process: free, asleep, queued or running
    current,            \* the running process, or None
    churn               \* never changes: whether processes sleep, wake, fork
                        \* and exit with the default priority, or stay and
                        \* set their priorities

vars == <<stride, priority, run_pool, state, current, churn>>

BIG_STRIDE == 2 ^ (W - 2)

\* The value of a W-bit difference read as a signed number.
Signed(n) ==
    LET m == n % 2 ^ W IN IF m < 2 ^ (W - 1) THEN m ELSE m - 2 ^ W

\* Mutant: strides are compared as the unsigned numbers they are.
BeforeUnsigned(p, q, strides) == strides[p] < strides[q]

\* proc_stride_comp_f gives -1.
Before(p, q, strides) == Signed(strides[p] - strides[q]) < 0

NULL == [proc |-> None]
Node(p, left, right) == [proc |-> p, left |-> left, right |-> right]

\* The parent pointers follow from the shape of the tree.
RECURSIVE skew_heap_merge(_, _, _)
skew_heap_merge(a, b, strides) ==
    IF a = NULL THEN b
    ELSE IF b = NULL THEN a
    ELSE IF Before(a.proc, b.proc, strides)
    THEN Node(a.proc, skew_heap_merge(a.right, b, strides), a.left)
    ELSE Node(b.proc, skew_heap_merge(a, b.right, strides), b.left)

Insert(heap, p, strides) == skew_heap_merge(heap, Node(p, NULL, NULL), strides)

\* Mutant: skew_heap_remove keeps one of the two parts below the root.
WithoutRootLeft(heap) == heap.left

\* stride_dequeue is only asked for the root, which stride_pick_next has chosen.
WithoutRoot(heap) == skew_heap_merge(heap.left, heap.right, stride)

Pass(p) == IF priority[p] = 0 THEN BIG_STRIDE ELSE BIG_STRIDE \div priority[p]

\* Mutant: the stride of the process that is picked stays as it is.
AdvancedNot(p) == stride[p]

\* The stride stride_pick_next gives the process it picks.
Advanced(p) == (stride[p] + Pass(p)) % 2 ^ W

\* proc_init: idleproc has forked initproc.
Init ==
    /\ stride = [p \in Proc |-> 0]
    /\ priority = [p \in Proc |-> 0]
    /\ current = None
    /\ churn \in BOOLEAN
    /\ \E initproc \in Proc :
          /\ run_pool = Node(initproc, NULL, NULL)
          /\ state = [p \in Proc |-> IF p = initproc THEN "queued" ELSE "free"]

\* schedule() once current, if it stays runnable, has been put into the heap.
PickFrom(heap, states) ==
    IF heap = NULL
    THEN /\ current' = None /\ run_pool' = NULL /\ state' = states
         /\ UNCHANGED stride
    ELSE LET next == heap.proc
         IN  /\ current' = next
             /\ run_pool' = WithoutRoot(heap)
             /\ state' = [states EXCEPT ![next] = "running"]
             /\ stride' = [stride EXCEPT ![next] = Advanced(next)]

\* The running process is preempted or yields, or cpu_idle calls schedule().
Schedule ==
    /\ IF current = None
       THEN PickFrom(run_pool, state)
       ELSE PickFrom(Insert(run_pool, current, stride), [state EXCEPT ![current] = "queued"])
    /\ UNCHANGED <<priority, churn>>

\* The running process goes to sleep or exits.
Block(to) ==
    /\ churn /\ current # None
    /\ PickFrom(run_pool, [state EXCEPT ![current] = to])
    /\ UNCHANGED <<priority, churn>>

Wake(p) ==
    /\ churn /\ state[p] = "asleep"
    /\ run_pool' = Insert(run_pool, p, stride)
    /\ state' = [state EXCEPT ![p] = "queued"]
    /\ UNCHANGED <<stride, priority, current, churn>>

\* alloc_proc clears stride and priority, wakeup_proc queues the child.  Without
\* churn processes are only forked while nobody has run for long.
Fork(p) ==
    /\ current # None /\ state[p] = "free"
    /\ churn \/ \A q \in Proc : state[q] # "free" => stride[q] <= BIG_STRIDE
    /\ stride' = [stride EXCEPT ![p] = 0]
    /\ priority' = [priority EXCEPT ![p] = 0]
    /\ state' = [state EXCEPT ![p] = "queued"]
    /\ run_pool' = Insert(run_pool, p, stride')
    /\ UNCHANGED <<current, churn>>

lab6_set_priority(n) ==
    /\ ~ churn /\ current # None
    /\ priority' = [priority EXCEPT ![current] = IF n = 0 THEN 1 ELSE n]
    /\ UNCHANGED <<stride, run_pool, state, current, churn>>

Next ==
    \/ Schedule
    \/ \E to \in {"asleep", "free"} : Block(to)
    \/ \E p \in Proc : Wake(p) \/ Fork(p)
    \/ \E n \in Priorities : lab6_set_priority(n)

\* The clock preempts the running process again and again.
Spec == Init /\ [][Next]_vars /\ WF_vars(Schedule)

------------------------------------------------------------------------------
(* Properties *)

RECURSIVE Nodes(_)
Nodes(heap) ==
    IF heap = NULL THEN <<>> ELSE <<heap.proc>> \o Nodes(heap.left) \o Nodes(heap.right)

\* However often processes are merged in and taken out, the heap holds every
\* queued process once and nothing else.
HeapExact ==
    LET nodes == Nodes(run_pool)
    IN  /\ Len(nodes) = Cardinality({p \in Proc : state[p] = "queued"})
        /\ {p \in Proc : state[p] = "queued"} = {nodes[i] : i \in DOMAIN nodes}
        /\ \A p \in Proc : state[p] = "running" <=> p = current
        /\ \A p \in Proc : stride[p] \in 0..(2 ^ W - 1)

\* stride_pick_next gives the process with the minimum stride: nobody in the
\* heap goes before its root.
PicksMinimum ==
    \A p \in Proc : state[p] = "queued" => ~ Before(p, run_pool.proc, stride)

\* Among processes that stay, nobody gets more than BIG_STRIDE ahead of another,
\* so that the comparison is right in spite of the wrap-around and the CPU is
\* shared in proportion to the priorities.
Ahead(p, q) == Signed(stride[p] - stride[q])
FairShare == ~ churn =>
    /\ PicksMinimum
    /\ \A p, q \in {r \in Proc : state[r] # "free"} :
          Ahead(p, q) <= BIG_STRIDE /\ Ahead(q, p) = -Ahead(p, q)

\* With three processes of the default priority, each queued process gets the
\* CPU in the end, whatever strides sleepers come back with, if no more processes
\* are forked.  (A chain of processes that each fork the next one before they exit
\* does starve the others: a child starts at stride 0 and goes before its equals.)
ForksEnd == <>[][\A p \in Proc : ~ Fork(p)]_vars
EveryoneRuns ==
    ForksEnd => \A p \in Proc : state[p] = "queued" ~> state[p] = "running"
==============================================================================
