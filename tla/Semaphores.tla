------------------------------ MODULE Semaphores ------------------------------
(***************************************************************************)
(* The semaphore of sem.c as a value: its count and the processes asleep   *)
(* on it, first come first.  Every operation runs with interrupts disabled.*)
(***************************************************************************)
EXTENDS Integers, Sequences

sem_init(value) == [value |-> value, wait_queue |-> <<>>]

\* __down takes a unit if there is one and goes to sleep otherwise.
MustWait(sem) == sem.value = 0

Counted(sem, change) == [value |-> sem.value + change, wait_queue |-> sem.wait_queue]
Queued(sem, queue) == [value |-> sem.value, wait_queue |-> queue]

\* Mutant: wait_queue_add puts the newcomer at the head of the queue.
downFirst(sem, p) ==
    IF MustWait(sem) THEN Queued(sem, <<p>> \o sem.wait_queue) ELSE Counted(sem, -1)

down(sem, p) ==
    IF MustWait(sem) THEN Queued(sem, Append(sem.wait_queue, p)) ELSE Counted(sem, -1)

\* Mutant: __up counts the unit it hands to the first waiter.
upCounted(sem) ==
    IF sem.wait_queue = <<>>
    THEN Counted(sem, 1)
    ELSE Counted(Queued(sem, Tail(sem.wait_queue)), 1)

\* __up hands the unit to the first waiter, or counts it if there is none.
up(sem) ==
    IF sem.wait_queue = <<>> THEN Counted(sem, 1) ELSE Queued(sem, Tail(sem.wait_queue))

\* Whom __up wakes.
WokenBy(sem) ==
    IF sem.wait_queue = <<>> THEN {} ELSE {Head(sem.wait_queue)}

Waiting(sem, p) == \E i \in DOMAIN sem.wait_queue : sem.wait_queue[i] = p

\* What is left of the queue when p finds itself still linked after schedule().
wait_current_del(sem, p) ==
    IF Waiting(sem, p)
    THEN LET i == CHOOSE i \in DOMAIN sem.wait_queue : sem.wait_queue[i] = p
             queue == sem.wait_queue
         IN  Queued(sem, SubSeq(queue, 1, i - 1) \o SubSeq(queue, i + 1, Len(queue)))
    ELSE sem
==============================================================================
