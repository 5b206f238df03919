----------------------------- MODULE SemaphoreLock -----------------------------
(***************************************************************************)
(* Processes that share Permits units of a resource through one semaphore, *)
(* as the kernel does with its locks (Permits = 1: the mutex of a monitor, *)
(* mm_sem, the locks of the file system), while others kill them.          *)
(***************************************************************************)
EXTENDS Semaphores, Integers, FiniteSets

CONSTANTS Proc, Permits

ASSUME PermitsAssumption == Permits \in Nat \ {0}
ASSUME ProcAssumption == IsFiniteSet(Proc)

VARIABLES
    sem,            \* the semaphore
    at,             \* where each process is, see LockPlaces
    wakeup_flags,   \* of the wait_t on the stack of __down
    exiting         \* processes with PF_EXITING set

lockvars == <<sem, at, wakeup_flags, exiting>>

\* "asleep": in the schedule() of __down; "woken": runnable, still in __down;
\* "holding": down or try_down has returned.
LockPlaces == {"outside", "asleep", "woken", "holding"}
Flags == {"INTERRUPTED", "KSEM"}

LockInit ==
    /\ sem = sem_init(Permits)
    /\ at = [p \in Proc |-> "outside"]
    /\ wakeup_flags = [p \in Proc |-> "INTERRUPTED"]
    /\ exiting = {}

Down(p) ==
    /\ at[p] = "outside"
    /\ sem' = down(sem, p)
    /\ at' = [at EXCEPT ![p] = IF MustWait(sem) THEN "asleep" ELSE "holding"]
    /\ wakeup_flags' = [wakeup_flags EXCEPT ![p] = "INTERRUPTED"]
    /\ UNCHANGED exiting

\* The rest of __down; the caller asserts that it was not interrupted.
Resume(p) ==
    /\ at[p] = "woken"
    /\ sem' = wait_current_del(sem, p)
    /\ at' = [at EXCEPT ![p] = "holding"]
    /\ UNCHANGED <<wakeup_flags, exiting>>

\* A try_down that finds a unit; one that does not changes nothing.
TryDown(p) ==
    /\ at[p] = "outside"
    /\ sem.value > 0
    /\ sem' = Counted(sem, -1)
    /\ at' = [at EXCEPT ![p] = "holding"]
    /\ UNCHANGED <<wakeup_flags, exiting>>

Up(p) ==
    /\ at[p] = "holding"
    /\ sem' = up(sem)
    /\ at' = [q \in Proc |-> IF q = p THEN "outside"
                             ELSE IF q \in WokenBy(sem) THEN "woken" ELSE at[q]]
    /\ wakeup_flags' = [q \in Proc |->
           IF q \in WokenBy(sem) THEN "KSEM" ELSE wakeup_flags[q]]
    /\ UNCHANGED exiting

\* Mutant: do_kill wakes every sleeper, interruptible or not.
InterruptSleep(p) == at' = [at EXCEPT ![p] = IF @ = "asleep" THEN "woken" ELSE @]

\* What do_kill does to a process that may be asleep with WT_KSEM, whose wait
\* state has no WT_INTERRUPTED bit.
LeaveAsleep(p) == UNCHANGED at

Kill(p) ==
    /\ p \notin exiting
    /\ exiting' = exiting \cup {p}
    /\ LeaveAsleep(p)
    /\ UNCHANGED <<sem, wakeup_flags>>

LockNext == \E p \in Proc : Down(p) \/ Resume(p) \/ TryDown(p) \/ Up(p) \/ Kill(p)

\* Who is runnable runs again, and who holds a unit gives it back.
LockFairness == \A p \in Proc : WF_lockvars(Resume(p)) /\ WF_lockvars(Up(p))

LockSpec == LockInit /\ [][LockNext]_lockvars /\ LockFairness

------------------------------------------------------------------------------
(* Properties *)

LockTypeOK ==
    /\ sem \in [value : 0..Permits, wait_queue : Seq(Proc)]
    /\ at \in [Proc -> LockPlaces]
    /\ wakeup_flags \in [Proc -> Flags]
    /\ exiting \subseteq Proc

\* Who has taken a unit, or has been handed one by __up and will find it so.
Holders == {p \in Proc : at[p] \in {"woken", "holding"}}

\* Units are neither lost nor made: with one, the semaphore is a mutex lock.
UnitsConserved == Cardinality(Holders) + sem.value = Permits

\* The wait queue of the semaphore is exactly the processes asleep in __down.
QueueExact ==
    /\ \A i, j \in DOMAIN sem.wait_queue :
          sem.wait_queue[i] = sem.wait_queue[j] => i = j
    /\ \A p \in Proc :
          at[p] = "asleep" <=> Waiting(sem, p)

\* Nobody waits while a unit is free.
NoIdleUnit == sem.value > 0 => sem.wait_queue = <<>>

\* Who waits is in the queue and waits for a reason.
WaitQueueSound == QueueExact /\ NoIdleUnit

\* The assertion of down: no process comes back from __down but through __up,
\* even if it is killed meanwhile.
DownNotInterrupted == \A p \in Proc : at[p] = "woken" => wakeup_flags[p] = "KSEM"

\* A process asleep on the semaphore is served before those that come later.
\* (Who leaves the queue was its head, and newcomers join behind.)
FirstComeFirstServed ==
    [][\/ sem'.wait_queue = sem.wait_queue
       \/ \E p \in Proc : sem'.wait_queue = Append(sem.wait_queue, p)
       \/ sem.wait_queue # <<>> /\ sem'.wait_queue = Tail(sem.wait_queue)]_lockvars
==============================================================================
