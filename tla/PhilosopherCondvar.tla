--------------------------- MODULE PhilosopherCondvar ---------------------------
(***************************************************************************)
(* The philosophers of check_sync.c that use the monitor of monitor.c.     *)
(* cond_signal hands the monitor to the waiter and waits on the semaphore  *)
(* next to get it back.  A thread may be switched out between any two      *)
(* operations on semaphores.                                               *)
(***************************************************************************)
EXTENDS Semaphores, Integers, FiniteSets

CONSTANTS N, TIMES      \* as in PhilosopherSema

Phil == 0..(N - 1)
LEFT(i) == (i + N - 1) % N
RIGHT(i) == (i + 1) % N

VARIABLES
    state_condvar,
    mutex, next,    \* the semaphores of the monitor
    next_count,     \* signallers that wait to get the monitor back
    cv,             \* cv[i].sem and cv[i].count of the condition variables
    pc,             \* what each philosopher does next, see Places
    sub,            \* where it is inside cond_signal and cond_wait, see Calls
    iter            \* meals it has had

vars == <<state_condvar, mutex, next, next_count, cv, pc, sub, iter>>

\* phi_take_forks_condvar is "take" to "taken", phi_put_forks_condvar "put" to
\* "leave".
Places == {"think", "take", "hungry", "test", "check", "taken",
           "eat", "put", "thinking", "left", "right", "leave", "quit"}
\* cond_signal: "handing" before down(&next), "regaining" after it;
\* cond_wait: "waiting" before down(&cv.sem), "signalled" after it.
Calls == {"none", "handing", "regaining", "waiting", "signalled"}

Init ==
    /\ state_condvar = [i \in Phil |-> "THINKING"]
    /\ mutex = sem_init(1)
    /\ next = sem_init(0)
    /\ next_count = 0
    /\ cv = [i \in Phil |-> [sem |-> sem_init(0), count |-> 0]]
    /\ pc = [i \in Phil |-> "think"]
    /\ sub = [i \in Phil |-> "none"]
    /\ iter = [i \in Phil |-> 0]

Asleep(i) == Waiting(mutex, i) \/ Waiting(next, i) \/ Waiting(cv[i].sem, i)

\* Where a philosopher goes on after each place.
After(place) ==
    CASE place = "think" -> "take" [] place = "take" -> "hungry"
      [] place = "hungry" -> "test" [] place = "test" -> "check"
      [] place = "check" -> "taken" [] place = "taken" -> "eat"
      [] place = "eat" -> "put" [] place = "put" -> "thinking"
      [] place = "thinking" -> "left" [] place = "left" -> "right"
      [] place = "right" -> "leave"

Goes(i) == pc' = [pc EXCEPT ![i] = After(pc[i])] /\ UNCHANGED <<sub, iter>>

At(i, place) == pc[i] = place /\ sub[i] = "none" /\ ~ Asleep(i)

\* do_sleep: thinking and eating take some ticks.
SleepOver(i) ==
    /\ At(i, "think") \/ At(i, "eat")
    /\ Goes(i)
    /\ UNCHANGED <<state_condvar, mutex, next, next_count, cv>>

DownMutex(i) ==
    /\ At(i, "take") \/ At(i, "put")
    /\ mutex' = down(mutex, i)
    /\ Goes(i)
    /\ UNCHANGED <<state_condvar, next, next_count, cv>>

Hungry(i) ==
    /\ At(i, "hungry")
    /\ state_condvar' = [state_condvar EXCEPT ![i] = "HUNGRY"]
    /\ Goes(i)
    /\ UNCHANGED <<mutex, next, next_count, cv>>

Thinking(i) ==
    /\ At(i, "thinking")
    /\ state_condvar' = [state_condvar EXCEPT ![i] = "THINKING"]
    /\ Goes(i)
    /\ UNCHANGED <<mutex, next, next_count, cv>>

\* Mutant: only one neighbour is looked at.
MayEatRight(i) == state_condvar[i] = "HUNGRY" /\ state_condvar[RIGHT(i)] # "EATING"

MayEat(i) ==
    /\ state_condvar[i] = "HUNGRY"
    /\ state_condvar[LEFT(i)] # "EATING" /\ state_condvar[RIGHT(i)] # "EATING"

\* Mutant: the signaller goes on without waiting for the monitor to come back.
HandOverOnly(i, c) ==
    /\ cv' = [cv EXCEPT ![c].sem = up(@)]
    /\ pc' = [pc EXCEPT ![i] = After(pc[i])]
    /\ UNCHANGED <<next_count, sub>>

\* cond_signal on cv[c] up to its down(&next), if somebody waits.
HandOver(i, c) ==
    /\ next_count' = next_count + 1
    /\ cv' = [cv EXCEPT ![c].sem = up(@)]
    /\ sub' = [sub EXCEPT ![i] = "handing"]
    /\ UNCHANGED pc

\* phi_test_condvar(c), called by i: cond_signal comes last in it.
phi_test_condvar(i, c) ==
    IF ~ MayEat(c)
    THEN Goes(i) /\ UNCHANGED <<state_condvar, next_count, cv>>
    ELSE /\ state_condvar' = [state_condvar EXCEPT ![c] = "EATING"]
         /\ IF cv[c].count > 0
            THEN HandOver(i, c) /\ UNCHANGED iter
            ELSE Goes(i) /\ UNCHANGED <<next_count, cv>>

Test(i) ==
    /\ \/ At(i, "test") /\ phi_test_condvar(i, i)
       \/ At(i, "left") /\ phi_test_condvar(i, LEFT(i))
       \/ At(i, "right") /\ phi_test_condvar(i, RIGHT(i))
    /\ UNCHANGED <<mutex, next>>

\* down(&next) in cond_signal.
WaitNext(i) ==
    /\ sub[i] = "handing"
    /\ next' = down(next, i)
    /\ sub' = [sub EXCEPT ![i] = "regaining"]
    /\ UNCHANGED <<state_condvar, mutex, next_count, cv, pc, iter>>

\* The end of cond_signal.
Regain(i) ==
    /\ sub[i] = "regaining" /\ ~ Asleep(i)
    /\ next_count' = next_count - 1
    /\ sub' = [sub EXCEPT ![i] = "none"]
    /\ pc' = [pc EXCEPT ![i] = After(pc[i])]
    /\ UNCHANGED <<state_condvar, mutex, next, cv, iter>>

\* A thread that leaves the monitor, or waits in it, gives it to a signaller if
\* there is one, else to anybody.
Release ==
    IF next_count > 0
    THEN next' = up(next) /\ UNCHANGED mutex
    ELSE mutex' = up(mutex) /\ UNCHANGED next

\* Mutant: a philosopher does not wait for the forks it did not get.
CheckAlways(i) ==
    /\ At(i, "check")
    /\ Goes(i)
    /\ UNCHANGED <<state_condvar, mutex, next, next_count, cv>>

\* cond_wait up to its down(&cv.sem), if i is still hungry.
Check(i) ==
    /\ At(i, "check")
    /\ IF state_condvar[i] = "HUNGRY"
       THEN /\ cv' = [cv EXCEPT ![i].count = @ + 1]
            /\ Release
            /\ sub' = [sub EXCEPT ![i] = "waiting"]
            /\ UNCHANGED <<pc, iter>>
       ELSE Goes(i) /\ UNCHANGED <<mutex, next, cv>>
    /\ UNCHANGED <<state_condvar, next_count>>

\* down(&cv.sem) in cond_wait.
WaitSignal(i) ==
    /\ sub[i] = "waiting"
    /\ cv' = [cv EXCEPT ![i].sem = down(@, i)]
    /\ sub' = [sub EXCEPT ![i] = "signalled"]
    /\ UNCHANGED <<state_condvar, mutex, next, next_count, pc, iter>>

\* The end of cond_wait.
Signalled(i) ==
    /\ sub[i] = "signalled" /\ ~ Asleep(i)
    /\ cv' = [cv EXCEPT ![i].count = @ - 1]
    /\ sub' = [sub EXCEPT ![i] = "none"]
    /\ pc' = [pc EXCEPT ![i] = After(pc[i])]
    /\ UNCHANGED <<state_condvar, mutex, next, next_count, iter>>

Taken(i) ==
    /\ At(i, "taken")
    /\ Release
    /\ Goes(i)
    /\ UNCHANGED <<state_condvar, next_count, cv>>

Leave(i) ==
    /\ At(i, "leave")
    /\ Release
    /\ iter' = [iter EXCEPT ![i] = @ + 1]
    /\ pc' = [pc EXCEPT ![i] = IF iter'[i] < TIMES THEN "think" ELSE "quit"]
    /\ UNCHANGED <<state_condvar, next_count, cv, sub>>

Step(i) ==
    \/ SleepOver(i) \/ DownMutex(i) \/ Hungry(i) \/ Thinking(i) \/ Test(i)
    \/ WaitNext(i) \/ Regain(i) \/ Check(i) \/ WaitSignal(i) \/ Signalled(i)
    \/ Taken(i) \/ Leave(i)

\* check_sync waits for all of them.
Done == (\A i \in Phil : pc[i] = "quit") /\ UNCHANGED vars

Next == (\E i \in Phil : Step(i)) \/ Done

\* Every runnable philosopher gets the CPU, and every sleep ends.
Spec == Init /\ [][Next]_vars /\ \A i \in Phil : WF_vars(Step(i))

------------------------------------------------------------------------------
(* Properties *)

SemType == [value : 0..1, wait_queue : Seq(Phil)]

TypesOK ==
    /\ state_condvar \in [Phil -> {"THINKING", "HUNGRY", "EATING"}]
    /\ mutex \in SemType /\ next \in SemType
    /\ next_count \in 0..N
    /\ cv \in [Phil -> [sem : SemType, count : 0..1]]
    /\ pc \in [Phil -> Places] /\ sub \in [Phil -> Calls]
    /\ iter \in [Phil -> 0..TIMES]

InMonitor == {"hungry", "test", "check", "taken", "thinking", "left", "right", "leave"}

\* Who runs inside the monitor: in its routines, and not waiting for a signal or
\* for the monitor to come back.
Owners ==
    {i \in Phil : pc[i] \in InMonitor /\ sub[i] \notin {"handing", "waiting"} /\ ~ Asleep(i)}

\* The monitor is with exactly one thread, or on the way to one in exactly one of
\* the semaphores: signals neither duplicate nor lose it.
OneOwner ==
    Cardinality(Owners) + mutex.value + next.value
        + Cardinality({i \in Phil : cv[i].sem.value = 1}) = 1

\* The counters say who waits: cv[i].count for i in cond_wait, next_count for the
\* threads in cond_signal.
CountsExact ==
    /\ \A i \in Phil : cv[i].count = IF sub[i] \in {"waiting", "signalled"} THEN 1 ELSE 0
    /\ next_count = Cardinality({i \in Phil : sub[i] \in {"handing", "regaining"}})

\* The monitor has one owner and its counters tell how it goes on.
MonitorSound == TypesOK /\ OneOwner /\ CountsExact

\* cond_wait returns with what was waited for still true, so that a single look at
\* the state (if, not while) is enough before it.
SignalledEats ==
    \A i \in Phil :
        \/ sub[i] = "signalled" /\ ~ Asleep(i)
        \/ pc[i] \in {"taken", "eat", "put"}
        => state_condvar[i] = "EATING"

Table == INSTANCE Dining WITH state <- state_condvar

\* The monitor implements the dining table.
ImplementsDining == Table!Spec
==============================================================================
