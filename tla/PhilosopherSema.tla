---------------------------- MODULE PhilosopherSema ----------------------------
(***************************************************************************)
(* The philosophers of check_sync.c that use semaphores: one mutex for     *)
(* state_sema and one semaphore per philosopher to wait for the forks.     *)
(* A philosopher may be switched out between any two of its operations.    *)
(***************************************************************************)
EXTENDS Semaphores, Integers

CONSTANTS N, TIMES      \* bound: meals of each philosopher

ASSUME NAssumption == N \in Nat /\ N >= 2
ASSUME TimesAssumption == TIMES \in Nat \ {0}

Phil == 0..(N - 1)
LEFT(i) == (i + N - 1) % N
RIGHT(i) == (i + 1) % N

VARIABLES
    state_sema,
    mutex,
    s,          \* s[i]: the semaphore on which i waits for its forks
    pc,         \* what each philosopher does next, see Places
    iter        \* meals it has had

vars == <<state_sema, mutex, s, pc, iter>>

\* phi_take_forks_sema is "take" to "forks", phi_put_forks_sema "put" to "leave".
Places == {"think", "take", "hungry", "test", "taken", "forks",
           "eat", "put", "thinking", "left", "right", "leave", "quit"}

Init ==
    /\ state_sema = [i \in Phil |-> "THINKING"]
    /\ mutex = sem_init(1)
    /\ s = [i \in Phil |-> sem_init(0)]
    /\ pc = [i \in Phil |-> "think"]
    /\ iter = [i \in Phil |-> 0]

\* A philosopher in a wait queue goes on when up takes it off.
Asleep(i) == Waiting(mutex, i) \/ Waiting(s[i], i)

Goes(i, from, to) == pc[i] = from /\ ~ Asleep(i) /\ pc' = [pc EXCEPT ![i] = to]

\* do_sleep: thinking and eating take some ticks.
SleepOver(i) ==
    /\ Goes(i, "think", "take") \/ Goes(i, "eat", "put")
    /\ UNCHANGED <<state_sema, mutex, s, iter>>

DownMutex(i) ==
    /\ Goes(i, "take", "hungry") \/ Goes(i, "put", "thinking")
    /\ mutex' = down(mutex, i)
    /\ UNCHANGED <<state_sema, s, iter>>

Hungry(i) ==
    /\ Goes(i, "hungry", "test")
    /\ state_sema' = [state_sema EXCEPT ![i] = "HUNGRY"]
    /\ UNCHANGED <<mutex, s, iter>>

Thinking(i) ==
    /\ Goes(i, "thinking", "left")
    /\ state_sema' = [state_sema EXCEPT ![i] = "THINKING"]
    /\ UNCHANGED <<mutex, s, iter>>

\* Mutant: only one neighbour is looked at.
MayEatLeft(i) == state_sema[i] = "HUNGRY" /\ state_sema[LEFT(i)] # "EATING"

MayEat(i) ==
    /\ state_sema[i] = "HUNGRY"
    /\ state_sema[LEFT(i)] # "EATING" /\ state_sema[RIGHT(i)] # "EATING"

phi_test_sema(i) ==
    IF MayEat(i)
    THEN /\ state_sema' = [state_sema EXCEPT ![i] = "EATING"]
         /\ s' = [s EXCEPT ![i] = up(@)]
    ELSE UNCHANGED <<state_sema, s>>

\* Mutant: who puts the forks down looks at the right neighbour only.
TestRightOnly(i) ==
    /\ \/ Goes(i, "test", "taken") /\ phi_test_sema(i)
       \/ Goes(i, "left", "right") /\ phi_test_sema(RIGHT(i))
       \/ Goes(i, "right", "leave") /\ phi_test_sema(RIGHT(i))
    /\ UNCHANGED <<mutex, iter>>

Test(i) ==
    /\ \/ Goes(i, "test", "taken") /\ phi_test_sema(i)
       \/ Goes(i, "left", "right") /\ phi_test_sema(LEFT(i))
       \/ Goes(i, "right", "leave") /\ phi_test_sema(RIGHT(i))
    /\ UNCHANGED <<mutex, iter>>

Taken(i) ==
    /\ Goes(i, "taken", "forks")
    /\ mutex' = up(mutex)
    /\ UNCHANGED <<state_sema, s, iter>>

\* Mutant: a philosopher that did not get its forks eats nevertheless.
ForksUnasked(i) ==
    /\ Goes(i, "forks", "eat")
    /\ UNCHANGED <<state_sema, mutex, s, iter>>

Forks(i) ==
    /\ Goes(i, "forks", "eat")
    /\ s' = [s EXCEPT ![i] = down(@, i)]
    /\ UNCHANGED <<state_sema, mutex, iter>>

Leave(i) ==
    /\ Goes(i, "leave", IF iter[i] + 1 < TIMES THEN "think" ELSE "quit")
    /\ mutex' = up(mutex)
    /\ iter' = [iter EXCEPT ![i] = @ + 1]
    /\ UNCHANGED <<state_sema, s>>

Step(i) ==
    \/ SleepOver(i) \/ DownMutex(i) \/ Hungry(i) \/ Thinking(i)
    \/ Test(i) \/ Taken(i) \/ Forks(i) \/ Leave(i)

\* check_sync waits for all of them.
Done == (\A i \in Phil : pc[i] = "quit") /\ UNCHANGED vars

Next == (\E i \in Phil : Step(i)) \/ Done

\* Every runnable philosopher gets the CPU, and every sleep ends.
Spec == Init /\ [][Next]_vars /\ \A i \in Phil : WF_vars(Step(i))

------------------------------------------------------------------------------
(* Properties *)

TypeOK ==
    /\ state_sema \in [Phil -> {"THINKING", "HUNGRY", "EATING"}]
    /\ mutex \in [value : 0..1, wait_queue : Seq(Phil)]
    /\ s \in [Phil -> [value : 0..1, wait_queue : Seq(Phil)]]
    /\ pc \in [Phil -> Places]
    /\ iter \in [Phil -> 0..TIMES]

\* A philosopher sits at its meal only if the table says that it eats.
EatsWithForks ==
    \A i \in Phil : pc[i] \in {"eat", "put"} /\ ~ Asleep(i) => state_sema[i] = "EATING"

\* Whoever is allowed to eat has exactly one unit to get through down(&s[i]):
\* none is left over to let it eat later without forks.
OneInvitation ==
    \A i \in Phil :
        s[i].value = 1 <=> state_sema[i] = "EATING" /\ pc[i] \in {"taken", "forks"}

\* The units of s and the states on the table go together.
InvitationsExact == EatsWithForks /\ OneInvitation

Table == INSTANCE Dining WITH state <- state_sema

\* The semaphores implement the dining table.
ImplementsDining == Table!Spec
==============================================================================
