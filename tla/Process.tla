------------------------------- MODULE Process -------------------------------
(***************************************************************************)
(* Processes of the lab8 kernel: fork, exit, wait, kill, sleep, yield, the *)
(* timer interrupt and schedule(), on one CPU.                             *)
(*                                                                         *)
(* A user process runs its system calls with interrupts disabled, so the   *)
(* code from a trap to the next call of schedule() is one step.  idleproc  *)
(* and initproc are kernel threads: a tick may hit them anywhere outside a *)
(* local_intr_save section.  The kernel itself is never preempted.  pc     *)
(* holds where a process resumes when it is current again.                 *)
(*                                                                         *)
(* Which runnable process the scheduling class picks is left open here     *)
(* (module Stride models that choice), and so is the order of the timers   *)
(* that expire in one tick (module TimerList).                             *)
(***************************************************************************)
EXTENDS Integers, FiniteSets

CONSTANTS
    User,            \* process blocks for user processes
    idleproc, initproc,
    None,            \* no process: a NULL pointer, and "any child" for wait
    KillTargets,     \* the processes user programs call kill on
    MAX_PROCESS,     \* limit of nr_process
    MAX_TIME_SLICE,
    MaxSleep         \* bound: longest sleep, in ticks

Proc == User \cup {idleproc, initproc}

ASSUME DistinctProcs ==
    /\ IsFiniteSet(User)
    /\ idleproc # initproc
    /\ idleproc \notin User /\ initproc \notin User
    /\ None \notin Proc
ASSUME KillAssumption == KillTargets \subseteq User \cup {initproc}
ASSUME BoundAssumption ==
    /\ MAX_PROCESS \in Nat /\ MAX_PROCESS >= 2
    /\ MAX_TIME_SLICE \in Nat \ {0}
    /\ MaxSleep \in Nat

VARIABLES
    state,         \* proc->state; "FREE" is a block that is not allocated
    wait_state,    \* proc->wait_state
    exiting,       \* the processes with PF_EXITING set
    parent,        \* proc->parent; the children of p are the c with parent[c] = p
    pc,            \* where the process continues
    target,        \* the pid do_wait was called with, None for pid 0
    timer,         \* ticks left of the timer of do_sleep, 0 when not linked
    time_slice,    \* proc->time_slice
    need_resched,  \* the processes with need_resched set
    current,       \* the running process
    rq,            \* the processes in the run queue
    nr_process

vars == <<state, wait_state, exiting, parent, pc, target, timer, time_slice,
          need_resched, current, rq, nr_process>>

States     == {"FREE", "SLEEPING", "RUNNABLE", "ZOMBIE"}
WaitStates == {"0", "WT_CHILD", "WT_TIMER"}
PCs        == {"none", "user", "trapret", "wait", "sleep",
               "idle", "start", "scan", "marked", "resume", "again", "halt"}

Live(p)     == state[p] # "FREE"
Children(p) == {c \in User : parent[c] = p}

Init ==
    /\ state = [p \in Proc |-> IF p \in User THEN "FREE" ELSE "RUNNABLE"]
    /\ wait_state = [p \in Proc |-> "0"]
    /\ exiting = {}
    /\ parent = [p \in Proc |-> IF p = initproc THEN idleproc ELSE None]
    /\ pc = [p \in Proc |-> IF p = idleproc THEN "idle"
                            ELSE IF p = initproc THEN "start" ELSE "none"]
    /\ target = [p \in Proc |-> None]
    /\ timer = [p \in Proc |-> 0]
    /\ time_slice = [p \in Proc |-> IF p = initproc THEN MAX_TIME_SLICE ELSE 0]
    /\ need_resched = {idleproc}
    /\ current = idleproc
    /\ rq = {initproc}
    /\ nr_process = 2

------------------------------------------------------------------------------
(* wakeup_proc and schedule, as the new values they give the variables *)

\* The processes of S that wakeup_proc really wakes: it only warns about a
\* runnable one.
Asleep(S) == {p \in S : state[p] # "RUNNABLE"}

\* proc->state after wakeup_proc of every process of S.
Awake(S) == [p \in Proc |-> IF p \in S THEN "RUNNABLE" ELSE state[p]]

\* proc->wait_state after wakeup_proc of every process of S.
Released(S) == [p \in Proc |-> IF p \in Asleep(S) THEN "0" ELSE wait_state[p]]

\* The run queue after the woken processes of S are put on it.
Queued(S) == rq \cup (Asleep(S) \ {current, idleproc})

\* enqueue gives a process whose slice is used up a new one.
Refill(slices, S) ==
    [p \in Proc |-> IF p \in S /\ slices[p] = 0 THEN MAX_TIME_SLICE
                                                ELSE slices[p]]

\* wakeup_proc of the processes of S, with no switch after it.
Wakeup(S) ==
    /\ state' = Awake(S)
    /\ wait_state' = Released(S)
    /\ rq' = Queued(S)

\* Mutant: schedule() queues the running process whatever its state.
PutBackAlways == {current} \ {idleproc}

\* What schedule() puts back on the run queue: state' must be known.
PutBack == {p \in {current} \ {idleproc} : state'[p] = "RUNNABLE"}

\* schedule() with the run queue at queue.
Schedule(queue) ==
    LET ready == queue \cup PutBack
    IN  /\ need_resched' = need_resched \ {current}
        /\ time_slice' = Refill(time_slice, ready \ rq)
        /\ \/ /\ ready = {}
              /\ current' = idleproc
              /\ rq' = {}
           \/ \E next \in ready :
                 /\ current' = next
                 /\ rq' = ready \ {next}

------------------------------------------------------------------------------
(* System calls of the running user process *)

\* The process that is in user mode and traps into the kernel.
InUser(p) == p = current /\ p \in User /\ pc[p] = "user"

Return(p) == pc' = [pc EXCEPT ![p] = "trapret"]

\* alloc_proc, get_pid, set_links and wakeup_proc of do_fork: block c becomes
\* a child of p that will start at entry.
NewChild(p, c) ==
    /\ nr_process < MAX_PROCESS
    /\ state[c] = "FREE"
    /\ state' = [state EXCEPT ![c] = "RUNNABLE"]
    /\ parent' = [parent EXCEPT ![c] = p]
    /\ time_slice' = [time_slice EXCEPT ![c] = MAX_TIME_SLICE]
    /\ rq' = rq \cup {c}
    /\ nr_process' = nr_process + 1

Fork(p, c) ==
    /\ InUser(p)
    /\ NewChild(p, c)
    /\ pc' = [pc EXCEPT ![c] = "user", ![p] = "trapret"]
    /\ UNCHANGED <<wait_state, exiting, target, timer, need_resched, current>>

\* do_fork at the process limit or without memory, do_kill of nobody or of a
\* process already dying, do_sleep(0): the call returns and changes nothing.
FailedCall(p) ==
    /\ InUser(p)
    /\ Return(p)
    /\ UNCHANGED <<state, wait_state, exiting, parent, target, timer,
                   time_slice, need_resched, current, rq, nr_process>>

\* Mutants: initproc is not told of the zombies it adopts; only initproc is.
WakeParentOnly(p) == {q \in {parent[p]} : wait_state[q] = "WT_CHILD"}
WakeAdopterOnly(p) ==
    {q \in {initproc} : /\ wait_state[q] = "WT_CHILD"
                        /\ \E c \in Children(p) : state[c] = "ZOMBIE"}

\* Who do_exit of p wakes in do_wait: its parent, and initproc when a zombie
\* is among the children it gets from p.
WokenByExit(p) ==
    {q \in Proc : /\ wait_state[q] = "WT_CHILD"
                  /\ \/ q = parent[p]
                     \/ q = initproc /\ \E c \in Children(p) : state[c] = "ZOMBIE"}

\* Mutants: the children stay with p; only its zombies are handed over.
NobodyAdopted(p) == parent
ZombiesAdopted(p) ==
    [c \in Proc |-> IF c \in Children(p) /\ state[c] = "ZOMBIE" THEN initproc
                                                             ELSE parent[c]]

\* The parents after p left its children to initproc.
Adopted(p) == [c \in Proc |-> IF c \in Children(p) THEN initproc ELSE parent[c]]

\* do_exit of the running process p, which never runs again.
Exit(p) ==
    /\ state' = [Awake(WokenByExit(p)) EXCEPT ![p] = "ZOMBIE"]
    /\ wait_state' = Released(WokenByExit(p))
    /\ parent' = Adopted(p)
    /\ pc' = [pc EXCEPT ![p] = "none"]
    /\ target' = [target EXCEPT ![p] = None]
    /\ Schedule(Queued(WokenByExit(p)))
    /\ UNCHANGED <<exiting, timer, nr_process>>

ExitCall(p) == InUser(p) /\ Exit(p)

\* unhash_proc, remove_links and kfree of do_wait: block z is free again.
Reap(z) ==
    /\ state' = [state EXCEPT ![z] = "FREE"]
    /\ parent' = [parent EXCEPT ![z] = None]
    /\ time_slice' = [time_slice EXCEPT ![z] = 0]
    /\ exiting' = exiting \ {z}
    /\ nr_process' = nr_process - 1

\* The children of p that do_wait(pid) looks at.
Awaited(p, pid) == IF pid = None THEN Children(p) ELSE Children(p) \cap {pid}

WaitFound(p, pid) ==
    /\ \E z \in Awaited(p, pid) : state[z] = "ZOMBIE" /\ Reap(z)
    /\ Return(p)
    /\ target' = [target EXCEPT ![p] = None]
    /\ UNCHANGED <<wait_state, timer, need_resched, current, rq>>

WaitSleep(p, pid) ==
    /\ Awaited(p, pid) # {}
    /\ \A c \in Awaited(p, pid) : state[c] # "ZOMBIE"
    /\ state' = [state EXCEPT ![p] = "SLEEPING"]
    /\ wait_state' = [wait_state EXCEPT ![p] = "WT_CHILD"]
    /\ target' = [target EXCEPT ![p] = pid]
    /\ pc' = [pc EXCEPT ![p] = "wait"]
    /\ Schedule(rq)
    /\ UNCHANGED <<exiting, parent, timer, nr_process>>

\* No child to wait for: -E_BAD_PROC.
WaitNobody(p, pid) ==
    /\ Awaited(p, pid) = {}
    /\ Return(p)
    /\ target' = [target EXCEPT ![p] = None]
    /\ UNCHANGED <<state, wait_state, exiting, parent, timer, time_slice,
                   need_resched, current, rq, nr_process>>

\* One round of do_wait, from the label repeat to schedule() or the return.
WaitRound(p, pid) == WaitFound(p, pid) \/ WaitSleep(p, pid) \/ WaitNobody(p, pid)

Wait(p, pid) == InUser(p) /\ WaitRound(p, pid)

\* Mutant: do_wait does not look at PF_EXITING after schedule().
WaitResumeKilled(p) ==
    /\ p = current /\ pc[p] = "wait"
    /\ WaitRound(p, target[p])

\* do_wait after schedule() returned: a killed process exits, another one
\* looks at its children again.
WaitResume(p) ==
    /\ p = current /\ pc[p] = "wait"
    /\ \/ p \in exiting /\ Exit(p)
       \/ p \notin exiting /\ WaitRound(p, target[p])

\* Who do_kill of q wakes: q in an interruptible sleep, as both sleeps are.
WokenByKill(q) == {r \in {q} : wait_state[r] \in {"WT_CHILD", "WT_TIMER"}}

\* do_kill of q, which is not marked yet.
Kill(p, q) ==
    /\ InUser(p)
    /\ Live(q) /\ q \notin exiting
    /\ exiting' = exiting \cup {q}
    /\ Wakeup(WokenByKill(q))
    /\ time_slice' = Refill(time_slice, Queued(WokenByKill(q)) \ rq)
    /\ Return(p)
    /\ UNCHANGED <<parent, target, timer, need_resched, current, nr_process>>

Yield(p) ==
    /\ InUser(p)
    /\ need_resched' = need_resched \cup {p}
    /\ Return(p)
    /\ UNCHANGED <<state, wait_state, exiting, parent, target, timer,
                   time_slice, current, rq, nr_process>>

Sleep(p, ticks) ==
    /\ InUser(p)
    /\ state' = [state EXCEPT ![p] = "SLEEPING"]
    /\ wait_state' = [wait_state EXCEPT ![p] = "WT_TIMER"]
    /\ timer' = [timer EXCEPT ![p] = ticks]
    /\ pc' = [pc EXCEPT ![p] = "sleep"]
    /\ Schedule(rq)
    /\ UNCHANGED <<exiting, parent, target, nr_process>>

\* Mutant: do_sleep leaves its timer linked.
SleepResumeLinked(p) ==
    /\ p = current /\ pc[p] = "sleep"
    /\ Return(p)
    /\ UNCHANGED <<state, wait_state, exiting, parent, target, timer, time_slice,
                   need_resched, current, rq, nr_process>>

\* do_sleep after schedule() returned: del_timer, whoever woke the process.
SleepResume(p) ==
    /\ p = current /\ pc[p] = "sleep"
    /\ timer' = [timer EXCEPT ![p] = 0]
    /\ Return(p)
    /\ UNCHANGED <<state, wait_state, exiting, parent, target, time_slice,
                   need_resched, current, rq, nr_process>>

\* The end of trap() for a trap from user mode.  PF_EXITING is looked at before
\* schedule() and not after it.
TrapReturn(p) ==
    /\ p = current /\ pc[p] = "trapret"
    /\ \/ p \in exiting /\ Exit(p)
       \/ /\ p \notin exiting
          /\ pc' = [pc EXCEPT ![p] = "user"]
          /\ \/ p \in need_resched /\ state' = state /\ Schedule(rq)
             \/ /\ p \notin need_resched
                /\ UNCHANGED <<state, time_slice, need_resched, current, rq>>
          /\ UNCHANGED <<wait_state, exiting, parent, target, timer, nr_process>>

------------------------------------------------------------------------------
(* Kernel threads and the timer interrupt *)

\* cpu_idle
IdleLoop ==
    /\ current = idleproc /\ idleproc \in need_resched
    /\ state' = state
    /\ Schedule(rq)
    /\ UNCHANGED <<wait_state, exiting, parent, pc, target, timer, nr_process>>

AtInit(where) == current = initproc /\ pc[initproc] = where
InitGoto(where) == pc' = [pc EXCEPT ![initproc] = where]

\* init_main: kernel_thread(user_main), which becomes the first user process.
InitStart(c) ==
    /\ AtInit("start")
    /\ NewChild(initproc, c)
    /\ pc' = [pc EXCEPT ![c] = "user", ![initproc] = "scan"]
    /\ UNCHANGED <<wait_state, exiting, target, timer, need_resched, current>>

\* do_wait(0, NULL) of init_main up to its schedule().
InitScan ==
    /\ AtInit("scan")
    /\ \/ /\ \E z \in Children(initproc) : state[z] = "ZOMBIE" /\ Reap(z)
          /\ InitGoto("again")
          /\ UNCHANGED wait_state
       \/ /\ Children(initproc) # {}
          /\ \A c \in Children(initproc) : state[c] # "ZOMBIE"
          /\ state' = [state EXCEPT ![initproc] = "SLEEPING"]
          /\ wait_state' = [wait_state EXCEPT ![initproc] = "WT_CHILD"]
          /\ InitGoto("marked")
          /\ UNCHANGED <<parent, time_slice, exiting, nr_process>>
       \/ /\ Children(initproc) = {}
          /\ InitGoto("halt")
          /\ UNCHANGED <<state, wait_state, parent, time_slice, exiting,
                         nr_process>>
    /\ UNCHANGED <<target, timer, need_resched, current, rq>>

\* A schedule() of initproc: the one of do_wait after a tick had its chance,
\* and the one of the loop of init_main.
InitSchedule ==
    /\ \/ AtInit("marked") /\ InitGoto("resume")
       \/ AtInit("again") /\ InitGoto("scan")
    /\ state' = state
    /\ Schedule(rq)
    /\ UNCHANGED <<wait_state, exiting, parent, target, timer, nr_process>>

\* do_wait of initproc after schedule(): killed, it calls do_exit, which panics.
InitResume ==
    /\ AtInit("resume")
    /\ InitGoto(IF initproc \in exiting THEN "halt" ELSE "scan")
    /\ UNCHANGED <<state, wait_state, exiting, parent, target, timer,
                   time_slice, need_resched, current, rq, nr_process>>

InterruptsOn ==
    \/ current = idleproc
    \/ current = initproc /\ pc[initproc] # "halt"
    \/ InUser(current)

\* The owners of the timers that run out at this tick.
Expired == {p \in Proc : timer[p] = 1}

\* proc_tick: what is left of the slice of the running process, idleproc aside.
SliceLeft(p) == IF time_slice[p] > 0 THEN time_slice[p] - 1 ELSE 0
Ticked == [p \in Proc |-> IF p = current THEN SliceLeft(p) ELSE time_slice[p]]

\* The timer interrupt: run_timer_list, then proc_tick of the running process.
\* It sets need_resched of idleproc, whose slice stays 0, at every tick.
Tick ==
    /\ InterruptsOn
    /\ timer' = [p \in Proc |-> IF timer[p] > 0 THEN timer[p] - 1 ELSE 0]
    /\ Wakeup(Expired)
    /\ time_slice' = Refill(Ticked, Queued(Expired) \ rq)
    /\ need_resched' = need_resched \cup {p \in {current} : SliceLeft(p) = 0}
    /\ IF InUser(current) THEN Return(current) ELSE UNCHANGED pc
    /\ UNCHANGED <<exiting, parent, target, current, nr_process>>

------------------------------------------------------------------------------
KernelStep(p) == WaitResume(p) \/ SleepResume(p) \/ TrapReturn(p)

Syscall(p) ==
    \/ \E c \in User : Fork(p, c)
    \/ FailedCall(p)
    \/ ExitCall(p)
    \/ \E pid \in User \cup {None} : Wait(p, pid)
    \/ \E q \in KillTargets : Kill(p, q)
    \/ Yield(p)
    \/ \E ticks \in 1..MaxSleep : Sleep(p, ticks)

InitStep == (\E c \in User : InitStart(c)) \/ InitScan \/ InitSchedule \/ InitResume

Next ==
    \/ \E p \in User : KernelStep(p) \/ Syscall(p)
    \/ IdleLoop
    \/ InitStep
    \/ Tick

Safety == Init /\ [][Next]_vars

(* The kernel never stops between two calls of schedule(); a clock interrupt  *)
(* stays pending until interrupts are on, so it is not missed for ever; the   *)
(* scheduling class picks every process that is ready again and again, which  *)
(* module Stride shows of three processes once no more are forked.  A user    *)
(* program may compute for ever: no fairness on Syscall.                      *)
Fairness ==
    /\ WF_vars(\E p \in User : KernelStep(p))
    /\ WF_vars(IdleLoop) /\ WF_vars(InitStep) /\ SF_vars(Tick)
    /\ \A p \in User \cup {initproc} : SF_vars(p \in rq /\ Next /\ current' = p)

Spec == Safety /\ Fairness
------------------------------------------------------------------------------
(* Properties *)

\* Every variable has the values the code can give it.
TypeOK ==
    /\ state \in [Proc -> States]
    /\ wait_state \in [Proc -> WaitStates]
    /\ exiting \subseteq Proc
    /\ parent \in [Proc -> Proc \cup {None}]
    /\ pc \in [Proc -> PCs]
    /\ target \in [Proc -> User \cup {None}]
    /\ timer \in [Proc -> 0..MaxSleep]
    /\ time_slice \in [Proc -> 0..MAX_TIME_SLICE]
    /\ need_resched \subseteq Proc
    /\ current \in Proc
    /\ rq \subseteq Proc
    /\ nr_process \in Int

\* The run queue holds exactly the runnable processes that are not running,
\* idleproc excepted: wakeup_proc and schedule neither lose a process nor
\* queue one twice, and no dead or sleeping process is ever picked.
RunQueueExact ==
    rq = {p \in Proc : state[p] = "RUNNABLE"} \ {current, idleproc}

\* The process on the CPU is runnable; only initproc runs on for a moment after
\* it has marked itself asleep.  idleproc is always there to run.
CurrentRuns ==
    /\ state[idleproc] = "RUNNABLE"
    /\ state[current] # "RUNNABLE" =>
          /\ current = initproc /\ pc[initproc] = "marked"
          /\ state[initproc] = "SLEEPING"

\* A process asleep in do_wait has no zombie among the children it waits for:
\* the check of the children and the sleep lose no wake-up of do_exit, for a
\* child that was handed to initproc after its death as well.
NoLostChildWakeup ==
    \A p \in Proc : state[p] = "SLEEPING" /\ wait_state[p] = "WT_CHILD"
        => \A c \in Awaited(p, target[p]) : state[c] # "ZOMBIE"

\* A process asleep in do_wait still has a child it waits for, so there is
\* someone left whose exit will wake it.
WaiterHasChild ==
    \A p \in Proc : state[p] = "SLEEPING" /\ wait_state[p] = "WT_CHILD"
        => Awaited(p, target[p]) # {}

\* A linked timer belongs to a process that is still inside do_sleep (the
\* timer lives on its kernel stack), and a process asleep there has one: the
\* assertion of run_timer_list and wakeup_proc on the owner holds at the tick.
TimerOwner ==
    \A p \in Proc :
        /\ timer[p] > 0 => pc[p] = "sleep" /\ state[p] \in {"SLEEPING", "RUNNABLE"}
        /\ state[p] = "SLEEPING" /\ wait_state[p] = "WT_TIMER" => timer[p] > 0

\* The parent pointer do_exit follows is never that of a dead or free block.
ParentAlive ==
    \A c \in User : Live(c) =>
        parent[c] \in Proc /\ state[parent[c]] \in {"SLEEPING", "RUNNABLE"}

\* The processes form a tree below initproc: no set of live user processes is
\* its own ancestry, whatever exits, adoptions and reuse of blocks came before.
Rooted ==
    \A S \in SUBSET {c \in User : Live(c)} :
        S # {} => \E c \in S : parent[c] \notin S

\* nr_process counts the allocated blocks and stays within its limit.
CountExact ==
    /\ nr_process = Cardinality({p \in Proc : Live(p)})
    /\ nr_process <= MAX_PROCESS

\* The final assertions of init_main: when do_wait finds no child any more, no
\* process but idleproc and initproc is left, and nobody waits to run.
InitQuitsLast ==
    pc[initproc] = "halt" /\ initproc \notin exiting =>
        /\ nr_process = 2
        /\ \A p \in User : ~Live(p)
        /\ rq = {}

\* The assertion of do_fork, and what the tests of wait_state in do_exit,
\* do_kill and run_timer_list rely on: wait_state is set exactly while the
\* process sleeps.
WaitStateMeansAsleep ==
    \A p \in Proc : wait_state[p] # "0" <=> state[p] = "SLEEPING"

\* do_wait never sleeps for a child that is dead already or is not there.
WaitersWillWake == NoLostChildWakeup /\ WaiterHasChild

\* What the timer, the kill and the exit that wake a sleeper assert of it.
SleepersConsistent == TimerOwner /\ WaitStateMeansAsleep

\* After any history of forks, exits and adoptions the processes are a tree of
\* living parents.
TreeSound == ParentAlive /\ Rooted

\* The scheduling class serves everybody only if no chain of forks goes on for ever.
ForksEnd == <>[][\A p, c \in User : ~ Fork(p, c)]_vars

\* Every zombie whose parent is initproc is reaped in the end, so that once no
\* more are forked none is left: init_main goes on calling do_wait, whatever the
\* other processes do.
OrphanZombiesReaped ==
    ForksEnd => <>[](\A z \in User :
        state[z] = "ZOMBIE" /\ parent[z] = initproc => pc[initproc] = "halt")

\* What the process table promises, with scheduling and sleeping left out.
LifeOf == [u \in User |-> CASE state[u] = "FREE" -> "free"
                           [] state[u] = "ZOMBIE" -> "zombie"
                           [] OTHER -> "alive"]
ParentOf == [u \in User |-> parent[u]]
Life == INSTANCE Lifecycle WITH life <- LifeOf, parent <- ParentOf

\* fork, exit and wait, with all the steps of the scheduler between them, come
\* down to the births, deaths and burials of Lifecycle.
ImplementsLifecycle == Life!Spec

\* A process killed while it sleeps in do_wait or do_sleep dies.
KilledSleeperDies ==
    ForksEnd => \A p \in User \cap KillTargets :
        p \in exiting /\ pc[p] \in {"wait", "sleep"} /\ state[p] = "RUNNABLE"
            ~> ~Live(p) \/ state[p] = "ZOMBIE" \/ pc[initproc] = "halt"

\* What do_kill is for: a process marked PF_EXITING is shut down.
KilledDies ==
    \A p \in User :
        p \in exiting ~> ~Live(p) \/ state[p] = "ZOMBIE" \/ pc[initproc] = "halt"
==============================================================================
