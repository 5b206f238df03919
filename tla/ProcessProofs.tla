---------------------------- MODULE ProcessProofs ----------------------------
(***************************************************************************)
(* Proofs about Process, for every number of processes and every bound.    *)
(***************************************************************************)
EXTENDS Process, FiniteSetTheorems, TLAPS

\* The run queue is exact only together with CurrentRuns: a block that is
\* taken for a new child, or freed, must not be that of the running process.
QueueInv == TypeOK /\ RunQueueExact /\ CurrentRuns

\* What the variables of schedule() look like after it, when the queue it is
\* given holds the runnable processes but the running one.
LEMMA ScheduleCorrect ==
    ASSUME TypeOK, state' \in [Proc -> States], state'[idleproc] = "RUNNABLE",
           NEW queue,
           queue = {p \in Proc : state'[p] = "RUNNABLE"} \ {current, idleproc},
           Schedule(queue)
    PROVE  /\ current' \in Proc
           /\ rq' \subseteq Proc
           /\ RunQueueExact'
           /\ state'[current'] = "RUNNABLE"
           /\ need_resched' \subseteq Proc
           /\ time_slice' \in [Proc -> 0..MAX_TIME_SLICE]
<1> DEFINE ready == queue \cup PutBack
<1>1. ready = {p \in Proc : state'[p] = "RUNNABLE"} \ {idleproc}
  BY DEF PutBack, TypeOK
<1>2. need_resched' \subseteq Proc
  BY DEF Schedule, TypeOK
<1>3. time_slice' \in [Proc -> 0..MAX_TIME_SLICE]
  BY BoundAssumption DEF Schedule, Refill, TypeOK
<1>4. CASE ready = {} /\ current' = idleproc /\ rq' = {}
  BY <1>1, <1>2, <1>3, <1>4, DistinctProcs DEF RunQueueExact, Proc
<1>5. CASE \E next \in ready : current' = next /\ rq' = ready \ {next}
  BY <1>1, <1>2, <1>3, <1>5, DistinctProcs DEF RunQueueExact, Proc
<1> QED BY <1>4, <1>5 DEF Schedule

\* wakeup_proc keeps the run queue exact, and what it queues is what schedule()
\* expects.
LEMMA QueuedExact ==
    ASSUME TypeOK, RunQueueExact, NEW S \in SUBSET Proc
    PROVE  Queued(S) = {p \in Proc : Awake(S)[p] = "RUNNABLE"} \ {current, idleproc}
BY DEF Queued, Asleep, Awake, RunQueueExact, TypeOK

LEMMA AwakeType ==
    ASSUME TypeOK, NEW S \in SUBSET Proc
    PROVE  /\ Awake(S) \in [Proc -> States]
           /\ Released(S) \in [Proc -> WaitStates]
           /\ \A p \in Proc : state[p] = "RUNNABLE" => Awake(S)[p] = "RUNNABLE"
BY DEF Awake, Released, TypeOK, States, WaitStates

LEMMA InitCorrect == Init => QueueInv
BY DistinctProcs, BoundAssumption
   DEF Init, QueueInv, TypeOK, RunQueueExact, CurrentRuns, Proc, States,
       WaitStates, PCs

LEMMA ExitCorrect ==
    ASSUME QueueInv, NEW p \in User, p = current, Exit(p)
    PROVE  QueueInv'
<1> DEFINE W == WokenByExit(p)
<1> USE DEF QueueInv
<1>1. p # idleproc /\ p # initproc /\ p \in Proc
  BY DistinctProcs DEF Proc
<1>2. W \in SUBSET Proc
  BY DEF WokenByExit
<1>3. /\ Awake(W) \in [Proc -> States]
      /\ Released(W) \in [Proc -> WaitStates]
      /\ Awake(W)[idleproc] = "RUNNABLE"
  BY <1>2, AwakeType DEF CurrentRuns, Proc
<1>4. state' \in [Proc -> States] /\ state'[idleproc] = "RUNNABLE"
  BY <1>1, <1>3 DEF Exit, States
<1>5. Queued(W) = {q \in Proc : state'[q] = "RUNNABLE"} \ {current, idleproc}
  BY <1>1, <1>2, <1>3, QueuedExact DEF Exit
<1>6. Schedule(Queued(W))
  BY DEF Exit
<1>7. /\ current' \in Proc /\ rq' \subseteq Proc /\ RunQueueExact'
      /\ state'[current'] = "RUNNABLE" /\ need_resched' \subseteq Proc
      /\ time_slice' \in [Proc -> 0..MAX_TIME_SLICE]
  BY <1>4, <1>5, <1>6, ScheduleCorrect
<1>8. parent' \in [Proc -> Proc \cup {None}]
  BY DEF Exit, Adopted, TypeOK, Proc
<1>9. pc' \in [Proc -> PCs] /\ target' \in [Proc -> User \cup {None}]
  BY DEF Exit, TypeOK, PCs
<1>10. TypeOK'
  BY <1>3, <1>4, <1>7, <1>8, <1>9 DEF Exit, TypeOK
<1> QED BY <1>4, <1>7, <1>10 DEF CurrentRuns

LEMMA NewChildCorrect ==
    ASSUME QueueInv, NEW p \in Proc, NEW c \in User, NewChild(p, c),
           state[current] = "RUNNABLE",
           UNCHANGED <<wait_state, exiting, target, timer, need_resched, current>>,
           pc' \in [Proc -> PCs]
    PROVE  QueueInv'
<1> USE DEF QueueInv
<1>1. c \in Proc /\ c # current /\ c # idleproc
  BY DistinctProcs DEF NewChild, Proc
<1>2. TypeOK'
  <2>1. state' \in [Proc -> States] /\ time_slice' \in [Proc -> 0..MAX_TIME_SLICE]
    BY <1>1, BoundAssumption DEF NewChild, TypeOK, States
  <2>2. parent' \in [Proc -> Proc \cup {None}] /\ rq' \subseteq Proc
    BY <1>1 DEF NewChild, TypeOK
  <2>3. nr_process' \in Int
    BY DEF NewChild, TypeOK
  <2> QED BY <2>1, <2>2, <2>3 DEF TypeOK
<1>3. RunQueueExact'
  BY <1>1 DEF NewChild, RunQueueExact, TypeOK
<1>4. CurrentRuns'
  BY <1>1, DistinctProcs DEF NewChild, CurrentRuns, TypeOK, Proc
<1> QED BY <1>2, <1>3, <1>4

\* The freed block is a dead child, not the running process.
LEMMA ReapCorrect ==
    ASSUME QueueInv, NEW z \in User, state[z] = "ZOMBIE", Reap(z),
           state[current] = "RUNNABLE",
           UNCHANGED <<wait_state, timer, need_resched, current, rq>>,
           target' \in [Proc -> User \cup {None}], pc' \in [Proc -> PCs]
    PROVE  QueueInv'
<1> USE DEF QueueInv
<1>1. z \in Proc /\ z # current /\ z # idleproc
  BY DistinctProcs DEF Proc
<1>2. TypeOK'
  <2>1. state' \in [Proc -> States] /\ time_slice' \in [Proc -> 0..MAX_TIME_SLICE]
    BY <1>1, BoundAssumption DEF Reap, TypeOK, States
  <2>2. parent' \in [Proc -> Proc \cup {None}] /\ exiting' \subseteq Proc
    BY <1>1 DEF Reap, TypeOK
  <2>3. nr_process' \in Int
    BY DEF Reap, TypeOK
  <2> QED BY <2>1, <2>2, <2>3 DEF TypeOK
<1>3. RunQueueExact'
  BY <1>1 DEF Reap, RunQueueExact, TypeOK
<1>4. CurrentRuns'
  BY <1>1, DistinctProcs DEF Reap, CurrentRuns, TypeOK, Proc
<1> QED BY <1>2, <1>3, <1>4

\* The running process goes to sleep, or gives up the CPU, and schedule() runs.
LEMMA SwitchCorrect ==
    ASSUME QueueInv, Schedule(rq), state' \in [Proc -> States],
           state'[idleproc] = "RUNNABLE",
           \A q \in Proc \ {current} : state'[q] = state[q],
           wait_state' \in [Proc -> WaitStates], pc' \in [Proc -> PCs],
           target' \in [Proc -> User \cup {None}],
           timer' \in [Proc -> 0..MaxSleep],
           UNCHANGED <<exiting, parent, nr_process>>
    PROVE  QueueInv'
<1> USE DEF QueueInv
<1>1. rq = {q \in Proc : state'[q] = "RUNNABLE"} \ {current, idleproc}
  BY DEF RunQueueExact
<1>2. /\ current' \in Proc /\ rq' \subseteq Proc /\ RunQueueExact'
      /\ state'[current'] = "RUNNABLE" /\ need_resched' \subseteq Proc
      /\ time_slice' \in [Proc -> 0..MAX_TIME_SLICE]
  BY <1>1, ScheduleCorrect
<1>3. TypeOK'
  BY <1>2 DEF TypeOK
<1> QED BY <1>2, <1>3 DEF CurrentRuns

LEMMA WaitRoundCorrect ==
    ASSUME QueueInv, NEW p \in User, p = current, NEW pid \in User \cup {None},
           WaitRound(p, pid)
    PROVE  QueueInv'
<1> USE DEF QueueInv
<1>0. p \in Proc /\ p # idleproc /\ p # initproc /\ state[current] = "RUNNABLE"
  BY DistinctProcs DEF CurrentRuns, Proc
<1>1. Awaited(p, pid) \subseteq User
  BY DEF Awaited, Children
<1>2. ASSUME WaitFound(p, pid) PROVE QueueInv'
  <2>1. PICK z \in Awaited(p, pid) : state[z] = "ZOMBIE" /\ Reap(z)
    BY <1>2 DEF WaitFound
  <2>2. target' \in [Proc -> User \cup {None}] /\ pc' \in [Proc -> PCs]
    BY <1>2 DEF WaitFound, Return, TypeOK, PCs
  <2> QED BY <1>0, <1>1, <1>2, <2>1, <2>2, ReapCorrect DEF WaitFound
<1>3. ASSUME WaitSleep(p, pid) PROVE QueueInv'
  <2>1. /\ state' \in [Proc -> States] /\ state'[idleproc] = "RUNNABLE"
        /\ \A q \in Proc \ {current} : state'[q] = state[q]
    BY <1>0, <1>3, DistinctProcs DEF WaitSleep, TypeOK, States, CurrentRuns, Proc
  <2>2. /\ wait_state' \in [Proc -> WaitStates]
        /\ target' \in [Proc -> User \cup {None}] /\ pc' \in [Proc -> PCs]
        /\ timer' \in [Proc -> 0..MaxSleep]
    BY <1>0, <1>3 DEF WaitSleep, TypeOK, WaitStates, PCs
  <2> QED BY <1>3, <2>1, <2>2, SwitchCorrect DEF WaitSleep
<1>4. ASSUME WaitNobody(p, pid) PROVE QueueInv'
  BY <1>0, <1>4 DEF WaitNobody, Return, TypeOK, PCs, RunQueueExact, CurrentRuns
<1> QED BY <1>2, <1>3, <1>4 DEF WaitRound

LEMMA SyscallCorrect ==
    ASSUME QueueInv, NEW p \in User, Syscall(p)
    PROVE  QueueInv'
<1> USE DEF QueueInv
<1>0. /\ p \in Proc /\ p # idleproc /\ p # initproc
      /\ p = current /\ state[current] = "RUNNABLE"
  BY DistinctProcs
     DEF Syscall, Fork, FailedCall, ExitCall, Wait, Kill, Yield, Sleep, InUser,
         CurrentRuns, Proc
<1>1. ASSUME NEW c \in User, Fork(p, c) PROVE QueueInv'
  <2>1. pc' \in [Proc -> PCs]
    BY <1>1 DEF Fork, TypeOK, PCs
  <2> QED BY <1>0, <1>1, <2>1, NewChildCorrect DEF Fork
<1>2. ASSUME FailedCall(p) PROVE QueueInv'
  BY <1>0, <1>2 DEF FailedCall, Return, TypeOK, PCs, RunQueueExact, CurrentRuns
<1>3. ASSUME ExitCall(p) PROVE QueueInv'
  BY <1>0, <1>3, ExitCorrect DEF ExitCall
<1>4. ASSUME NEW pid \in User \cup {None}, Wait(p, pid) PROVE QueueInv'
  BY <1>0, <1>4, WaitRoundCorrect DEF Wait
<1>5. ASSUME NEW q \in KillTargets, Kill(p, q) PROVE QueueInv'
  <2> DEFINE W == WokenByKill(q)
  <2>1. q \in Proc /\ W \in SUBSET Proc
    BY KillAssumption DEF WokenByKill, Proc
  <2>2. /\ state' \in [Proc -> States] /\ wait_state' \in [Proc -> WaitStates]
        /\ \A r \in Proc : state[r] = "RUNNABLE" => state'[r] = "RUNNABLE"
    BY <1>5, <2>1, AwakeType DEF Kill, Wakeup
  <2>3. /\ rq' = {r \in Proc : state'[r] = "RUNNABLE"} \ {current, idleproc}
        /\ current' = current
    BY <1>5, <2>1, QueuedExact DEF Kill, Wakeup
  <2>4. TypeOK'
    <3>1. time_slice' \in [Proc -> 0..MAX_TIME_SLICE]
      BY <1>5, BoundAssumption DEF Kill, Refill, TypeOK
    <3>2. exiting' \subseteq Proc /\ pc' \in [Proc -> PCs]
      BY <1>0, <1>5, <2>1 DEF Kill, Return, TypeOK, PCs
    <3> QED BY <1>5, <2>2, <2>3, <3>1, <3>2 DEF Kill, TypeOK
  <2>5. CurrentRuns'
    BY <1>0, <2>2, <2>3, DistinctProcs DEF CurrentRuns, Proc
  <2> QED BY <2>3, <2>4, <2>5 DEF RunQueueExact
<1>6. ASSUME Yield(p) PROVE QueueInv'
  BY <1>0, <1>6 DEF Yield, Return, TypeOK, PCs, RunQueueExact, CurrentRuns
<1>7. ASSUME NEW ticks \in 1..MaxSleep, Sleep(p, ticks) PROVE QueueInv'
  <2>1. /\ state' \in [Proc -> States] /\ state'[idleproc] = "RUNNABLE"
        /\ \A q \in Proc \ {current} : state'[q] = state[q]
    BY <1>0, <1>7, DistinctProcs DEF Sleep, TypeOK, States, CurrentRuns, Proc
  <2>2. /\ wait_state' \in [Proc -> WaitStates] /\ pc' \in [Proc -> PCs]
        /\ target' \in [Proc -> User \cup {None}]
        /\ timer' \in [Proc -> 0..MaxSleep]
    BY <1>0, <1>7, BoundAssumption DEF Sleep, TypeOK, WaitStates, PCs
  <2> QED BY <1>7, <2>1, <2>2, SwitchCorrect DEF Sleep
<1> QED BY <1>1, <1>2, <1>3, <1>4, <1>5, <1>6, <1>7 DEF Syscall

LEMMA KernelStepCorrect ==
    ASSUME QueueInv, NEW p \in User, KernelStep(p)
    PROVE  QueueInv'
<1> USE DEF QueueInv
<1>0. /\ p \in Proc /\ p # idleproc /\ p # initproc
      /\ p = current /\ state[current] = "RUNNABLE"
  BY DistinctProcs
     DEF KernelStep, WaitResume, SleepResume, TrapReturn, CurrentRuns, Proc
<1>1. ASSUME WaitResume(p) PROVE QueueInv'
  BY <1>0, <1>1, ExitCorrect, WaitRoundCorrect DEF WaitResume, TypeOK
<1>2. ASSUME SleepResume(p) PROVE QueueInv'
  BY <1>0, <1>2, BoundAssumption
     DEF SleepResume, Return, TypeOK, PCs, RunQueueExact, CurrentRuns
<1>3. ASSUME TrapReturn(p) PROVE QueueInv'
  <2>1. CASE p \in exiting /\ Exit(p)
    BY <1>0, <2>1, ExitCorrect
  <2>2. CASE p \notin exiting
    <3>1. pc' \in [Proc -> PCs]
      BY <1>3, <2>2 DEF TrapReturn, TypeOK, PCs
    <3>2. CASE state' = state /\ Schedule(rq)
      BY <1>3, <2>2, <3>1, <3>2, SwitchCorrect DEF TrapReturn, TypeOK, CurrentRuns
    <3>3. CASE UNCHANGED <<state, time_slice, need_resched, current, rq>>
      BY <1>0, <1>3, <2>2, <3>1, <3>3
         DEF TrapReturn, TypeOK, RunQueueExact, CurrentRuns
    <3> QED BY <1>3, <2>2, <3>2, <3>3 DEF TrapReturn
  <2> QED BY <1>3, <2>1, <2>2 DEF TrapReturn
<1> QED BY <1>1, <1>2, <1>3 DEF KernelStep

LEMMA InitStepCorrect ==
    ASSUME QueueInv, InitStep
    PROVE  QueueInv'
<1> USE DEF QueueInv
<1>0. initproc \in Proc /\ initproc # idleproc /\ current = initproc
  BY DistinctProcs
     DEF InitStep, InitStart, InitScan, InitSchedule, InitResume, AtInit, Proc
<1>1. ASSUME NEW c \in User, InitStart(c) PROVE QueueInv'
  <2>1. pc' \in [Proc -> PCs] /\ state[current] = "RUNNABLE"
    BY <1>0, <1>1 DEF InitStart, AtInit, CurrentRuns, TypeOK, PCs
  <2> QED BY <1>0, <1>1, <2>1, NewChildCorrect DEF InitStart
<1>2. ASSUME InitScan PROVE QueueInv'
  <2>0. pc' \in [Proc -> PCs] /\ state[current] = "RUNNABLE" /\ target' = target
    BY <1>0, <1>2 DEF InitScan, AtInit, InitGoto, CurrentRuns, TypeOK, PCs
  <2>1. CASE \E z \in Children(initproc) : state[z] = "ZOMBIE" /\ Reap(z)
    <3>1. PICK z \in Children(initproc) : state[z] = "ZOMBIE" /\ Reap(z)
      BY <2>1
    <3>2. z \in User /\ z # initproc
      BY DistinctProcs DEF Children
    <3>3. UNCHANGED <<wait_state, timer, need_resched, current, rq>>
      BY <1>0, <1>2, <3>1, <3>2 DEF InitScan, Reap, TypeOK
    <3> QED BY <2>0, <3>1, <3>2, <3>3, ReapCorrect DEF TypeOK
  <2>2. CASE /\ state' = [state EXCEPT ![initproc] = "SLEEPING"]
             /\ wait_state' = [wait_state EXCEPT ![initproc] = "WT_CHILD"]
             /\ InitGoto("marked")
             /\ UNCHANGED <<parent, time_slice, exiting, nr_process>>
    BY <1>0, <1>2, <2>0, <2>2
       DEF InitScan, InitGoto, TypeOK, States, WaitStates, PCs, RunQueueExact,
           CurrentRuns
  <2>3. CASE UNCHANGED <<state, wait_state, parent, time_slice, exiting, nr_process>>
    BY <1>0, <1>2, <2>0, <2>3 DEF InitScan, TypeOK, RunQueueExact, CurrentRuns
  <2> QED BY <1>2, <2>1, <2>2, <2>3 DEF InitScan
<1>3. ASSUME InitSchedule PROVE QueueInv'
  <2>1. pc' \in [Proc -> PCs]
    BY <1>0, <1>3 DEF InitSchedule, InitGoto, TypeOK, PCs
  <2> QED BY <1>3, <2>1, SwitchCorrect DEF InitSchedule, TypeOK, CurrentRuns
<1>4. ASSUME InitResume PROVE QueueInv'
  BY <1>0, <1>4
     DEF InitResume, AtInit, InitGoto, TypeOK, PCs, RunQueueExact, CurrentRuns
<1> QED BY <1>1, <1>2, <1>3, <1>4 DEF InitStep

LEMMA TickCorrect ==
    ASSUME QueueInv, Tick
    PROVE  QueueInv'
<1> USE DEF QueueInv
<1>1. Expired \in SUBSET Proc
  BY DEF Expired
<1>2. /\ state' \in [Proc -> States] /\ wait_state' \in [Proc -> WaitStates]
      /\ \A r \in Proc : state[r] = "RUNNABLE" => state'[r] = "RUNNABLE"
  BY <1>1, AwakeType DEF Tick, Wakeup
<1>3. /\ rq' = {r \in Proc : state'[r] = "RUNNABLE"} \ {current, idleproc}
      /\ current' = current
  BY <1>1, QueuedExact DEF Tick, Wakeup
<1>4. time_slice' \in [Proc -> 0..MAX_TIME_SLICE]
  BY BoundAssumption DEF Tick, Refill, Ticked, SliceLeft, TypeOK
<1>5. timer' \in [Proc -> 0..MaxSleep] /\ pc' \in [Proc -> PCs]
  BY BoundAssumption DEF Tick, InUser, Return, TypeOK, PCs
<1>6. TypeOK'
  BY <1>2, <1>3, <1>4, <1>5 DEF Tick, TypeOK
<1>7. CurrentRuns'
  <2>1. state'[idleproc] = "RUNNABLE"
    BY <1>2, DistinctProcs DEF CurrentRuns, Proc
  <2>2. CASE state[current] = "RUNNABLE"
    BY <1>2, <1>3, <2>1, <2>2 DEF CurrentRuns, TypeOK
  <2>3. CASE state[current] # "RUNNABLE"
    <3>1. pc' = pc
      BY <2>3, DistinctProcs DEF Tick, InUser, CurrentRuns
    <3>2. state'[initproc] \in {"RUNNABLE", "SLEEPING"}
      BY <2>3, DistinctProcs DEF Tick, Wakeup, Awake, CurrentRuns, Proc
    <3> QED BY <1>3, <2>1, <2>3, <3>1, <3>2 DEF CurrentRuns
  <2> QED BY <2>2, <2>3
<1> QED BY <1>3, <1>6, <1>7 DEF RunQueueExact

LEMMA QueueInvInductive == QueueInv /\ [Next]_vars => QueueInv'
<1> SUFFICES ASSUME QueueInv, [Next]_vars PROVE QueueInv'
  OBVIOUS
<1>1. ASSUME NEW p \in User, KernelStep(p) \/ Syscall(p) PROVE QueueInv'
  BY <1>1, KernelStepCorrect, SyscallCorrect
<1>2. ASSUME IdleLoop PROVE QueueInv'
  BY <1>2, SwitchCorrect DEF IdleLoop, QueueInv, TypeOK, CurrentRuns
<1>3. ASSUME InitStep PROVE QueueInv'
  BY <1>3, InitStepCorrect
<1>4. ASSUME Tick PROVE QueueInv'
  BY <1>4, TickCorrect
<1>5. ASSUME UNCHANGED vars PROVE QueueInv'
  BY <1>5 DEF vars, QueueInv, TypeOK, RunQueueExact, CurrentRuns
<1> QED BY <1>1, <1>2, <1>3, <1>4, <1>5 DEF Next

LEMMA QueueInvHolds == Safety => []QueueInv
BY InitCorrect, QueueInvInductive, PTL DEF Safety

\* Every variable of the process module keeps its type, for any number of
\* processes.
THEOREM TypeCorrect == Safety => []TypeOK
BY QueueInvHolds, PTL DEF QueueInv

\* The run queue holds exactly the runnable processes that wait for the CPU, and
\* the process on the CPU is runnable but for initproc on its way to sleep.
THEOREM RunQueueCorrect == Safety => [](RunQueueExact /\ CurrentRuns)
BY QueueInvHolds, PTL DEF QueueInv

------------------------------------------------------------------------------
(* The process tree, the sleeps and the waits, on top of the run queue      *)
(* invariant.                                                              *)

\* What sleepers rely on.
SleepInv == WaitStateMeansAsleep /\ TimerOwner

\* The tree: free blocks have no parent, the others a living one, and there is
\* no cycle.  initproc is always there to adopt.
FamilyInv ==
    /\ \A c \in User : state[c] = "FREE" <=> parent[c] = None
    /\ \A c \in User : parent[c] \in User \cup {initproc, None}
    /\ state[initproc] \in {"SLEEPING", "RUNNABLE"}
    /\ ParentAlive
    /\ Rooted

\* Nobody sleeps for a child that is dead or not there.
WaitInv ==
    /\ NoLostChildWakeup
    /\ WaiterHasChild
    /\ target[initproc] = None

TreeInv == QueueInv /\ SleepInv /\ FamilyInv /\ WaitInv

LEMMA TreeInit == Init => TreeInv
<1> SUFFICES ASSUME Init PROVE TreeInv
  OBVIOUS
<1>1. QueueInv
  BY InitCorrect
<1>2. SleepInv
  BY DistinctProcs DEF Init, SleepInv, WaitStateMeansAsleep, TimerOwner, Proc
<1>3. FamilyInv
  BY DistinctProcs DEF Init, FamilyInv, ParentAlive, Rooted, Live, Proc
<1>4. WaitInv
  BY DistinctProcs DEF Init, WaitInv, NoLostChildWakeup, WaiterHasChild, Proc
<1> QED BY <1>1, <1>2, <1>3, <1>4 DEF TreeInv

------------------------------------------------------------------------------
(* One lemma per kind of step. *)

LEMMA WakeupTree ==
    ASSUME TreeInv, NEW S \in SUBSET Proc, state' = Awake(S), wait_state' = Released(S),
           \A p \in S : state[p] \in {"SLEEPING", "RUNNABLE"},
           UNCHANGED <<parent, target>>
    PROVE  WaitStateMeansAsleep' /\ FamilyInv' /\ WaitInv'
<1> USE DEF TreeInv, QueueInv
<1>1. WaitStateMeansAsleep'
  BY DEF SleepInv, WaitStateMeansAsleep, Awake, Released, Asleep, TypeOK
<1>2. \A p \in Proc : state'[p] \in {state[p], "RUNNABLE"}
                      /\ (state'[p] = "FREE" <=> state[p] = "FREE")
                      /\ (state'[p] = "ZOMBIE" <=> state[p] = "ZOMBIE")
  BY DEF Awake, TypeOK
<1>3. FamilyInv'
  <2>1. \A c \in User : Live(c)' <=> Live(c)
    BY <1>2 DEF Live, Proc
  <2>2. ParentAlive'
    BY <1>2, <2>1 DEF FamilyInv, ParentAlive, Live, Proc
  <2>3. Rooted'
    BY <2>1 DEF FamilyInv, Rooted
  <2> QED BY <1>2, <2>2, <2>3 DEF FamilyInv, Proc
<1>4. \A p \in Proc : state'[p] = "SLEEPING" =>
         state[p] = "SLEEPING" /\ wait_state'[p] = wait_state[p]
  BY DEF Awake, Released, Asleep, TypeOK
<1>5. \A p \in Proc : \A pid : Awaited(p, pid)' = Awaited(p, pid)
  BY DEF Awaited, Children
<1>6. WaitInv'
  BY <1>2, <1>4, <1>5 DEF WaitInv, NoLostChildWakeup, WaiterHasChild, Awaited, Children, Proc
<1> QED BY <1>1, <1>3, <1>6

LEMMA BirthTree ==
    ASSUME TreeInv, NEW p \in User \cup {initproc}, NEW c \in User,
           p = current, state[p] = "RUNNABLE", NewChild(p, c),
           UNCHANGED <<wait_state, target, timer>>,
           \A q \in Proc \ {p, c} : pc'[q] = pc[q], pc[p] # "sleep"
    PROVE  SleepInv' /\ FamilyInv' /\ WaitInv'
<1> USE DEF TreeInv, QueueInv
<1>1. c \in Proc /\ p \in Proc /\ c # p /\ c # initproc /\ None \notin Proc
  BY DistinctProcs DEF NewChild, Proc
<1>2. /\ \A q \in Proc \ {c} : state'[q] = state[q] /\ parent'[q] = parent[q]
      /\ state[c] = "FREE" /\ state'[c] = "RUNNABLE" /\ parent'[c] = p
  BY <1>1 DEF NewChild, TypeOK
<1>3. SleepInv'
  <2>1. WaitStateMeansAsleep'
    BY <1>1, <1>2 DEF SleepInv, WaitStateMeansAsleep
  <2>2. \A q \in Proc : timer[q] > 0 => q # c /\ q # p
    BY <1>1, <1>2 DEF SleepInv, TimerOwner
  <2>3. TimerOwner'
    BY <1>1, <1>2, <2>2 DEF SleepInv, TimerOwner
  <2> QED BY <2>1, <2>3 DEF SleepInv
<1>4. FamilyInv'
  <2>1. \A q \in User : Live(q)' <=> Live(q) \/ q = c
    BY <1>1, <1>2 DEF Live, Proc
  <2>2. ParentAlive'
    BY <1>1, <1>2, <2>1 DEF FamilyInv, ParentAlive, Proc
  <2>3. Rooted'
    <3> SUFFICES ASSUME NEW S \in SUBSET {q \in User : Live(q)'}, S # {}
                 PROVE  \E q \in S : parent'[q] \notin S
      BY DEF Rooted
    <3>1. S \ {c} \in SUBSET {q \in User : Live(q)}
      BY <2>1
    <3>2. CASE S = {c}
      BY <1>1, <1>2, <3>2
    <3>3. CASE S # {c}
      <4>0. S \ {c} # {}
        BY <3>3
      <4>1. PICK q \in S \ {c} : parent[q] \notin S \ {c}
        BY <3>1, <4>0 DEF FamilyInv, Rooted
      <4>2. parent[q] # c /\ parent'[q] = parent[q]
        BY <1>1, <1>2, <3>1, <4>1 DEF FamilyInv, ParentAlive, Live, Proc
      <4> QED BY <4>1, <4>2
    <3> QED BY <3>2, <3>3
  <2>4. \A q \in User : (state'[q] = "FREE" <=> parent'[q] = None)
                        /\ parent'[q] \in User \cup {initproc, None}
    BY <1>1, <1>2 DEF FamilyInv, Proc
  <2> QED BY <1>1, <1>2, <2>2, <2>3, <2>4 DEF FamilyInv, Proc
<1>5. WaitInv'
  <2>1. \A q \in Proc : \A pid : q # p => Awaited(q, pid)' = Awaited(q, pid)
    BY <1>1, <1>2 DEF Awaited, Children, FamilyInv, Proc
  <2>2. \A q \in Proc : \A pid : c \notin Awaited(q, pid)
    BY <1>1, <1>2 DEF Awaited, Children, FamilyInv
  <2>3. \A q \in Proc : state'[q] = "SLEEPING" => q # p /\ q # c /\ state[q] = "SLEEPING"
    BY <1>1, <1>2
  <2>4. \A q \in Proc : \A pid : \A d \in Awaited(q, pid) : state'[d] = state[d]
    BY <1>2, <2>2 DEF Awaited, Children, Proc
  <2> QED BY <1>1, <2>1, <2>3, <2>4 DEF WaitInv, NoLostChildWakeup, WaiterHasChild, Proc
<1> QED BY <1>3, <1>4, <1>5

LEMMA ReapTree ==
    ASSUME TreeInv, NEW p \in User \cup {initproc}, NEW z \in User,
           p = current, state[p] = "RUNNABLE",
           parent[z] = p, state[z] = "ZOMBIE", Reap(z),
           UNCHANGED <<wait_state, timer>>, pc[p] # "sleep",
           \A q \in Proc \ {p} : pc'[q] = pc[q] /\ target'[q] = target[q],
           target'[initproc] = None
    PROVE  SleepInv' /\ FamilyInv' /\ WaitInv'
<1> USE DEF TreeInv, QueueInv
<1>1. z \in Proc /\ p \in Proc /\ z # p /\ z # initproc /\ None \notin Proc
  BY DistinctProcs DEF Proc
<1>2. /\ \A q \in Proc \ {z} : state'[q] = state[q] /\ parent'[q] = parent[q]
      /\ state'[z] = "FREE" /\ parent'[z] = None
  BY <1>1 DEF Reap, TypeOK
<1>3. SleepInv'
  <2>1. WaitStateMeansAsleep'
    BY <1>1, <1>2 DEF SleepInv, WaitStateMeansAsleep
  <2>2. \A q \in Proc : timer[q] > 0 => q # z /\ q # p
    BY <1>1 DEF SleepInv, TimerOwner
  <2>3. TimerOwner'
    BY <1>1, <1>2, <2>2 DEF SleepInv, TimerOwner
  <2> QED BY <2>1, <2>3 DEF SleepInv
<1>4. FamilyInv'
  <2>1. \A q \in User : Live(q)' <=> Live(q) /\ q # z
    BY <1>1, <1>2 DEF Live, Proc
  <2>2. \A q \in User : Live(q) => parent[q] # z
    BY DEF FamilyInv, ParentAlive
  <2>3. ParentAlive'
    BY <1>1, <1>2, <2>1, <2>2 DEF FamilyInv, ParentAlive, Proc
  <2>4. Rooted'
    <3> SUFFICES ASSUME NEW S \in SUBSET {q \in User : Live(q)'}, S # {}
                 PROVE  \E q \in S : parent'[q] \notin S
      BY DEF Rooted
    <3>1. S \in SUBSET {q \in User : Live(q)} /\ z \notin S
      BY <2>1
    <3> QED BY <1>2, <3>1 DEF FamilyInv, Rooted, Proc
  <2>5. \A q \in User : (state'[q] = "FREE" <=> parent'[q] = None)
                        /\ parent'[q] \in User \cup {initproc, None}
    BY <1>1, <1>2 DEF FamilyInv, Proc
  <2> QED BY <1>1, <1>2, <2>3, <2>4, <2>5 DEF FamilyInv, Proc
<1>5. WaitInv'
  <2>1. \A q \in Proc : \A pid : q # p => Awaited(q, pid)' = Awaited(q, pid)
    <3>1. \A q \in Proc \ {p} : \A c \in User : parent'[c] = q <=> parent[c] = q
      BY <1>1, <1>2 DEF Proc
    <3>2. \A q \in Proc \ {p} : Children(q)' = Children(q)
      BY <3>1 DEF Children
    <3> QED BY <3>2 DEF Awaited
  <2>2. \A q \in Proc : \A pid : q # p => z \notin Awaited(q, pid)
    BY DEF Awaited, Children
  <2>3. \A q \in Proc : state'[q] = "SLEEPING" =>
           q # p /\ q # z /\ state[q] = "SLEEPING" /\ target'[q] = target[q]
    BY <1>1, <1>2
  <2>4. \A q \in Proc : \A pid : q # p => \A d \in Awaited(q, pid) : state'[d] = state[d]
    BY <1>2, <2>2 DEF Awaited, Children, Proc
  <2> QED BY <2>1, <2>3, <2>4 DEF WaitInv, NoLostChildWakeup, WaiterHasChild
<1> QED BY <1>3, <1>4, <1>5

\* The heart of the tree: the children of a dying process go to initproc at once,
\* and everybody who waits for one of the two is woken.
LEMMA ExitTree ==
    ASSUME TreeInv, NEW p \in User, p = current, state[p] = "RUNNABLE",
           pc[p] # "sleep", Exit(p)
    PROVE  SleepInv' /\ FamilyInv' /\ WaitInv'
<1> USE DEF TreeInv, QueueInv
<1> DEFINE W == WokenByExit(p)
<1>1. p \in Proc /\ p # initproc /\ initproc \in Proc /\ None \notin Proc
  BY DistinctProcs DEF Proc
<1>2. /\ \A q \in Proc : wait_state[q] = "WT_CHILD" => state[q] = "SLEEPING"
      /\ \A q \in W : q \in Proc /\ state[q] = "SLEEPING"
      /\ p \notin W
  BY <1>1 DEF SleepInv, WaitStateMeansAsleep, WokenByExit
<1>3. /\ \A q \in Proc : state'[q] = IF q = p THEN "ZOMBIE"
                                     ELSE IF q \in W THEN "RUNNABLE" ELSE state[q]
      /\ \A q \in Proc : wait_state'[q] = IF q \in W THEN "0" ELSE wait_state[q]
  BY <1>1, <1>2 DEF Exit, Awake, Released, Asleep, TypeOK
<1>4. \A q \in Proc : parent'[q] = IF q \in User /\ parent[q] = p THEN initproc
                                                                ELSE parent[q]
  BY DEF Exit, Adopted, Children
<1>5. /\ \A q \in Proc \ {p} : pc'[q] = pc[q] /\ target'[q] = target[q]
      /\ timer' = timer
  BY DEF Exit, TypeOK
<1>6. SleepInv'
  <2>1. WaitStateMeansAsleep'
    BY <1>1, <1>2, <1>3 DEF SleepInv, WaitStateMeansAsleep
  <2>2. timer[p] = 0
    BY <1>1 DEF SleepInv, TimerOwner, TypeOK
  <2>3. \A q \in W : wait_state[q] = "WT_CHILD"
    BY DEF WokenByExit
  <2>4. TimerOwner'
    BY <1>1, <1>2, <1>3, <1>5, <2>2, <2>3 DEF SleepInv, TimerOwner
  <2> QED BY <2>1, <2>4 DEF SleepInv
<1>7. FamilyInv'
  <2>1. \A q \in Proc : Live(q)' <=> Live(q)
    BY <1>1, <1>2, <1>3 DEF Live
  <2>2. /\ state'[initproc] \in {"SLEEPING", "RUNNABLE"}
        /\ \A q \in Proc \ {p} : state[q] \in {"SLEEPING", "RUNNABLE"}
                                 => state'[q] \in {"SLEEPING", "RUNNABLE"}
    BY <1>1, <1>3 DEF FamilyInv
  <2>3. ParentAlive'
    BY <1>1, <1>4, <2>1, <2>2 DEF FamilyInv, ParentAlive, Proc
  <2>4. Rooted'
    <3> SUFFICES ASSUME NEW S \in SUBSET {q \in User : Live(q)'}, S # {}
                 PROVE  \E q \in S : parent'[q] \notin S
      BY DEF Rooted
    <3>1. PICK q \in S : parent[q] \notin S
      BY <2>1 DEF FamilyInv, Rooted, Proc
    <3> QED BY <1>4, <3>1, DistinctProcs DEF Proc
  <2>5. \A q \in User : (state'[q] = "FREE" <=> parent'[q] = None)
                        /\ parent'[q] \in User \cup {initproc, None}
    BY <1>1, <1>2, <1>3, <1>4 DEF FamilyInv, Proc
  <2> QED BY <2>2, <2>3, <2>4, <2>5 DEF FamilyInv
<1>8. WaitInv'
  <2> SUFFICES ASSUME NEW q \in Proc, state'[q] = "SLEEPING", wait_state'[q] = "WT_CHILD"
               PROVE  /\ Awaited(q, target[q])' # {}
                      /\ \A c \in Awaited(q, target[q])' : state'[c] # "ZOMBIE"
    BY <1>1, <1>5 DEF WaitInv, NoLostChildWakeup, WaiterHasChild
  <2>1. /\ q # p /\ q \notin W /\ target'[q] = target[q]
        /\ state[q] = "SLEEPING" /\ wait_state[q] = "WT_CHILD"
    BY <1>3, <1>5
  <2>2. /\ Awaited(q, target[q]) # {}
        /\ \A c \in Awaited(q, target[q]) : state[c] # "ZOMBIE"
    BY <2>1 DEF WaitInv, NoLostChildWakeup, WaiterHasChild
  <2>3. q # parent[p] /\ (q = initproc => \A c \in Children(p) : state[c] # "ZOMBIE")
    BY <2>1 DEF WokenByExit
  <2>4. CASE q # initproc
    <3>1. Awaited(q, target[q])' = Awaited(q, target[q])
      BY <1>4, <2>1, <2>3, <2>4 DEF Awaited, Children, Proc
    <3>2. p \notin Awaited(q, target[q])
      BY <2>3 DEF Awaited, Children
    <3>3. \A c \in Awaited(q, target[q]) : c \in Proc /\ state'[c] # "ZOMBIE"
      BY <1>3, <2>2, <3>2 DEF Awaited, Children, Proc
    <3> QED BY <2>2, <3>1, <3>3
  <2>5. CASE q = initproc
    <3>1. target[q] = None /\ target'[q] = None
      BY <2>1, <2>5 DEF WaitInv
    <3>2. Awaited(q, target[q])' = Awaited(q, target[q]) \cup Children(p)
      BY <1>4, <2>5, <3>1 DEF Awaited, Children, Proc
    <3>3. p \notin Children(p)
      <4>1. {p} \in SUBSET {c \in User : Live(c)}
        BY DEF Live
      <4> QED BY <4>1 DEF FamilyInv, Rooted, Children
    <3>4. p \notin Awaited(q, target[q])
      BY <2>3 DEF Awaited, Children
    <3>5. \A c \in Awaited(q, target[q]) \cup Children(p) :
             c \in Proc /\ c # p /\ state[c] # "ZOMBIE"
      BY <2>2, <2>3, <2>5, <3>3, <3>4 DEF Awaited, Children, Proc
    <3>6. \A c \in Awaited(q, target[q]) \cup Children(p) : state'[c] # "ZOMBIE"
      BY <1>3, <3>5
    <3> QED BY <2>2, <3>2, <3>6
  <2> QED BY <2>4, <2>5
<1> QED BY <1>6, <1>7, <1>8

\* The running process goes to sleep in do_wait, having seen its children.
LEMMA WaitSleepTree ==
    ASSUME TreeInv, NEW p \in User \cup {initproc}, NEW pid \in User \cup {None},
           p = current, state[p] = "RUNNABLE", pc[p] # "sleep",
           p = initproc => pid = None,
           Awaited(p, pid) # {}, \A c \in Awaited(p, pid) : state[c] # "ZOMBIE",
           state' = [state EXCEPT ![p] = "SLEEPING"],
           wait_state' = [wait_state EXCEPT ![p] = "WT_CHILD"],
           target' = [target EXCEPT ![p] = pid],
           \A q \in Proc \ {p} : pc'[q] = pc[q],
           UNCHANGED <<parent, timer>>
    PROVE  SleepInv' /\ FamilyInv' /\ WaitInv'
<1> USE DEF TreeInv, QueueInv
<1>1. p \in Proc /\ None \notin Proc
  BY DistinctProcs DEF Proc
<1>2. /\ \A q \in Proc \ {p} : /\ state'[q] = state[q]
                               /\ wait_state'[q] = wait_state[q]
                               /\ target'[q] = target[q]
      /\ state'[p] = "SLEEPING" /\ wait_state'[p] = "WT_CHILD" /\ target'[p] = pid
  BY <1>1 DEF TypeOK
<1>3. SleepInv'
  <2>1. timer[p] = 0
    BY <1>1 DEF SleepInv, TimerOwner, TypeOK
  <2> QED BY <1>1, <1>2, <2>1 DEF SleepInv, WaitStateMeansAsleep, TimerOwner
<1>4. FamilyInv'
  <2>1. \A q \in User : Live(q)' <=> Live(q)
    BY <1>1, <1>2 DEF Live, Proc
  <2>2. ParentAlive'
    BY <1>1, <1>2, <2>1 DEF FamilyInv, ParentAlive, Proc
  <2>3. Rooted'
    BY <2>1 DEF FamilyInv, Rooted
  <2> QED BY <1>1, <1>2, <2>2, <2>3 DEF FamilyInv, Proc
<1>5. WaitInv'
  <2>1. \A q \in Proc : \A x : Awaited(q, x)' = Awaited(q, x)
    BY DEF Awaited, Children
  <2>2. \A c \in User : state'[c] = "ZOMBIE" <=> state[c] = "ZOMBIE" /\ c # p
    BY <1>1, <1>2 DEF Proc
  <2>3. target'[initproc] = None
    BY <1>2, DistinctProcs DEF WaitInv, Proc
  <2>4. \A q \in Proc : \A x : Awaited(q, x) \subseteq User
    BY DEF Awaited, Children
  <2> QED BY <1>1, <1>2, <2>1, <2>2, <2>3, <2>4
          DEF WaitInv, NoLostChildWakeup, WaiterHasChild
<1> QED BY <1>3, <1>4, <1>5

\* The running process goes to sleep in do_sleep, with its timer linked.
LEMMA TimerSleepTree ==
    ASSUME TreeInv, NEW p \in User, p = current, state[p] = "RUNNABLE",
           NEW ticks \in 1..MaxSleep, Sleep(p, ticks)
    PROVE  SleepInv' /\ FamilyInv' /\ WaitInv'
<1> USE DEF TreeInv, QueueInv
<1>1. p \in Proc /\ p # initproc
  BY DistinctProcs DEF Proc
<1>2. /\ \A q \in Proc \ {p} : /\ state'[q] = state[q]
                               /\ wait_state'[q] = wait_state[q]
                               /\ timer'[q] = timer[q] /\ pc'[q] = pc[q]
      /\ state'[p] = "SLEEPING" /\ wait_state'[p] = "WT_TIMER"
      /\ timer'[p] > 0 /\ pc'[p] = "sleep"
      /\ UNCHANGED <<parent, target>>
  BY <1>1 DEF Sleep, TypeOK
<1>3. SleepInv'
  BY <1>1, <1>2 DEF SleepInv, WaitStateMeansAsleep, TimerOwner
<1>4. FamilyInv'
  <2>1. \A q \in User : Live(q)' <=> Live(q)
    BY <1>1, <1>2 DEF Live, Proc
  <2>2. ParentAlive'
    BY <1>1, <1>2, <2>1 DEF FamilyInv, ParentAlive, Proc
  <2>3. Rooted'
    BY <1>2, <2>1 DEF FamilyInv, Rooted
  <2> QED BY <1>1, <1>2, <2>2, <2>3, DistinctProcs DEF FamilyInv, Proc
<1>5. WaitInv'
  <2>1. \A q \in Proc : \A x : Awaited(q, x)' = Awaited(q, x) /\ Awaited(q, x) \subseteq User
    BY <1>2 DEF Awaited, Children
  <2>2. \A c \in User : state'[c] = "ZOMBIE" => state[c] = "ZOMBIE"
    BY <1>1, <1>2 DEF Proc
  <2> QED BY <1>1, <1>2, <2>1, <2>2 DEF WaitInv, NoLostChildWakeup, WaiterHasChild
<1> QED BY <1>3, <1>4, <1>5

\* Steps that leave the tree and the sleepers alone.
LEMMA QuietTree ==
    ASSUME TreeInv, UNCHANGED <<state, wait_state, parent, timer>>,
           \A q \in Proc \ {current} : pc'[q] = pc[q] /\ target'[q] = target[q],
           target'[initproc] = None,
           state[current] = "RUNNABLE" \/ target' = target,
           timer[current] > 0 => pc'[current] = "sleep"
    PROVE  SleepInv' /\ FamilyInv' /\ WaitInv'
<1> USE DEF TreeInv, QueueInv
<1>1. SleepInv'
  BY DEF SleepInv, WaitStateMeansAsleep, TimerOwner
<1>2. FamilyInv'
  BY DEF FamilyInv, ParentAlive, Rooted, Live
<1>3. WaitInv'
  <2>1. \A q \in Proc : \A x : Awaited(q, x)' = Awaited(q, x)
    BY DEF Awaited, Children
  <2>2. \A q \in Proc : state[q] = "SLEEPING" => target'[q] = target[q]
    OBVIOUS
  <2> QED BY <2>1, <2>2 DEF WaitInv, NoLostChildWakeup, WaiterHasChild
<1> QED BY <1>1, <1>2, <1>3

------------------------------------------------------------------------------
(* The steps of Next *)

LEMMA WaitRoundTree ==
    ASSUME TreeInv, NEW p \in User, p = current, state[p] = "RUNNABLE",
           pc[p] # "sleep", NEW pid \in User \cup {None}, WaitRound(p, pid)
    PROVE  SleepInv' /\ FamilyInv' /\ WaitInv'
<1> USE DEF TreeInv, QueueInv
<1>0. p \in Proc /\ p # initproc /\ timer[p] = 0 /\ target[initproc] = None
  BY DistinctProcs DEF SleepInv, TimerOwner, WaitInv, TypeOK, Proc
<1>1. ASSUME WaitFound(p, pid) PROVE SleepInv' /\ FamilyInv' /\ WaitInv'
  <2>1. PICK z \in Awaited(p, pid) : state[z] = "ZOMBIE" /\ Reap(z)
    BY <1>1 DEF WaitFound
  <2>2. z \in User /\ parent[z] = p
    BY DEF Awaited, Children
  <2>3. \A q \in Proc \ {p} : pc'[q] = pc[q] /\ target'[q] = target[q]
    BY <1>1 DEF WaitFound, Return, TypeOK
  <2>4. target'[initproc] = None
    BY <1>0, <2>3, DistinctProcs DEF Proc
  <2> QED BY <1>1, <2>1, <2>2, <2>3, <2>4, ReapTree DEF WaitFound
<1>2. ASSUME WaitSleep(p, pid) PROVE SleepInv' /\ FamilyInv' /\ WaitInv'
  <2>1. \A q \in Proc \ {p} : pc'[q] = pc[q]
    BY <1>2 DEF WaitSleep, TypeOK
  <2> QED BY <1>0, <1>2, <2>1, WaitSleepTree DEF WaitSleep
<1>3. ASSUME WaitNobody(p, pid) PROVE SleepInv' /\ FamilyInv' /\ WaitInv'
  <2>1. \A q \in Proc \ {p} : pc'[q] = pc[q] /\ target'[q] = target[q]
    BY <1>3 DEF WaitNobody, Return, TypeOK
  <2>2. target'[initproc] = None
    BY <1>0, <2>1, DistinctProcs DEF Proc
  <2> QED BY <1>0, <1>3, <2>1, <2>2, QuietTree DEF WaitNobody
<1> QED BY <1>1, <1>2, <1>3 DEF WaitRound

LEMMA SyscallTree ==
    ASSUME TreeInv, NEW p \in User, Syscall(p)
    PROVE  SleepInv' /\ FamilyInv' /\ WaitInv'
<1> USE DEF TreeInv, QueueInv
<1>0. /\ p \in Proc /\ p # initproc /\ p = current /\ pc[p] = "user"
      /\ state[p] = "RUNNABLE" /\ timer[p] = 0 /\ target[initproc] = None
  <2>1. p = current /\ pc[p] = "user"
    BY DEF Syscall, Fork, FailedCall, ExitCall, Wait, Kill, Yield, Sleep, InUser
  <2> QED BY <2>1, DistinctProcs
          DEF CurrentRuns, SleepInv, TimerOwner, WaitInv, TypeOK, Proc
<1>1. ASSUME NEW c \in User, Fork(p, c) PROVE SleepInv' /\ FamilyInv' /\ WaitInv'
  <2>1. \A q \in Proc \ {p, c} : pc'[q] = pc[q]
    BY <1>1 DEF Fork, TypeOK
  <2> QED BY <1>0, <1>1, <2>1, BirthTree DEF Fork
<1>2. ASSUME FailedCall(p) \/ Yield(p) PROVE SleepInv' /\ FamilyInv' /\ WaitInv'
  <2>1. /\ UNCHANGED <<state, wait_state, parent, timer, target>>
        /\ \A q \in Proc \ {p} : pc'[q] = pc[q]
    BY <1>2 DEF FailedCall, Yield, Return, TypeOK
  <2> QED BY <1>0, <2>1, QuietTree
<1>3. ASSUME ExitCall(p) PROVE SleepInv' /\ FamilyInv' /\ WaitInv'
  BY <1>0, <1>3, ExitTree DEF ExitCall
<1>4. ASSUME NEW pid \in User \cup {None}, Wait(p, pid)
      PROVE  SleepInv' /\ FamilyInv' /\ WaitInv'
  BY <1>0, <1>4, WaitRoundTree DEF Wait
<1>5. ASSUME NEW q \in KillTargets, Kill(p, q)
      PROVE  SleepInv' /\ FamilyInv' /\ WaitInv'
  <2> DEFINE W == WokenByKill(q)
  <2>1. q \in Proc /\ W \in SUBSET Proc
    BY KillAssumption DEF WokenByKill, Proc
  <2>2. \A r \in W : state[r] \in {"SLEEPING", "RUNNABLE"}
    BY <2>1 DEF WokenByKill, SleepInv, WaitStateMeansAsleep
  <2>3. WaitStateMeansAsleep' /\ FamilyInv' /\ WaitInv'
    BY <1>5, <2>1, <2>2, WakeupTree DEF Kill, Wakeup
  <2>4. TimerOwner'
    <3>1. /\ \A r \in Proc : state'[r] = IF r \in W THEN "RUNNABLE" ELSE state[r]
          /\ \A r \in Proc \ {p} : pc'[r] = pc[r]
          /\ timer' = timer
          /\ \A r \in Proc \ W : wait_state'[r] = wait_state[r]
      BY <1>5 DEF Kill, Wakeup, Awake, Released, Asleep, Return, TypeOK
    <3> QED BY <1>0, <2>2, <3>1 DEF SleepInv, TimerOwner
  <2> QED BY <2>3, <2>4 DEF SleepInv
<1>6. ASSUME NEW ticks \in 1..MaxSleep, Sleep(p, ticks)
      PROVE  SleepInv' /\ FamilyInv' /\ WaitInv'
  BY <1>0, <1>6, TimerSleepTree
<1> QED BY <1>1, <1>2, <1>3, <1>4, <1>5, <1>6 DEF Syscall

LEMMA KernelStepTree ==
    ASSUME TreeInv, NEW p \in User, KernelStep(p)
    PROVE  SleepInv' /\ FamilyInv' /\ WaitInv'
<1> USE DEF TreeInv, QueueInv
<1>0. /\ p \in Proc /\ p # initproc /\ p = current
      /\ state[p] = "RUNNABLE" /\ target[initproc] = None
  BY DistinctProcs
     DEF KernelStep, WaitResume, SleepResume, TrapReturn, CurrentRuns, WaitInv, Proc
<1>1. ASSUME WaitResume(p) PROVE SleepInv' /\ FamilyInv' /\ WaitInv'
  <2>1. pc[p] # "sleep" /\ target[p] \in User \cup {None}
    BY <1>0, <1>1 DEF WaitResume, TypeOK
  <2> QED BY <1>0, <1>1, <2>1, ExitTree, WaitRoundTree DEF WaitResume
<1>2. ASSUME SleepResume(p) PROVE SleepInv' /\ FamilyInv' /\ WaitInv'
  <2>1. /\ UNCHANGED <<state, wait_state, parent, target>>
        /\ \A q \in Proc \ {p} : timer'[q] = timer[q] /\ pc'[q] = pc[q]
        /\ timer'[p] = 0
    BY <1>0, <1>2 DEF SleepResume, Return, TypeOK
  <2>2. SleepInv'
    BY <1>0, <2>1 DEF SleepInv, WaitStateMeansAsleep, TimerOwner
  <2>3. FamilyInv' /\ WaitInv'
    BY <2>1 DEF FamilyInv, ParentAlive, Rooted, Live, WaitInv, NoLostChildWakeup,
                WaiterHasChild, Awaited, Children
  <2> QED BY <2>2, <2>3
<1>3. ASSUME TrapReturn(p) PROVE SleepInv' /\ FamilyInv' /\ WaitInv'
  <2>1. pc[p] # "sleep" /\ timer[p] = 0
    BY <1>0, <1>3 DEF TrapReturn, SleepInv, TimerOwner, TypeOK
  <2>2. CASE p \in exiting /\ Exit(p)
    BY <1>0, <2>1, <2>2, ExitTree
  <2>3. CASE p \notin exiting
    <3>1. /\ UNCHANGED <<state, wait_state, parent, timer, target>>
          /\ \A q \in Proc \ {p} : pc'[q] = pc[q]
      BY <1>3, <2>3 DEF TrapReturn, TypeOK
    <3> QED BY <1>0, <2>1, <3>1, QuietTree
  <2> QED BY <1>3, <2>2, <2>3 DEF TrapReturn
<1> QED BY <1>1, <1>2, <1>3 DEF KernelStep

LEMMA InitStepTree ==
    ASSUME TreeInv, InitStep
    PROVE  SleepInv' /\ FamilyInv' /\ WaitInv'
<1> USE DEF TreeInv, QueueInv
<1>0. /\ initproc \in Proc /\ current = initproc /\ initproc \notin User
      /\ pc[initproc] # "sleep" /\ timer[initproc] = 0 /\ target[initproc] = None
  <2>1. current = initproc /\ pc[initproc] # "sleep"
    BY DEF InitStep, InitStart, InitScan, InitSchedule, InitResume, AtInit
  <2> QED BY <2>1, DistinctProcs DEF SleepInv, TimerOwner, WaitInv, TypeOK, Proc
<1>1. ASSUME NEW c \in User, InitStart(c) PROVE SleepInv' /\ FamilyInv' /\ WaitInv'
  <2>1. \A q \in Proc \ {initproc, c} : pc'[q] = pc[q]
    BY <1>1 DEF InitStart, TypeOK
  <2>2. state[initproc] = "RUNNABLE"
    BY <1>0, <1>1 DEF InitStart, AtInit, CurrentRuns
  <2> QED BY <1>0, <1>1, <2>1, <2>2, BirthTree DEF InitStart
<1>2. ASSUME InitScan PROVE SleepInv' /\ FamilyInv' /\ WaitInv'
  <2>1. /\ \A q \in Proc \ {initproc} : pc'[q] = pc[q]
        /\ target' = target /\ timer' = timer /\ pc'[initproc] # "sleep"
        /\ state[initproc] = "RUNNABLE"
    BY <1>0, <1>2 DEF InitScan, InitGoto, AtInit, CurrentRuns, TypeOK
  <2>2. CASE \E z \in Children(initproc) : state[z] = "ZOMBIE" /\ Reap(z)
    <3>1. PICK z \in Children(initproc) : state[z] = "ZOMBIE" /\ Reap(z)
      BY <2>2
    <3>2. z \in User /\ parent[z] = initproc /\ state' = [state EXCEPT ![z] = "FREE"]
      BY <3>1 DEF Children, Reap
    <3>3. wait_state' = wait_state
      BY <1>2, <3>1 DEF InitScan
    <3> QED BY <1>0, <2>1, <3>1, <3>2, <3>3, ReapTree
  <2>3. CASE /\ Children(initproc) # {}
             /\ \A c \in Children(initproc) : state[c] # "ZOMBIE"
             /\ state' = [state EXCEPT ![initproc] = "SLEEPING"]
             /\ wait_state' = [wait_state EXCEPT ![initproc] = "WT_CHILD"]
             /\ parent' = parent
    <3>1. Awaited(initproc, None) = Children(initproc)
      BY DEF Awaited
    <3>2. target' = [target EXCEPT ![initproc] = None]
      BY <1>0, <2>1 DEF TypeOK
    <3> QED BY <1>0, <2>1, <2>3, <3>1, <3>2, WaitSleepTree
  <2>4. CASE UNCHANGED <<state, wait_state, parent>>
    BY <1>0, <2>1, <2>4, QuietTree
  <2> QED BY <1>2, <2>2, <2>3, <2>4 DEF InitScan
<1>3. ASSUME InitSchedule \/ InitResume PROVE SleepInv' /\ FamilyInv' /\ WaitInv'
  <2>1. /\ UNCHANGED <<state, wait_state, parent, timer, target>>
        /\ \A q \in Proc \ {initproc} : pc'[q] = pc[q]
    BY <1>3 DEF InitSchedule, InitResume, InitGoto, TypeOK
  <2> QED BY <1>0, <2>1, QuietTree
<1> QED BY <1>1, <1>2, <1>3 DEF InitStep

LEMMA TickTree ==
    ASSUME TreeInv, Tick
    PROVE  SleepInv' /\ FamilyInv' /\ WaitInv'
<1> USE DEF TreeInv, QueueInv
<1>1. Expired \in SUBSET Proc
  BY DEF Expired
<1>2. \A q \in Expired : state[q] \in {"SLEEPING", "RUNNABLE"} /\ pc[q] = "sleep"
  BY DEF Expired, SleepInv, TimerOwner
<1>3. WaitStateMeansAsleep' /\ FamilyInv' /\ WaitInv'
  BY <1>1, <1>2, WakeupTree DEF Tick, Wakeup
<1>4. /\ \A q \in Proc : state'[q] = IF q \in Expired THEN "RUNNABLE" ELSE state[q]
      /\ \A q \in Proc \ Expired : wait_state'[q] = wait_state[q]
      /\ \A q \in Proc : timer'[q] = IF timer[q] > 0 THEN timer[q] - 1 ELSE 0
  BY DEF Tick, Wakeup, Awake, Released, Asleep
<1>5. \A q \in Proc : pc[q] = "sleep" => pc'[q] = pc[q]
  BY DEF Tick, InUser, Return, TypeOK
<1>6. TimerOwner'
  <2>1. \A q \in Proc : timer[q] \in Nat
    BY BoundAssumption DEF TypeOK
  <2> QED BY <1>2, <1>4, <1>5, <2>1 DEF SleepInv, TimerOwner, Expired
<1> QED BY <1>3, <1>6 DEF SleepInv

LEMMA TreeInductive == TreeInv /\ [Next]_vars => TreeInv'
<1> SUFFICES ASSUME TreeInv, [Next]_vars PROVE TreeInv'
  OBVIOUS
<1>0. QueueInv'
  BY QueueInvInductive DEF TreeInv
<1>1. ASSUME NEW p \in User, KernelStep(p) \/ Syscall(p)
      PROVE  SleepInv' /\ FamilyInv' /\ WaitInv'
  BY <1>1, KernelStepTree, SyscallTree
<1>2. ASSUME IdleLoop \/ UNCHANGED vars PROVE SleepInv' /\ FamilyInv' /\ WaitInv'
  <2>1. UNCHANGED <<state, wait_state, parent, timer, target, pc>>
    BY <1>2 DEF IdleLoop, vars
  <2> QED BY <2>1, QuietTree DEF TreeInv, QueueInv, TypeOK, WaitInv, SleepInv, TimerOwner
<1>3. ASSUME InitStep PROVE SleepInv' /\ FamilyInv' /\ WaitInv'
  BY <1>3, InitStepTree
<1>4. ASSUME Tick PROVE SleepInv' /\ FamilyInv' /\ WaitInv'
  BY <1>4, TickTree
<1> QED BY <1>0, <1>1, <1>2, <1>3, <1>4 DEF Next, TreeInv

LEMMA TreeInvHolds == Safety => []TreeInv
BY TreeInit, TreeInductive, PTL DEF Safety

\* A process asleep in do_wait has a child to wait for and has missed the death
\* of none, whatever number of processes fork, die and are adopted.
THEOREM NoLostWakeups == Safety => []WaitersWillWake
BY TreeInvHolds, PTL DEF TreeInv, WaitInv, WaitersWillWake

\* The processes are always a tree of living parents below initproc.
THEOREM ProcessTree == Safety => []TreeSound
BY TreeInvHolds, PTL DEF TreeInv, FamilyInv, TreeSound

\* Timers belong to processes inside do_sleep, and wait_state is set exactly
\* while a process sleeps: the assertions of wakeup_proc, do_fork and
\* run_timer_list hold.
THEOREM SleepersHaveTimers == Safety => []SleepersConsistent
BY TreeInvHolds, PTL DEF TreeInv, SleepInv, SleepersConsistent

------------------------------------------------------------------------------
(* Process implements Lifecycle, counts its processes right, and init_main  *)
(* ends last.                                                               *)

\* The steps of Process that Lifecycle sees.
LEMMA BirthStep ==
    ASSUME TreeInv, NEW p \in User \cup {initproc}, NEW c \in User,
           state[p] = "RUNNABLE", NewChild(p, c)
    PROVE  Life!Next
<1> USE DEF TreeInv, QueueInv
<1>1. LifeOf[c] = "free" /\ (p \in User => LifeOf[p] = "alive")
  BY DEF NewChild, LifeOf
<1>2. LifeOf' = [LifeOf EXCEPT ![c] = "alive"]
  BY DEF NewChild, LifeOf, TypeOK, Proc
<1>3. ParentOf' = [ParentOf EXCEPT ![c] = p]
  BY DEF NewChild, ParentOf, TypeOK, Proc
<1>4. Life!Birth(p, c)
  BY <1>1, <1>2, <1>3 DEF Life!Birth, Life!Alive
<1> QED BY <1>4 DEF Life!Next

LEMMA BurialStep ==
    ASSUME TreeInv, NEW z \in User, state[z] = "ZOMBIE", Reap(z)
    PROVE  Life!Next
<1> USE DEF TreeInv, QueueInv
<1>1. LifeOf[z] = "zombie"
  BY DEF LifeOf
<1>2. LifeOf' = [LifeOf EXCEPT ![z] = "free"]
  BY DEF Reap, LifeOf, TypeOK, Proc
<1>3. ParentOf' = [ParentOf EXCEPT ![z] = None]
  BY DEF Reap, ParentOf, TypeOK, Proc
<1>4. parent[z] \in User \cup {initproc} /\ state[parent[z]] \in {"SLEEPING", "RUNNABLE"}
  BY DistinctProcs DEF FamilyInv, ParentAlive, Live, Proc
<1>5. Life!Alive(ParentOf[z])
  BY <1>4 DEF Life!Alive, LifeOf, ParentOf
<1> QED BY <1>1, <1>2, <1>3, <1>5 DEF Life!Burial, Life!Next

LEMMA DeathStep ==
    ASSUME TreeInv, NEW p \in User, p = current, state[p] = "RUNNABLE", Exit(p)
    PROVE  Life!Next
<1> USE DEF TreeInv, QueueInv
<1>1. \A q \in WokenByExit(p) : q \in Proc /\ state[q] = "SLEEPING"
  BY DEF WokenByExit, SleepInv, WaitStateMeansAsleep
<1>2. LifeOf[p] = "alive"
  BY DEF LifeOf
<1>3. LifeOf' = [LifeOf EXCEPT ![p] = "zombie"]
  <2>1. \A q \in User : state'[q] = IF q = p THEN "ZOMBIE"
                        ELSE IF q \in WokenByExit(p) THEN "RUNNABLE" ELSE state[q]
    BY DEF Exit, Awake, TypeOK, Proc
  <2> QED BY <1>1, <2>1 DEF LifeOf
<1>4. ParentOf' = [c \in User |-> IF ParentOf[c] = p THEN initproc ELSE ParentOf[c]]
  BY DEF Exit, Adopted, Children, ParentOf, Proc
<1> QED BY <1>2, <1>3, <1>4 DEF Life!Death, Life!Next

LEMMA WakeupStutters ==
    ASSUME TreeInv, NEW S \in SUBSET Proc, state' = Awake(S), parent' = parent,
           \A p \in S : state[p] \in {"SLEEPING", "RUNNABLE"}
    PROVE  UNCHANGED Life!vars
<1>1. LifeOf' = LifeOf
  BY DEF Awake, LifeOf, Proc
<1> QED BY <1>1 DEF ParentOf, Life!vars

LEMMA SleepStutters ==
    ASSUME TreeInv, NEW p \in User, state[p] = "RUNNABLE",
           state' = [state EXCEPT ![p] = "SLEEPING"], parent' = parent
    PROVE  UNCHANGED Life!vars
<1>1. LifeOf' = LifeOf
  BY DEF LifeOf, TreeInv, QueueInv, TypeOK, Proc
<1> QED BY <1>1 DEF ParentOf, Life!vars

LEMMA QuietStutters ==
    ASSUME UNCHANGED <<state, parent>>
    PROVE  UNCHANGED Life!vars
BY DEF LifeOf, ParentOf, Life!vars

LEMMA WaitRoundStep ==
    ASSUME TreeInv, NEW p \in User, state[p] = "RUNNABLE",
           NEW pid \in User \cup {None}, WaitRound(p, pid)
    PROVE  [Life!Next]_(Life!vars)
<1>1. CASE WaitFound(p, pid)
  BY <1>1, BurialStep DEF WaitFound, Awaited, Children
<1>2. CASE WaitSleep(p, pid)
  BY <1>2, SleepStutters DEF WaitSleep
<1>3. CASE WaitNobody(p, pid)
  BY <1>3, QuietStutters DEF WaitNobody
<1> QED BY <1>1, <1>2, <1>3 DEF WaitRound

LEMMA LifecycleStep == TreeInv /\ [Next]_vars => [Life!Next]_(Life!vars)
<1> SUFFICES ASSUME TreeInv, [Next]_vars PROVE [Life!Next]_(Life!vars)
  OBVIOUS
<1>1. ASSUME NEW p \in User, Syscall(p) PROVE [Life!Next]_(Life!vars)
  <2>0. p = current /\ state[p] = "RUNNABLE"
    BY <1>1, DistinctProcs
       DEF Syscall, Fork, FailedCall, ExitCall, Wait, Kill, Yield, Sleep, InUser,
           TreeInv, QueueInv, CurrentRuns
  <2>1. CASE \E c \in User : Fork(p, c)
    BY <2>0, <2>1, BirthStep DEF Fork
  <2>2. CASE FailedCall(p) \/ Yield(p)
    BY <2>2, QuietStutters DEF FailedCall, Yield
  <2>3. CASE ExitCall(p)
    BY <2>0, <2>3, DeathStep DEF ExitCall
  <2>4. CASE \E pid \in User \cup {None} : Wait(p, pid)
    BY <2>0, <2>4, WaitRoundStep DEF Wait
  <2>5. ASSUME NEW q \in KillTargets, Kill(p, q) PROVE [Life!Next]_(Life!vars)
    <3>1. WokenByKill(q) \in SUBSET Proc
      BY KillAssumption DEF WokenByKill, Proc
    <3>2. \A r \in WokenByKill(q) : state[r] \in {"SLEEPING", "RUNNABLE"}
      BY <3>1 DEF WokenByKill, TreeInv, SleepInv, WaitStateMeansAsleep
    <3> QED BY <2>5, <3>1, <3>2, WakeupStutters DEF Kill, Wakeup
  <2>6. CASE \E ticks \in 1..MaxSleep : Sleep(p, ticks)
    BY <2>0, <2>6, SleepStutters DEF Sleep
  <2> QED BY <1>1, <2>1, <2>2, <2>3, <2>4, <2>5, <2>6 DEF Syscall
<1>2. ASSUME NEW p \in User, KernelStep(p) PROVE [Life!Next]_(Life!vars)
  <2>0. p = current /\ state[p] = "RUNNABLE"
    BY <1>2, DistinctProcs
       DEF KernelStep, WaitResume, SleepResume, TrapReturn, TreeInv, QueueInv,
           CurrentRuns
  <2>1. CASE WaitResume(p)
    <3>1. target[p] \in User \cup {None}
      BY DEF TreeInv, QueueInv, TypeOK, Proc
    <3> QED BY <2>0, <2>1, <3>1, DeathStep, WaitRoundStep DEF WaitResume
  <2>2. CASE SleepResume(p)
    BY <2>2, QuietStutters DEF SleepResume
  <2>3. CASE TrapReturn(p)
    BY <2>0, <2>3, DeathStep, QuietStutters DEF TrapReturn
  <2> QED BY <1>2, <2>1, <2>2, <2>3 DEF KernelStep
<1>3. ASSUME InitStep PROVE [Life!Next]_(Life!vars)
  <2>1. CASE \E c \in User : InitStart(c)
    BY <2>1, BirthStep DEF InitStart, AtInit, TreeInv, QueueInv, CurrentRuns
  <2>2. CASE InitScan
    <3>1. CASE \E z \in Children(initproc) : state[z] = "ZOMBIE" /\ Reap(z)
      BY <3>1, BurialStep DEF Children
    <3>2. CASE state' = [state EXCEPT ![initproc] = "SLEEPING"] /\ parent' = parent
      <4>1. LifeOf' = LifeOf /\ ParentOf' = ParentOf
        BY <3>2, DistinctProcs DEF LifeOf, ParentOf, TreeInv, QueueInv, TypeOK, Proc
      <4> QED BY <4>1 DEF Life!vars
    <3>3. CASE UNCHANGED <<state, parent>>
      BY <3>3, QuietStutters
    <3> QED BY <2>2, <3>1, <3>2, <3>3 DEF InitScan
  <2>3. CASE InitSchedule \/ InitResume
    BY <2>3, QuietStutters DEF InitSchedule, InitResume
  <2> QED BY <1>3, <2>1, <2>2, <2>3 DEF InitStep
<1>4. ASSUME Tick PROVE [Life!Next]_(Life!vars)
  <2>1. /\ Expired \in SUBSET Proc
        /\ \A q \in Expired : state[q] \in {"SLEEPING", "RUNNABLE"}
    BY DEF Expired, TreeInv, SleepInv, TimerOwner
  <2> QED BY <1>4, <2>1, WakeupStutters DEF Tick, Wakeup
<1>5. ASSUME IdleLoop \/ UNCHANGED vars PROVE [Life!Next]_(Life!vars)
  BY <1>5, QuietStutters DEF IdleLoop, vars
<1> QED BY <1>1, <1>2, <1>3, <1>4, <1>5 DEF Next

\* fork, exit and wait, whatever the scheduler, the timers and kill do between
\* them, are births, deaths and burials of Lifecycle.
THEOREM LifecycleImplemented == Safety => ImplementsLifecycle
<1>1. Init => Life!Init
  BY DistinctProcs DEF Init, Life!Init, LifeOf, ParentOf, Proc
<1> QED BY <1>1, LifecycleStep, TreeInvHolds, PTL
        DEF Safety, ImplementsLifecycle, Life!Spec

------------------------------------------------------------------------------
(* Counting the processes, and the end of init_main *)

LiveProcs == {p \in Proc : Live(p)}

\* When initproc has come to its end it keeps the CPU, and unless it was killed
\* it is alone with idleproc.
HaltInv ==
    pc[initproc] = "halt" =>
        /\ current = initproc
        /\ initproc \notin exiting => \A p \in User : ~Live(p)

EndInv == TreeInv /\ CountExact /\ HaltInv

LEMMA FiniteProcs == IsFiniteSet(LiveProcs)
<1>1. IsFiniteSet(Proc)
  <2>1. IsFiniteSet(User \cup {idleproc})
    BY DistinctProcs, FS_AddElement, Zenon
  <2>2. IsFiniteSet((User \cup {idleproc}) \cup {initproc})
    BY <2>1, FS_AddElement, Zenon
  <2>3. Proc = (User \cup {idleproc}) \cup {initproc}
    BY DEF Proc
  <2> QED BY <2>2, <2>3
<1> QED BY <1>1, FS_Subset DEF LiveProcs

LEMMA PairCount == Cardinality({idleproc, initproc}) = 2
<1>1. IsFiniteSet({idleproc}) /\ Cardinality({idleproc}) = 1
  BY FS_Singleton
<1>2. {idleproc, initproc} = {idleproc} \cup {initproc}
  OBVIOUS
<1>3. Cardinality({idleproc} \cup {initproc}) =
        IF initproc \in {idleproc} THEN Cardinality({idleproc})
                                   ELSE Cardinality({idleproc}) + 1
  BY <1>1, FS_AddElement, Zenon
<1> QED BY <1>1, <1>2, <1>3, DistinctProcs

\* Steps that allocate and free no block leave the count alone.
LEMMA SameCount ==
    ASSUME CountExact, nr_process' = nr_process,
           \A p \in Proc : state'[p] = "FREE" <=> state[p] = "FREE"
    PROVE  CountExact'
<1>1. LiveProcs' = LiveProcs
  BY DEF LiveProcs, Live
<1> QED BY <1>1 DEF CountExact, LiveProcs

LEMMA BirthCount ==
    ASSUME TreeInv, CountExact, NEW p \in Proc, NEW c \in User, NewChild(p, c)
    PROVE  CountExact'
<1>1. c \in Proc /\ c \notin LiveProcs
  BY DEF NewChild, LiveProcs, Live, Proc
<1>2. LiveProcs' = LiveProcs \cup {c}
  BY <1>1 DEF NewChild, LiveProcs, Live, TreeInv, QueueInv, TypeOK
<1>3. Cardinality(LiveProcs') = Cardinality(LiveProcs) + 1
  BY <1>1, <1>2, FiniteProcs, FS_AddElement
<1>4. nr_process' = nr_process + 1 /\ nr_process < MAX_PROCESS /\ nr_process \in Int
  BY DEF NewChild, TreeInv, QueueInv, TypeOK
<1> QED BY <1>3, <1>4, BoundAssumption DEF CountExact, LiveProcs

LEMMA BurialCount ==
    ASSUME TreeInv, CountExact, NEW z \in User, state[z] = "ZOMBIE", Reap(z)
    PROVE  CountExact'
<1>1. z \in Proc /\ z \in LiveProcs
  BY DEF LiveProcs, Live, Proc
<1>2. LiveProcs' = LiveProcs \ {z}
  BY <1>1 DEF Reap, LiveProcs, Live, TreeInv, QueueInv, TypeOK
<1>3. Cardinality(LiveProcs') = Cardinality(LiveProcs) - 1
  BY <1>1, <1>2, FiniteProcs, FS_RemoveElement
<1>4. nr_process' = nr_process - 1 /\ nr_process \in Int
  BY DEF Reap, TreeInv, QueueInv, TypeOK
<1> QED BY <1>3, <1>4, BoundAssumption DEF CountExact, LiveProcs

\* A step is a birth, a burial, or keeps the set of allocated blocks.
LEMMA StepKinds ==
    ASSUME TreeInv, [Next]_vars
    PROVE  \/ \E p \in Proc, c \in User : NewChild(p, c)
           \/ \E z \in User : state[z] = "ZOMBIE" /\ Reap(z)
           \/ /\ nr_process' = nr_process
              /\ \A p \in Proc : state'[p] = "FREE" <=> state[p] = "FREE"
<1> DEFINE Same == /\ nr_process' = nr_process
                   /\ \A p \in Proc : state'[p] = "FREE" <=> state[p] = "FREE"
           Dies(z) == state[z] = "ZOMBIE" /\ Reap(z)
<1> USE DEF TreeInv, QueueInv
<1>0. \A p \in User : p \in Proc
  BY DEF Proc
<1>1. ASSUME NEW p \in User, p = current, state[p] = "RUNNABLE", Exit(p) PROVE Same
  <2>1. \A q \in WokenByExit(p) : state[q] = "SLEEPING"
    BY DEF WokenByExit, SleepInv, WaitStateMeansAsleep
  <2> QED BY <1>0, <1>1, <2>1 DEF Exit, Awake, TypeOK
<1>2. ASSUME NEW p \in User, state[p] = "RUNNABLE", NEW pid \in User \cup {None},
             WaitRound(p, pid)
      PROVE  Same \/ \E z \in User : Dies(z)
  BY <1>0, <1>2 DEF WaitRound, WaitFound, WaitSleep, WaitNobody, Awaited, Children, TypeOK
<1>3. ASSUME NEW p \in User, Syscall(p)
      PROVE  \/ \E q \in Proc, c \in User : NewChild(q, c)
             \/ \E z \in User : Dies(z)
             \/ Same
  <2>0. p = current /\ state[p] = "RUNNABLE"
    BY <1>3, DistinctProcs
       DEF Syscall, Fork, FailedCall, ExitCall, Wait, Kill, Yield, Sleep, InUser,
           CurrentRuns
  <2>1. ASSUME NEW q \in KillTargets, Kill(p, q) PROVE Same
    BY <2>1, KillAssumption
       DEF Kill, Wakeup, Awake, WokenByKill, Proc, SleepInv, WaitStateMeansAsleep
  <2>2. CASE \E c \in User : Fork(p, c)
    BY <1>0, <2>2 DEF Fork
  <2>3. CASE FailedCall(p) \/ Yield(p) \/ \E ticks \in 1..MaxSleep : Sleep(p, ticks)
    BY <1>0, <2>0, <2>3 DEF FailedCall, Yield, Sleep, TypeOK
  <2>4. CASE ExitCall(p) \/ \E pid \in User \cup {None} : Wait(p, pid)
    BY <1>1, <1>2, <2>0, <2>4 DEF ExitCall, Wait
  <2> QED BY <1>3, <2>1, <2>2, <2>3, <2>4 DEF Syscall
<1>4. ASSUME NEW p \in User, KernelStep(p) PROVE Same \/ \E z \in User : Dies(z)
  <2>0. p = current /\ state[p] = "RUNNABLE" /\ target[p] \in User \cup {None}
    BY <1>0, <1>4, DistinctProcs
       DEF KernelStep, WaitResume, SleepResume, TrapReturn, CurrentRuns, TypeOK
  <2> QED BY <1>1, <1>2, <1>4, <2>0
          DEF KernelStep, WaitResume, SleepResume, TrapReturn
<1>5. ASSUME InitStep
      PROVE  \/ \E q \in Proc, c \in User : NewChild(q, c)
             \/ \E z \in User : Dies(z)
             \/ Same
  <2>1. CASE \E c \in User : InitStart(c)
    BY <2>1 DEF InitStart, Proc
  <2>2. CASE InitScan
    <3>1. CASE \E z \in Children(initproc) : state[z] = "ZOMBIE" /\ Reap(z)
      BY <3>1 DEF Children
    <3>2. CASE /\ state' = [state EXCEPT ![initproc] = "SLEEPING"]
               /\ nr_process' = nr_process
      BY <3>2 DEF TypeOK, FamilyInv
    <3>3. CASE UNCHANGED <<state, nr_process>>
      BY <3>3
    <3> QED BY <2>2, <3>1, <3>2, <3>3 DEF InitScan
  <2>3. CASE InitSchedule \/ InitResume
    BY <2>3 DEF InitSchedule, InitResume
  <2> QED BY <1>5, <2>1, <2>2, <2>3 DEF InitStep
<1>6. ASSUME Tick PROVE Same
  BY <1>6 DEF Tick, Wakeup, Awake, Expired, SleepInv, TimerOwner
<1>7. ASSUME IdleLoop \/ UNCHANGED vars PROVE Same
  BY <1>7 DEF IdleLoop, vars
<1> QED BY <1>3, <1>4, <1>5, <1>6, <1>7 DEF Next

\* Once initproc has stopped nothing moves any more, and it stops only when the
\* tree below it is empty or when it was killed.
LEMMA HaltStep ==
    ASSUME TreeInv, HaltInv, [Next]_vars
    PROVE  HaltInv'
<1> USE DEF TreeInv, QueueInv
<1>0. initproc \in Proc /\ initproc \notin User
  BY DistinctProcs DEF Proc
<1>1. CASE pc[initproc] = "halt"
  <2>1. current = initproc
    BY <1>1 DEF HaltInv
  <2>2. ~Tick
    BY <1>0, <1>1, <2>1, DistinctProcs DEF Tick, InterruptsOn, InUser
  <2>3. UNCHANGED vars
    BY <1>0, <1>1, <2>1, <2>2, DistinctProcs
       DEF Next, KernelStep, WaitResume, SleepResume, TrapReturn, Syscall, Fork,
           FailedCall, ExitCall, Wait, Kill, Yield, Sleep, InUser, IdleLoop,
           InitStep, InitStart, InitScan, InitSchedule, InitResume, AtInit
  <2> QED BY <2>3 DEF vars, HaltInv, Live
<1>2. CASE pc[initproc] # "halt"
  <2> SUFFICES ASSUME pc'[initproc] = "halt" PROVE HaltInv'
    BY DEF HaltInv
  <2>1. CASE InitScan
    <3>1. Children(initproc) = {} /\ UNCHANGED <<state, current, exiting>>
      BY <1>0, <2>1 DEF InitScan, InitGoto, TypeOK
    <3>2. \A p \in User : ~Live(p)
      <4> SUFFICES ASSUME {c \in User : Live(c)} # {} PROVE FALSE
        OBVIOUS
      <4>1. PICK c \in {c \in User : Live(c)} : parent[c] \notin {d \in User : Live(d)}
        BY DEF FamilyInv, Rooted
      <4>2. parent[c] = initproc
        BY <4>1 DEF FamilyInv, ParentAlive, Live
      <4> QED BY <3>1, <4>1, <4>2 DEF Children
    <3> QED BY <2>1, <3>1, <3>2 DEF InitScan, AtInit, HaltInv, Live
  <2>2. CASE InitResume
    BY <1>0, <2>2 DEF InitResume, InitGoto, AtInit, HaltInv, TypeOK
  <2>3. CASE InitSchedule
    BY <1>0, <2>3 DEF InitSchedule, InitGoto, TypeOK
  <2>4. CASE \E c \in User : InitStart(c)
    BY <1>0, <2>4 DEF InitStart, TypeOK
  <2>5. CASE Tick \/ IdleLoop \/ UNCHANGED vars
    BY <1>0, <1>2, <2>5 DEF Tick, InUser, Return, IdleLoop, vars, TypeOK
  <2>6. ASSUME NEW p \in User, KernelStep(p) \/ Syscall(p) PROVE FALSE
    <3>1. pc'[initproc] = pc[initproc]
      BY <1>0, <2>6
         DEF KernelStep, WaitResume, SleepResume, TrapReturn, Syscall, Fork,
             FailedCall, ExitCall, Exit, Wait, WaitRound, WaitFound, WaitSleep,
             WaitNobody, Kill, Yield, Sleep, Return, TypeOK
    <3> QED BY <1>2, <3>1
  <2> QED BY <2>1, <2>2, <2>3, <2>4, <2>5, <2>6 DEF Next, InitStep
<1> QED BY <1>1, <1>2

LEMMA EndInvHolds == Safety => []EndInv
<1>1. Init => EndInv
  <2> SUFFICES ASSUME Init PROVE EndInv
    OBVIOUS
  <2>1. {p \in Proc : Live(p)} = {idleproc, initproc}
    BY DistinctProcs DEF Init, Live, Proc
  <2>2. CountExact
    BY <2>1, PairCount, BoundAssumption DEF Init, CountExact
  <2>3. HaltInv
    BY DistinctProcs DEF Init, HaltInv, Proc
  <2> QED BY <2>2, <2>3, TreeInit DEF EndInv
<1>2. EndInv /\ [Next]_vars => EndInv'
  <2> SUFFICES ASSUME EndInv, [Next]_vars PROVE EndInv'
    OBVIOUS
  <2>1. TreeInv'
    BY TreeInductive DEF EndInv
  <2>2. CountExact'
    BY StepKinds, BirthCount, BurialCount, SameCount DEF EndInv
  <2>3. HaltInv'
    BY HaltStep DEF EndInv
  <2> QED BY <2>1, <2>2, <2>3 DEF EndInv
<1> QED BY <1>1, <1>2, PTL DEF Safety

\* nr_process counts the allocated blocks and never exceeds MAX_PROCESS.
THEOREM CountCorrect == Safety => []CountExact
BY EndInvHolds, PTL DEF EndInv

\* The assertions at the end of init_main hold: it ends after everybody else.
THEOREM InitEndsLast == Safety => []InitQuitsLast
<1>1. EndInv => InitQuitsLast
  <2> SUFFICES ASSUME EndInv, pc[initproc] = "halt", initproc \notin exiting
               PROVE  nr_process = 2 /\ (\A p \in User : ~Live(p)) /\ rq = {}
    BY DEF InitQuitsLast
  <2>1. current = initproc /\ \A p \in User : ~Live(p)
    BY DEF EndInv, HaltInv
  <2>2. rq = {}
    BY <2>1 DEF EndInv, TreeInv, QueueInv, RunQueueExact, Live, Proc
  <2>3. {p \in Proc : Live(p)} = {idleproc, initproc}
    BY <2>1 DEF Live, Proc, EndInv, TreeInv, QueueInv, CurrentRuns, FamilyInv
  <2>4. nr_process = 2
    BY <2>3, PairCount DEF EndInv, CountExact
  <2> QED BY <2>1, <2>2, <2>4
<1> QED BY <1>1, EndInvHolds, PTL
==============================================================================
