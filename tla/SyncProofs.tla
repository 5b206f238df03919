------------------------------- MODULE SyncProofs -------------------------------
(***************************************************************************)
(* The safety of kern/sync, for any number of processes, units,            *)
(* philosophers and meals.  SemaphoreLock: the five invariants are         *)
(* inductive together.  The philosophers over semaphores: MutexInv is what *)
(* the mutex gives; InvitationInv ties the place and the private semaphore *)
(* of a philosopher to its state on the table, and needs the mutex in one  *)
(* place only: who is about to test itself has not been tested by a        *)
(* neighbour.  Those over the monitor: from the lemmas of MonitorProofs.   *)
(***************************************************************************)
EXTENDS Sync, QueueLemmas, FiniteSetTheorems

-----------------------------------------------------------------------------
(* SemaphoreLock *)

LockInv ==
    LockTypeOK /\ UnitsConserved /\ QueueExact /\ NoIdleUnit /\ DownNotInterrupted

\* A process joins or leaves the holders.
LEMMA HolderCount ==
    /\ IsFiniteSet(Holders) /\ Cardinality(Holders) \in Nat
    /\ \A p \in Proc \ Holders :
          Cardinality(Holders \cup {p}) = Cardinality(Holders) + 1
    /\ \A p \in Holders : Cardinality(Holders \ {p}) = Cardinality(Holders) - 1
<1>1. IsFiniteSet(Holders)
  BY ProcAssumption, FS_Subset DEF Holders
<1>2. \A p \in Proc \ Holders : Cardinality(Holders \cup {p}) = Cardinality(Holders) + 1
  BY <1>1, FS_AddElement
<1>3. \A p \in Holders : Cardinality(Holders \ {p}) = Cardinality(Holders) - 1
  BY <1>1, FS_RemoveElement
<1> QED BY <1>1, <1>2, <1>3, FS_CardinalityType

LEMMA LockStarts == LockInit => LockInv
<1> SUFFICES ASSUME LockInit PROVE LockInv
  OBVIOUS
<1> USE DEF LockInit, sem_init
<1>1. LockTypeOK
  BY PermitsAssumption DEF LockTypeOK, LockPlaces, Flags
<1>2. Holders = {} /\ Cardinality({}) = 0
  BY FS_EmptySet DEF Holders
<1>3. UnitsConserved
  BY <1>2, PermitsAssumption DEF UnitsConserved
<1>4. QueueExact /\ NoIdleUnit /\ DownNotInterrupted
  BY DEF QueueExact, NoIdleUnit, DownNotInterrupted, Waiting
<1> QED BY <1>1, <1>3, <1>4 DEF LockInv

\* down and try_down when there is a unit: the caller becomes a holder.
LEMMA TakeUnit ==
    ASSUME LockInv, NEW p \in Proc, at[p] = "outside", sem.value > 0,
           sem' = [value |-> sem.value - 1, wait_queue |-> sem.wait_queue],
           at' = [at EXCEPT ![p] = "holding"],
           wakeup_flags' \in [Proc -> Flags],
           \A q \in Proc \ {p} : wakeup_flags'[q] = wakeup_flags[q],
           exiting' = exiting
    PROVE  LockInv'
<1> USE DEF LockInv
<1>1. sem'.value = sem.value - 1 /\ sem'.wait_queue = sem.wait_queue
  BY DEF LockTypeOK
<1>2. LockTypeOK'
  <2>1. sem.value \in 0..Permits /\ sem.wait_queue \in Seq(Proc)
    BY DEF LockTypeOK
  <2>2. sem.value - 1 \in 0..Permits
    BY <2>1, PermitsAssumption
  <2>3. sem' \in [value : 0..Permits, wait_queue : Seq(Proc)]
    BY <2>1, <2>2
  <2>4. at' \in [Proc -> LockPlaces] /\ exiting' \subseteq Proc
    BY DEF LockTypeOK, LockPlaces
  <2> QED BY <2>3, <2>4 DEF LockTypeOK
<1>3. Holders' = Holders \cup {p} /\ p \in Proc \ Holders
  BY DEF Holders, LockTypeOK
<1>4. UnitsConserved'
  BY <1>1, <1>3, HolderCount DEF UnitsConserved, LockTypeOK
<1>5. QueueExact' /\ NoIdleUnit' /\ DownNotInterrupted'
  BY <1>1, PermitsAssumption
     DEF QueueExact, NoIdleUnit, DownNotInterrupted, LockTypeOK, Waiting
<1> QED BY <1>2, <1>4, <1>5

\* down when there is no unit: the caller joins the queue.
LEMMA JoinQueue ==
    ASSUME LockInv, NEW p \in Proc, Down(p), MustWait(sem)
    PROVE  LockInv'
<1> USE DEF LockInv
<1>1. /\ sem'.value = 0 /\ sem.value = 0
      /\ sem'.wait_queue = Append(sem.wait_queue, p)
      /\ at' = [at EXCEPT ![p] = "asleep"] /\ at[p] = "outside"
      /\ wakeup_flags' = [wakeup_flags EXCEPT ![p] = "INTERRUPTED"]
      /\ exiting' = exiting
      /\ sem' = [value |-> sem.value, wait_queue |-> Append(sem.wait_queue, p)]
  BY DEF Down, down, Queued, MustWait, LockTypeOK
<1>2. /\ sem.wait_queue \in Seq(Proc)
      /\ \A i, j \in DOMAIN sem.wait_queue :
            sem.wait_queue[i] = sem.wait_queue[j] => i = j
      /\ ~ \E i \in DOMAIN sem.wait_queue : sem.wait_queue[i] = p
  BY <1>1 DEF QueueExact, Waiting, LockTypeOK
<1>3. LockTypeOK'
  BY <1>1, <1>2, AppendToQueue DEF LockTypeOK, LockPlaces, Flags
<1>4. Holders' = Holders
  BY <1>1 DEF Holders, LockTypeOK
<1>5. UnitsConserved' /\ NoIdleUnit' /\ DownNotInterrupted'
  BY <1>1, <1>4 DEF UnitsConserved, NoIdleUnit, DownNotInterrupted, LockTypeOK
<1>6. QueueExact'
  <2> DEFINE n == Append(sem.wait_queue, p)
  <2>1. /\ \A i, j \in DOMAIN n : n[i] = n[j] => i = j
        /\ \A r : (\E i \in DOMAIN n : n[i] = r)
                 <=> (\E i \in DOMAIN sem.wait_queue : sem.wait_queue[i] = r) \/ r = p
    <3> HIDE DEF LockInv, n
    <3>1. n = Append(sem.wait_queue, p)
      BY DEF n
    <3> QED BY <1>2, <3>1, AppendToQueue
  <2>2. \A r \in Proc : at'[r] = "asleep" <=> at[r] = "asleep" \/ r = p
    BY <1>1 DEF LockTypeOK
  <2>3. sem'.wait_queue = n
    BY <1>1
  <2> HIDE DEF n
  <2> QED BY <2>1, <2>2, <2>3 DEF QueueExact, Waiting
<1> QED BY <1>3, <1>5, <1>6

LEMMA ResumeHolds ==
    ASSUME LockInv, NEW p \in Proc, Resume(p)
    PROVE  LockInv'
<1> USE DEF LockInv
<1>1. /\ sem' = sem /\ at' = [at EXCEPT ![p] = "holding"] /\ at[p] = "woken"
      /\ UNCHANGED <<wakeup_flags, exiting>>
  BY DEF Resume, wait_current_del, QueueExact
<1>2. LockTypeOK' /\ QueueExact' /\ NoIdleUnit' /\ DownNotInterrupted'
  BY <1>1 DEF LockTypeOK, LockPlaces, QueueExact, Waiting, NoIdleUnit, DownNotInterrupted
<1>3. Holders' = Holders
  BY <1>1 DEF Holders, LockTypeOK
<1> QED BY <1>1, <1>2, <1>3 DEF UnitsConserved

\* up: the unit goes to the first waiter, or is counted if there is none.
LEMMA UpHolds ==
    ASSUME LockInv, NEW p \in Proc, Up(p)
    PROVE  LockInv'
<1> USE DEF LockInv
<1>1. p \in Holders /\ at[p] = "holding" /\ exiting' = exiting
  BY DEF Up, Holders
<1>2. CASE sem.wait_queue = <<>>
  <2>1. /\ sem'.value = sem.value + 1 /\ sem'.wait_queue = <<>>
        /\ sem' = [value |-> sem.value + 1, wait_queue |-> sem.wait_queue]
        /\ at' = [at EXCEPT ![p] = "outside"]
        /\ wakeup_flags' = wakeup_flags
    BY <1>2 DEF Up, up, Queued, Counted, WokenBy, LockTypeOK
  <2>2. Holders' = Holders \ {p}
    BY <2>1 DEF Holders, LockTypeOK
  <2>3. UnitsConserved'
    BY <1>1, <2>1, <2>2, HolderCount DEF UnitsConserved, LockTypeOK
  <2>4. Cardinality(Holders) >= 1
    BY <1>1, HolderCount, FS_CardinalityType, FS_Subset, ProcAssumption, FS_EmptySet
       DEF Holders
  <2>5. sem.value + 1 \in 0..Permits
    BY <2>4, HolderCount, PermitsAssumption DEF UnitsConserved, LockTypeOK
  <2>6. LockTypeOK'
    <3>1. sem' \in [value : 0..Permits, wait_queue : Seq(Proc)]
      BY <1>2, <2>1, <2>5 DEF LockTypeOK
    <3>2. at' \in [Proc -> LockPlaces] /\ wakeup_flags' = wakeup_flags
      BY <2>1 DEF LockTypeOK, LockPlaces
    <3> QED BY <1>1, <3>1, <3>2 DEF LockTypeOK
  <2>7. QueueExact' /\ NoIdleUnit' /\ DownNotInterrupted'
    BY <1>1, <1>2, <2>1 DEF QueueExact, Waiting, NoIdleUnit, DownNotInterrupted, LockTypeOK
  <2> QED BY <2>3, <2>6, <2>7
<1>3. CASE sem.wait_queue # <<>>
  <2> DEFINE q == sem.wait_queue
             h == Head(q)
  <2>1. /\ q \in Seq(Proc) /\ q # <<>>
        /\ \A i, j \in DOMAIN q : q[i] = q[j] => i = j
    BY <1>3 DEF QueueExact, LockTypeOK
  <2>2. /\ Tail(q) \in Seq(Proc) /\ h \in Proc
        /\ \A i, j \in DOMAIN Tail(q) : Tail(q)[i] = Tail(q)[j] => i = j
        /\ \A r : (\E i \in DOMAIN Tail(q) : Tail(q)[i] = r)
                  <=> (\E i \in DOMAIN q : q[i] = r) /\ r # h
    BY <2>1, TailOfQueue
  <2>3. at[h] = "asleep" /\ h # p
    <3>1. 1 \in DOMAIN q /\ q[1] = h
      BY <2>1
    <3> QED BY <1>1, <2>2, <3>1 DEF QueueExact, Waiting
  <2>4. /\ sem'.value = sem.value /\ sem'.wait_queue = Tail(q)
        /\ sem' = [value |-> sem.value, wait_queue |-> Tail(q)]
    BY <1>3 DEF Up, up, Queued, Counted, LockTypeOK
  <2>5. /\ at' = [r \in Proc |-> IF r = p THEN "outside"
                                 ELSE IF r = h THEN "woken" ELSE at[r]]
        /\ wakeup_flags' = [r \in Proc |-> IF r = h THEN "KSEM" ELSE wakeup_flags[r]]
    BY <1>3 DEF Up, WokenBy
  <2>6. LockTypeOK'
    BY <1>1, <2>2, <2>4, <2>5 DEF LockTypeOK, LockPlaces, Flags
  <2>7. Holders' = (Holders \ {p}) \cup {h} /\ h \notin Holders
    BY <2>2, <2>3, <2>5 DEF Holders
  <2>8. Cardinality((Holders \ {p}) \cup {h}) = Cardinality(Holders)
    <3>1. /\ IsFiniteSet(Holders \ {p})
          /\ Cardinality(Holders \ {p}) = Cardinality(Holders) - 1
          /\ Cardinality(Holders) \in Nat
      BY <1>1, HolderCount, FS_RemoveElement
    <3>2. Cardinality((Holders \ {p}) \cup {h}) = Cardinality(Holders \ {p}) + 1
      BY <2>7, <3>1, FS_AddElement
    <3> QED BY <3>1, <3>2
  <2>9. UnitsConserved'
    BY <2>4, <2>7, <2>8 DEF UnitsConserved
  <2>10. NoIdleUnit' /\ DownNotInterrupted'
    BY <1>3, <2>3, <2>4, <2>5 DEF NoIdleUnit, DownNotInterrupted, LockTypeOK
  <2>11. QueueExact'
    <3>1. \A r \in Proc : at'[r] = "asleep" <=> at[r] = "asleep" /\ r # h
      BY <1>1, <2>3, <2>5
    <3>2. sem'.wait_queue = Tail(q)
      BY <2>4
    <3>3. \A i, j \in DOMAIN sem'.wait_queue :
             sem'.wait_queue[i] = sem'.wait_queue[j] => i = j
      BY <2>2, <3>2
    <3>4. \A r \in Proc : (\E i \in DOMAIN sem'.wait_queue : sem'.wait_queue[i] = r)
                          <=> at[r] = "asleep" /\ r # h
      <4>1. \A r \in Proc : at[r] = "asleep" <=> \E i \in DOMAIN q : q[i] = r
        BY DEF QueueExact, Waiting
      <4>2. \A r \in Proc : (\E i \in DOMAIN Tail(q) : Tail(q)[i] = r)
                            <=> at[r] = "asleep" /\ r # h
        <5> HIDE DEF q, h
        <5> QED BY <2>2, <4>1, Zenon
      <4> QED BY <3>2, <4>2, Zenon
    <3> QED BY <3>1, <3>3, <3>4 DEF QueueExact, Waiting
  <2> QED BY <2>6, <2>9, <2>10, <2>11
<1> QED BY <1>2, <1>3

LEMMA KillHolds ==
    ASSUME LockInv, NEW p \in Proc, Kill(p)
    PROVE  LockInv'
BY DEF Kill, LeaveAsleep, LockInv, LockTypeOK, UnitsConserved, Holders, QueueExact,
       Waiting, NoIdleUnit, DownNotInterrupted

LEMMA LockSteps == LockInv /\ [LockNext]_lockvars => LockInv'
<1> SUFFICES ASSUME LockInv, [LockNext]_lockvars PROVE LockInv'
  OBVIOUS
<1>1. ASSUME NEW p \in Proc, Down(p)
      PROVE  LockInv'
  <2>1. CASE MustWait(sem)
    BY <1>1, <2>1, JoinQueue
  <2>2. CASE ~ MustWait(sem)
    <3>1. /\ sem' = [value |-> sem.value - 1, wait_queue |-> sem.wait_queue] /\ at[p] = "outside"
          /\ at' = [at EXCEPT ![p] = "holding"] /\ exiting' = exiting
          /\ wakeup_flags' = [wakeup_flags EXCEPT ![p] = "INTERRUPTED"]
      BY <1>1, <2>2 DEF Down, down, Counted
    <3>2. sem.value > 0
      BY <2>2, PermitsAssumption DEF MustWait, LockInv, LockTypeOK
    <3>3. /\ wakeup_flags' \in [Proc -> Flags]
          /\ \A q \in Proc \ {p} : wakeup_flags'[q] = wakeup_flags[q]
      BY <3>1 DEF LockInv, LockTypeOK, Flags
    <3> QED BY <3>1, <3>2, <3>3, TakeUnit
  <2> QED BY <2>1, <2>2
<1>2. ASSUME NEW p \in Proc, TryDown(p)
      PROVE  LockInv'
  BY <1>2, TakeUnit DEF TryDown, Counted, LockInv, LockTypeOK
<1>3. CASE UNCHANGED lockvars
  BY <1>3 DEF lockvars, LockInv, LockTypeOK, UnitsConserved, Holders, QueueExact, Waiting,
              NoIdleUnit, DownNotInterrupted
<1> QED BY <1>1, <1>2, <1>3, ResumeHolds, UpHolds, KillHolds DEF LockNext

\* All five invariants of sem.c hold for any number of processes and units.
LEMMA LockInvariant == LockSpec => []LockInv
BY LockStarts, LockSteps, PTL DEF LockSpec

\* The value and the wait queue of a semaphore keep their types: value never goes
\* below zero and never above what sem_init gave it.
THEOREM SemaphoreTypes == LockSpec => []LockTypeOK
<1>1. LockInv => LockTypeOK
  BY DEF LockInv
<1> QED BY <1>1, LockInvariant, PTL

\* __up and __down neither lose nor make units: a semaphore that starts at 1 is a
\* mutual exclusion lock.
THEOREM UnitsNeverLost == LockSpec => []UnitsConserved
<1>1. LockInv => UnitsConserved
  BY DEF LockInv
<1> QED BY <1>1, LockInvariant, PTL

\* The wait queue holds exactly the processes asleep in __down, each once, and
\* nobody is asleep while a unit is free.
THEOREM WaitQueues == LockSpec => []WaitQueueSound
<1>1. LockInv => WaitQueueSound
  BY DEF LockInv, WaitQueueSound
<1> QED BY <1>1, LockInvariant, PTL

\* The assertion of down() cannot fail.
THEOREM DownAlwaysSucceeds == LockSpec => []DownNotInterrupted
<1>1. LockInv => DownNotInterrupted
  BY DEF LockInv
<1> QED BY <1>1, LockInvariant, PTL

\* Waiters leave the queue of a semaphore in the order in which they came.
THEOREM ServedInOrder == LockSpec => FirstComeFirstServed
<1> DEFINE InOrder == \/ sem'.wait_queue = sem.wait_queue
                      \/ \E p \in Proc : sem'.wait_queue = Append(sem.wait_queue, p)
                      \/ sem.wait_queue # <<>> /\ sem'.wait_queue = Tail(sem.wait_queue)
<1>1. LockInv /\ [LockNext]_lockvars => [InOrder]_lockvars
  <2> SUFFICES ASSUME LockInv, NEW p \in Proc,
                      Down(p) \/ Resume(p) \/ TryDown(p) \/ Up(p) \/ Kill(p)
               PROVE  InOrder
    BY DEF LockNext
  <2>1. CASE Down(p)
    BY <2>1 DEF Down, down, Queued, Counted, LockInv, LockTypeOK
  <2>2. CASE Resume(p)
    BY <2>2 DEF Resume, wait_current_del, LockInv, QueueExact
  <2>3. CASE TryDown(p)
    BY <2>3 DEF TryDown, Counted, LockInv, LockTypeOK
  <2>4. CASE Up(p)
    BY <2>4 DEF Up, up, Queued, Counted, LockInv, LockTypeOK
  <2>5. CASE Kill(p)
    BY <2>5 DEF Kill
  <2> QED BY <2>1, <2>2, <2>3, <2>4, <2>5
<1> QED BY <1>1, LockInvariant, PTL DEF LockSpec, FirstComeFirstServed

-----------------------------------------------------------------------------
(* The philosophers over semaphores *)

\* places between down(&mutex) and up(&mutex)
Critical == {"hungry", "test", "taken", "thinking", "left", "right", "leave"}

Owner(i) == pc[i] \in Critical /\ ~ Waiting(mutex, i)

MutexInv ==
    /\ \A i, j \in DOMAIN mutex.wait_queue :
          mutex.wait_queue[i] = mutex.wait_queue[j] => i = j
    /\ \A i \in Phil : Waiting(mutex, i) => pc[i] \in {"hungry", "thinking"}
    /\ \A i, j \in Phil : Owner(i) /\ Owner(j) => i = j
    /\ mutex.value = 1 => mutex.wait_queue = <<>> /\ \A i \in Phil : ~ Owner(i)

\* Philosopher i has asked for its forks and has not got them.
Invited(i) == state_sema[i] = "EATING" /\ pc[i] \in {"taken", "forks"}
Starves(i) == state_sema[i] = "HUNGRY" /\ pc[i] = "eat"

PlaceInv(i) ==
    /\ pc[i] \in {"think", "take", "hungry", "left", "right", "leave", "quit"}
          => state_sema[i] = "THINKING"
    /\ pc[i] = "test" => state_sema[i] = "HUNGRY"
    /\ pc[i] \in {"taken", "forks", "eat"} => state_sema[i] \in {"HUNGRY", "EATING"}
    /\ pc[i] \in {"put", "thinking"} => state_sema[i] = "EATING"

InvitationInv ==
    \A i \in Phil :
        /\ PlaceInv(i)
        /\ s[i].value = IF Invited(i) THEN 1 ELSE 0
        /\ s[i].wait_queue = IF Starves(i) THEN <<i>> ELSE <<>>

MealsInv == \A i \in Phil : pc[i] # "quit" => iter[i] < TIMES

TableInv == TypeOK /\ MutexInv /\ InvitationInv /\ MealsInv

LEMMA Neighbours ==
    ASSUME NEW i \in Phil
    PROVE  /\ LEFT(i) \in Phil /\ LEFT(i) # i
           /\ RIGHT(i) \in Phil /\ RIGHT(i) # i
<1>1. /\ N \in Nat /\ N >= 2 /\ i \in Nat /\ i < N /\ i \in 0..(N - 1)
  BY NAssumption DEF Phil
<1>2. LEFT(i) = IF i = 0 THEN N - 1 ELSE i - 1
  BY <1>1 DEF LEFT
<1>3. RIGHT(i) = IF i = N - 1 THEN 0 ELSE i + 1
  BY <1>1 DEF RIGHT
<1> QED BY <1>1, <1>2, <1>3 DEF Phil

LEMMA InitHolds == Init => TableInv
<1> SUFFICES ASSUME Init PROVE TableInv
  OBVIOUS
<1> USE DEF Init, sem_init
<1>1. TypeOK /\ MealsInv
  BY TimesAssumption DEF TypeOK, Places, MealsInv
<1>2. MutexInv
  BY DEF MutexInv, Waiting, Owner, Critical
<1>3. InvitationInv
  BY DEF InvitationInv, PlaceInv, Invited, Starves
<1> QED BY <1>1, <1>2, <1>3 DEF TableInv

-----------------------------------------------------------------------------
(* The mutex *)

\* A philosopher that goes on without touching the mutex.
LEMMA MutexUntouched ==
    ASSUME TypeOK, MutexInv, NEW i \in Phil, NEW from, NEW to, Goes(i, from, to),
           from \in Critical <=> to \in Critical, mutex' = mutex
    PROVE  MutexInv'
<1>1. pc[i] = from /\ ~ Waiting(mutex, i) /\ pc' = [pc EXCEPT ![i] = to]
  BY DEF Goes, Asleep
<1>2. \A j \in Phil : Waiting(mutex, j)' <=> Waiting(mutex, j)
  BY DEF Waiting
<1>3. \A j \in Phil : Owner(j)' <=> Owner(j)
  BY <1>1, <1>2 DEF Owner, TypeOK
<1>4. \A j \in Phil : Waiting(mutex, j)' => pc'[j] \in {"hungry", "thinking"}
  BY <1>1, <1>2 DEF MutexInv, TypeOK
<1> QED BY <1>3, <1>4 DEF MutexInv

\* down(&mutex) takes the free mutex or joins its queue.
LEMMA MutexTaken ==
    ASSUME TypeOK, MutexInv, NEW i \in Phil, DownMutex(i)
    PROVE  MutexInv' /\ mutex' \in [value : 0..1, wait_queue : Seq(Phil)]
<1> DEFINE q == mutex.wait_queue
<1>1. /\ pc[i] \in {"take", "put"} /\ ~ Waiting(mutex, i) /\ mutex' = down(mutex, i)
      /\ \E to \in {"hungry", "thinking"} : pc' = [pc EXCEPT ![i] = to]
  BY DEF DownMutex, Goes, Asleep
<1>2. q \in Seq(Phil) /\ mutex.value \in 0..1 /\ pc \in [Phil -> Places]
  BY DEF TypeOK
<1>3. /\ pc'[i] \in {"hungry", "thinking"}
      /\ \A j \in Phil \ {i} : pc'[j] = pc[j]
  BY <1>1, <1>2
<1>4. ~ Owner(i)
  BY <1>1 DEF Owner, Critical
<1>5. CASE mutex.value = 0
  <2> DEFINE n == Append(q, i)
  <2>1. mutex' = [value |-> mutex.value, wait_queue |-> n]
    BY <1>1, <1>5 DEF down, MustWait, Queued
  <2>2. /\ n \in Seq(Phil)
        /\ \A j, k \in DOMAIN n : n[j] = n[k] => j = k
        /\ \A r : (\E k \in DOMAIN n : n[k] = r) <=> (\E k \in DOMAIN q : q[k] = r) \/ r = i
    <3>1. /\ \A j, k \in DOMAIN q : q[j] = q[k] => j = k
          /\ ~ \E k \in DOMAIN q : q[k] = i
      BY <1>1 DEF MutexInv, Waiting
    <3> QED BY <1>2, <3>1, AppendToQueue
  <2>3. mutex'.wait_queue = n /\ mutex'.value = 0
    BY <1>5, <2>1
  <2>4. \A r \in Phil : Waiting(mutex, r)' <=> Waiting(mutex, r) \/ r = i
    <3> HIDE DEF n
    <3> QED BY <2>2, <2>3 DEF Waiting
  <2>5. \A j, k \in DOMAIN mutex'.wait_queue :
           mutex'.wait_queue[j] = mutex'.wait_queue[k] => j = k
    <3> HIDE DEF n
    <3> QED BY <2>2, <2>3
  <2>6. \A j \in Phil : Waiting(mutex, j)' => pc'[j] \in {"hungry", "thinking"}
    BY <1>3, <2>4 DEF MutexInv
  <2>7. \A j \in Phil : Owner(j)' => Owner(j)
    BY <1>3, <2>4 DEF Owner
  <2>8. MutexInv'
    BY <2>3, <2>5, <2>6, <2>7 DEF MutexInv
  <2> QED BY <1>2, <2>1, <2>2, <2>8
<1>6. CASE mutex.value = 1
  <2>1. mutex' = [value |-> 0, wait_queue |-> q]
    BY <1>1, <1>6 DEF down, MustWait, Counted
  <2>2. mutex'.wait_queue = q /\ mutex'.value = 0
    BY <2>1
  <2>3. \A r \in Phil : Waiting(mutex, r)' <=> Waiting(mutex, r)
    BY <2>2 DEF Waiting
  <2>4. \A j \in Phil : Owner(j)' => j = i
    BY <1>3, <1>6, <2>3 DEF Owner, MutexInv
  <2>5. \A j \in Phil : Waiting(mutex, j)' => pc'[j] \in {"hungry", "thinking"}
    BY <1>3, <2>3 DEF MutexInv
  <2>6. MutexInv'
    BY <2>2, <2>4, <2>5 DEF MutexInv
  <2> QED BY <1>2, <2>1, <2>6
<1> QED BY <1>2, <1>5, <1>6

\* up(&mutex) hands the mutex to the first waiter or frees it.
LEMMA MutexReleased ==
    ASSUME TypeOK, MutexInv, NEW i \in Phil, NEW from \in {"taken", "leave"}, NEW to,
           Goes(i, from, to), to \notin Critical, mutex' = up(mutex)
    PROVE  MutexInv' /\ mutex' \in [value : 0..1, wait_queue : Seq(Phil)]
<1> DEFINE q == mutex.wait_queue
<1>1. /\ pc[i] \in {"taken", "leave"} /\ ~ Waiting(mutex, i)
      /\ pc' = [pc EXCEPT ![i] = to]
  BY DEF Goes, Asleep
<1>2. q \in Seq(Phil) /\ mutex.value \in 0..1 /\ pc \in [Phil -> Places]
  BY DEF TypeOK
<1>3. /\ pc'[i] = to
      /\ \A j \in Phil \ {i} : pc'[j] = pc[j]
  BY <1>1, <1>2
<1>4. Owner(i) /\ ~ Owner(i)' /\ mutex.value = 0
  BY <1>1, <1>2, <1>3 DEF Owner, Critical, MutexInv
<1>5. CASE q = <<>>
  <2>1. mutex' = [value |-> 1, wait_queue |-> <<>>]
    BY <1>4, <1>5 DEF up, Counted
  <2>2. mutex'.wait_queue = <<>> /\ mutex'.value = 1
    BY <2>1
  <2>3. \A r \in Phil : ~ Waiting(mutex, r)' /\ ~ Waiting(mutex, r)
    BY <1>5, <2>2 DEF Waiting
  <2>4. \A j \in Phil : ~ Owner(j)'
    BY <1>3, <1>4, <2>3 DEF Owner, MutexInv
  <2>5. MutexInv'
    BY <2>2, <2>3, <2>4 DEF MutexInv
  <2>6. mutex' \in [value : 0..1, wait_queue : Seq(Phil)]
    BY <1>2, <1>5, <2>1
  <2> QED BY <2>5, <2>6
<1>6. CASE q # <<>>
  <2> DEFINE h == Head(q)
             t == Tail(q)
  <2>1. mutex' = [value |-> 0, wait_queue |-> t]
    BY <1>4, <1>6 DEF up, Queued
  <2>2. /\ t \in Seq(Phil) /\ h \in Phil
        /\ \A j, k \in DOMAIN t : t[j] = t[k] => j = k
        /\ \A r : (\E k \in DOMAIN t : t[k] = r) <=> (\E k \in DOMAIN q : q[k] = r) /\ r # h
    BY <1>2, <1>6, TailOfQueue DEF MutexInv
  <2>3. mutex'.wait_queue = t /\ mutex'.value = 0
    BY <2>1
  <2>4. \A r \in Phil : Waiting(mutex, r)' <=> Waiting(mutex, r) /\ r # h
    <3>1. \A r \in Phil : Waiting(mutex, r) <=> \E k \in DOMAIN q : q[k] = r
      BY DEF Waiting
    <3> HIDE DEF q, t, h
    <3>2. \A r \in Phil : Waiting(mutex, r)' <=> \E k \in DOMAIN t : t[k] = r
      BY <2>3 DEF Waiting
    <3> QED BY <2>2, <3>1, <3>2, Zenon
  <2>5. \A j, k \in DOMAIN mutex'.wait_queue :
           mutex'.wait_queue[j] = mutex'.wait_queue[k] => j = k
    <3> HIDE DEF t
    <3> QED BY <2>2, <2>3
  <2>6. \A j \in Phil : Owner(j)' => j = h
    <3> HIDE DEF h
    <3> QED BY <1>3, <1>4, <2>4 DEF Owner, MutexInv
  <2>7. \A j \in Phil : Waiting(mutex, j)' => pc'[j] \in {"hungry", "thinking"}
    <3> HIDE DEF h
    <3> QED BY <1>1, <1>3, <2>4 DEF MutexInv
  <2>8. MutexInv'
    <3> HIDE DEF h, t
    <3> QED BY <2>3, <2>5, <2>6, <2>7 DEF MutexInv
  <2> QED BY <2>1, <2>2, <2>8
<1> QED BY <1>5, <1>6

-----------------------------------------------------------------------------
(* The table.  Each lemma keeps the invariants of the table for the actions *)
(* that move philosopher i from one place to another.                       *)

TableRest == TypeOK /\ InvitationInv /\ MealsInv

\* An action that changes philosopher i alone, and neither the table nor s.
LEMMA OnlyMoves ==
    ASSUME TableRest, NEW i \in Phil, NEW from, NEW to \in Places, Goes(i, from, to),
           UNCHANGED <<state_sema, s, iter>>,
           mutex' \in [value : 0..1, wait_queue : Seq(Phil)],
           <<from, to>> \in {<<"think", "take">>, <<"take", "hungry">>, <<"eat", "put">>,
                            <<"put", "thinking">>, <<"taken", "forks">>}
    PROVE  TableRest'
<1>1. /\ pc[i] = from /\ ~ Waiting(s[i], i) /\ pc' = [pc EXCEPT ![i] = to]
      /\ state_sema' = state_sema /\ s' = s /\ iter' = iter
  BY DEF Goes, Asleep
<1>2. TypeOK' /\ MealsInv'
  BY <1>1 DEF TableRest, TypeOK, MealsInv
<1>3. from = "eat" => state_sema[i] = "EATING"
  <2> SUFFICES ASSUME from = "eat" PROVE state_sema[i] = "EATING"
    OBVIOUS
  <2>1. state_sema[i] \in {"HUNGRY", "EATING"}
    BY <1>1 DEF TableRest, InvitationInv, PlaceInv
  <2>2. Starves(i) => Waiting(s[i], i)
    <3>1. Starves(i) => s[i].wait_queue = <<i>>
      BY DEF TableRest, InvitationInv
    <3>2. 1 \in DOMAIN <<i>> /\ <<i>>[1] = i
      OBVIOUS
    <3> QED BY <3>1, <3>2 DEF Waiting
  <2> QED BY <1>1, <2>1, <2>2 DEF Starves
<1>4. \A j \in Phil : (Invited(j)' <=> Invited(j)) /\ (Starves(j)' <=> Starves(j))
  BY <1>1, <1>3 DEF Invited, Starves, TableRest, TypeOK
<1>5. \A j \in Phil : PlaceInv(j)'
  BY <1>1, <1>3 DEF PlaceInv, TableRest, TypeOK, InvitationInv
<1>6. InvitationInv'
  BY <1>1, <1>4, <1>5 DEF TableRest, InvitationInv
<1> QED BY <1>2, <1>6 DEF TableRest

LEMMA HungryHolds ==
    ASSUME TableRest, NEW i \in Phil, Hungry(i)
    PROVE  TableRest' /\ state_sema[i] = "THINKING"
<1>1. /\ pc[i] = "hungry" /\ pc' = [pc EXCEPT ![i] = "test"]
      /\ state_sema' = [state_sema EXCEPT ![i] = "HUNGRY"]
      /\ UNCHANGED <<mutex, s, iter>>
  BY DEF Hungry, Goes
<1>2. TypeOK' /\ MealsInv'
  BY <1>1 DEF TableRest, TypeOK, MealsInv, Places
<1>3. state_sema[i] = "THINKING"
  BY <1>1 DEF TableRest, InvitationInv, PlaceInv
<1>4. \A j \in Phil : (Invited(j)' <=> Invited(j)) /\ (Starves(j)' <=> Starves(j))
  BY <1>1 DEF Invited, Starves, TableRest, TypeOK
<1>5. \A j \in Phil : PlaceInv(j)'
  BY <1>1 DEF PlaceInv, TableRest, TypeOK, InvitationInv
<1> QED BY <1>1, <1>2, <1>3, <1>4, <1>5 DEF TableRest, InvitationInv

LEMMA ThinkingHolds ==
    ASSUME TableRest, NEW i \in Phil, Thinking(i)
    PROVE  TableRest' /\ state_sema[i] = "EATING"
<1>1. /\ pc[i] = "thinking" /\ pc' = [pc EXCEPT ![i] = "left"]
      /\ state_sema' = [state_sema EXCEPT ![i] = "THINKING"]
      /\ UNCHANGED <<mutex, s, iter>>
  BY DEF Thinking, Goes
<1>2. TypeOK' /\ MealsInv'
  BY <1>1 DEF TableRest, TypeOK, MealsInv, Places
<1>3. state_sema[i] = "EATING"
  BY <1>1 DEF TableRest, InvitationInv, PlaceInv
<1>4. \A j \in Phil : (Invited(j)' <=> Invited(j)) /\ (Starves(j)' <=> Starves(j))
  BY <1>1 DEF Invited, Starves, TableRest, TypeOK
<1>5. \A j \in Phil : PlaceInv(j)'
  BY <1>1 DEF PlaceInv, TableRest, TypeOK, InvitationInv
<1> QED BY <1>1, <1>2, <1>3, <1>4, <1>5 DEF TableRest, InvitationInv

\* down(&s[i]) consumes the unit of an invited philosopher and lets another starve.
LEMMA ForksHolds ==
    ASSUME TableRest, NEW i \in Phil, Forks(i)
    PROVE  TableRest'
<1>1. /\ pc[i] = "forks" /\ pc' = [pc EXCEPT ![i] = "eat"]
      /\ s' = [s EXCEPT ![i] = down(s[i], i)]
      /\ UNCHANGED <<state_sema, mutex, iter>>
  BY DEF Forks, Goes
<1>2. state_sema[i] \in {"HUNGRY", "EATING"} /\ ~ Starves(i)
  BY <1>1 DEF TableRest, InvitationInv, PlaceInv, Starves
<1>3. s[i].wait_queue = <<>> /\ s[i].value = IF state_sema[i] = "EATING" THEN 1 ELSE 0
  BY <1>1, <1>2 DEF TableRest, InvitationInv, Invited
<1>4. s'[i] = [value |-> 0, wait_queue |-> IF state_sema[i] = "EATING" THEN <<>> ELSE <<i>>]
  <2>1. s \in [Phil -> [value : 0..1, wait_queue : Seq(Phil)]]
    BY DEF TableRest, TypeOK
  <2>2. s'[i] = down(s[i], i)
    BY <1>1, <2>1
  <2> QED BY <1>2, <1>3, <2>2 DEF down, MustWait, Queued, Counted
<1>5. \A j \in Phil \ {i} : s'[j] = s[j] /\ pc'[j] = pc[j]
  BY <1>1 DEF TableRest, TypeOK
<1>6. pc'[i] = "eat" /\ state_sema' = state_sema
  BY <1>1 DEF TableRest, TypeOK
<1>7. TypeOK'
  <2>1. s' \in [Phil -> [value : 0..1, wait_queue : Seq(Phil)]]
    <3>1. <<>> \in Seq(Phil) /\ <<i>> \in Seq(Phil)
      OBVIOUS
    <3>2. s'[i] \in [value : 0..1, wait_queue : Seq(Phil)]
      BY <1>4, <3>1
    <3> QED BY <1>1, <3>2 DEF TableRest, TypeOK
  <2> QED BY <1>1, <2>1 DEF TableRest, TypeOK, Places
<1>8. MealsInv'
  BY <1>1 DEF TableRest, TypeOK, MealsInv
<1>9. InvitationInv'
  <2> SUFFICES ASSUME NEW j \in Phil
               PROVE  /\ PlaceInv(j)'
                      /\ s'[j].value = IF Invited(j)' THEN 1 ELSE 0
                      /\ s'[j].wait_queue = IF Starves(j)' THEN <<j>> ELSE <<>>
    BY DEF InvitationInv
  <2>1. CASE j = i
    BY <1>2, <1>4, <1>6, <2>1 DEF PlaceInv, Invited, Starves
  <2>2. CASE j # i
    BY <1>5, <1>6, <2>2 DEF PlaceInv, Invited, Starves, TableRest, InvitationInv
  <2> QED BY <2>1, <2>2
<1> QED BY <1>7, <1>8, <1>9 DEF TableRest

\* phi_test_sema(j), called by i: j may be i.  Nobody but the caller is about to
\* test itself.
LEMMA TestHolds ==
    ASSUME TableRest, NEW i \in Phil, NEW j \in Phil, NEW from, NEW to \in Places,
           Goes(i, from, to), phi_test_sema(j), UNCHANGED <<mutex, iter>>,
           \/ from = "test" /\ to = "taken" /\ j = i
           \/ <<from, to>> \in {<<"left", "right">>, <<"right", "leave">>} /\ j # i,
           j # i => pc[j] # "test"
    PROVE  TableRest'
<1>1. pc[i] = from /\ pc' = [pc EXCEPT ![i] = to] /\ iter' = iter /\ mutex' = mutex
  BY DEF Goes
<1>2. pc'[i] = to /\ \A k \in Phil \ {i} : pc'[k] = pc[k]
  BY <1>1 DEF TableRest, TypeOK
<1>3. MealsInv'
  BY <1>1 DEF TableRest, TypeOK, MealsInv
<1>4. CASE ~ MayEat(j)
  <2>1. state_sema' = state_sema /\ s' = s
    BY <1>4 DEF phi_test_sema
  <2>2. TypeOK'
    BY <1>1, <2>1 DEF TableRest, TypeOK
  <2>3. from = "test" => state_sema[i] = "HUNGRY"
    BY <1>1 DEF TableRest, InvitationInv, PlaceInv
  <2>4. \A k \in Phil : (Invited(k)' <=> Invited(k)) /\ (Starves(k)' <=> Starves(k))
    BY <1>1, <1>2, <2>1, <2>3 DEF Invited, Starves
  <2>5. \A k \in Phil : PlaceInv(k)'
    BY <1>1, <1>2, <2>1, <2>3 DEF PlaceInv, TableRest, InvitationInv
  <2> QED BY <1>3, <2>1, <2>2, <2>4, <2>5 DEF TableRest, InvitationInv
<1>5. CASE MayEat(j)
  <2>1. /\ state_sema' = [state_sema EXCEPT ![j] = "EATING"] /\ s' = [s EXCEPT ![j] = up(s[j])]
        /\ state_sema[j] = "HUNGRY"
    BY <1>5 DEF phi_test_sema, MayEat
  <2>2. /\ state_sema'[j] = "EATING" /\ s'[j] = up(s[j])
        /\ \A k \in Phil \ {j} : state_sema'[k] = state_sema[k] /\ s'[k] = s[k]
    BY <2>1 DEF TableRest, TypeOK
  <2>3. pc[j] \in {"test", "taken", "forks", "eat"} /\ (pc[j] = "test" => j = i)
    BY <1>1, <2>1 DEF TableRest, InvitationInv, PlaceInv, TypeOK, Places
  <2>4. s[j].value = 0 /\ s[j].wait_queue = IF pc[j] = "eat" THEN <<j>> ELSE <<>>
    BY <2>1 DEF TableRest, InvitationInv, Invited, Starves
  <2>5. s'[j] = [value |-> IF pc[j] = "eat" THEN 0 ELSE 1, wait_queue |-> <<>>]
    <3>1. <<j>> # <<>> /\ Tail(<<j>>) = <<>>
      OBVIOUS
    <3> QED BY <2>2, <2>4, <3>1 DEF up, Counted, Queued
  <2>6. TypeOK'
    <3>1. s' \in [Phil -> [value : 0..1, wait_queue : Seq(Phil)]]
      <4>1. s'[j] \in [value : 0..1, wait_queue : Seq(Phil)]
        <5>1. <<>> \in Seq(Phil)
          OBVIOUS
        <5> QED BY <2>5, <5>1
      <4> QED BY <2>1, <2>2, <4>1 DEF TableRest, TypeOK
    <3> QED BY <1>1, <2>1, <3>1 DEF TableRest, TypeOK
  <2>7. pc'[j] \in {"taken", "forks", "eat"} /\ (pc'[j] = "eat" <=> pc[j] = "eat")
    BY <1>1, <1>2, <2>3
  <2>8. InvitationInv'
    <3> SUFFICES ASSUME NEW k \in Phil
                 PROVE  /\ PlaceInv(k)'
                        /\ s'[k].value = IF Invited(k)' THEN 1 ELSE 0
                        /\ s'[k].wait_queue = IF Starves(k)' THEN <<k>> ELSE <<>>
      BY DEF InvitationInv
    <3>1. CASE k = j
      BY <2>2, <2>5, <2>7, <3>1 DEF PlaceInv, Invited, Starves
    <3>2. CASE k # j
      <4>1. state_sema'[k] = state_sema[k] /\ s'[k] = s[k]
        BY <2>2, <3>2
      <4>2. \/ pc'[k] = pc[k]
            \/ k = i /\ pc[k] \in {"left", "right"} /\ pc'[k] \in {"right", "leave"}
        BY <1>1, <1>2, <3>2
      <4> QED BY <4>1, <4>2 DEF PlaceInv, Invited, Starves, TableRest, InvitationInv
    <3> QED BY <3>1, <3>2
  <2> QED BY <1>3, <2>6, <2>8 DEF TableRest
<1> QED BY <1>4, <1>5

LEMMA LeaveHolds ==
    ASSUME TableRest, NEW i \in Phil, Leave(i),
           mutex' \in [value : 0..1, wait_queue : Seq(Phil)]
    PROVE  TableRest'
<1> DEFINE to == IF iter[i] + 1 < TIMES THEN "think" ELSE "quit"
<1>1. /\ pc[i] = "leave" /\ pc' = [pc EXCEPT ![i] = to]
      /\ iter' = [iter EXCEPT ![i] = iter[i] + 1]
      /\ UNCHANGED <<state_sema, s>>
  BY DEF Leave, Goes
<1>2. iter \in [Phil -> 0..TIMES] /\ TIMES \in Nat /\ iter[i] \in Nat /\ iter[i] < TIMES
  BY <1>1, TimesAssumption DEF TableRest, TypeOK, MealsInv
<1>3. TypeOK'
  <2>1. iter' \in [Phil -> 0..TIMES]
    BY <1>1, <1>2
  <2> QED BY <1>1, <2>1 DEF TableRest, TypeOK, Places
<1>4. MealsInv'
  BY <1>1, <1>2 DEF TableRest, TypeOK, MealsInv
<1>5. to \in {"think", "quit"}
  OBVIOUS
<1> HIDE DEF to
<1>6. \A j \in Phil : (Invited(j)' <=> Invited(j)) /\ (Starves(j)' <=> Starves(j))
  BY <1>1, <1>5 DEF Invited, Starves, TableRest, TypeOK
<1>7. \A j \in Phil : PlaceInv(j)'
  BY <1>1, <1>5 DEF PlaceInv, TableRest, TypeOK, InvitationInv
<1> QED BY <1>1, <1>3, <1>4, <1>6, <1>7 DEF TableRest, InvitationInv

-----------------------------------------------------------------------------
(* The whole system *)

\* A step keeps the invariant and is one of the table, or leaves the table alone.
LEMMA StepHolds ==
    ASSUME TableInv, NEW i \in Phil, Step(i)
    PROVE  TableInv' /\ [Table!Next]_state_sema
<1>1. TableRest /\ TypeOK /\ MutexInv
  BY DEF TableInv, TableRest
<1>2. TableRest' /\ MutexInv' => TableInv'
  BY DEF TableInv, TableRest
<1>3. mutex \in [value : 0..1, wait_queue : Seq(Phil)]
  BY <1>1 DEF TypeOK
<1>4. CASE SleepOver(i)
  <2>1. /\ Goes(i, "think", "take") \/ Goes(i, "eat", "put")
        /\ UNCHANGED <<state_sema, mutex, s, iter>>
    BY <1>4 DEF SleepOver
  <2>2. MutexInv'
    BY <1>1, <2>1, MutexUntouched DEF Critical
  <2>3. TableRest'
    BY <1>1, <1>3, <2>1, OnlyMoves DEF Places
  <2> QED BY <1>2, <2>1, <2>2, <2>3
<1>5. CASE DownMutex(i)
  <2>1. /\ Goes(i, "take", "hungry") \/ Goes(i, "put", "thinking")
        /\ UNCHANGED <<state_sema, s, iter>>
    BY <1>5 DEF DownMutex
  <2>2. MutexInv' /\ mutex' \in [value : 0..1, wait_queue : Seq(Phil)]
    BY <1>1, <1>5, MutexTaken
  <2>3. TableRest'
    BY <1>1, <2>1, <2>2, OnlyMoves DEF Places
  <2> QED BY <1>2, <2>1, <2>2, <2>3
<1>6. CASE Hungry(i)
  <2>1. Goes(i, "hungry", "test") /\ mutex' = mutex
    BY <1>6 DEF Hungry
  <2>2. MutexInv'
    BY <1>1, <2>1, MutexUntouched DEF Critical
  <2>3. TableRest' /\ Table!GetHungry(i)
    BY <1>1, <1>6, HungryHolds DEF Hungry, Table!GetHungry
  <2>4. Table!Next
    BY <2>3 DEF Table!Next, Table!Phil, Phil
  <2> QED BY <1>2, <2>2, <2>3, <2>4
<1>7. CASE Thinking(i)
  <2>1. Goes(i, "thinking", "left") /\ mutex' = mutex
    BY <1>7 DEF Thinking
  <2>2. MutexInv'
    BY <1>1, <2>1, MutexUntouched DEF Critical
  <2>3. TableRest' /\ Table!Think(i)
    BY <1>1, <1>7, ThinkingHolds DEF Thinking, Table!Think
  <2>4. Table!Next
    BY <2>3 DEF Table!Next, Table!Phil, Phil
  <2> QED BY <1>2, <2>2, <2>3, <2>4
<1>8. CASE Test(i)
  <2>1. PICK j \in Phil, from \in Critical, to \in Critical :
           /\ Goes(i, from, to) /\ phi_test_sema(j)
           /\ \/ from = "test" /\ to = "taken" /\ j = i
              \/ <<from, to>> \in {<<"left", "right">>, <<"right", "leave">>} /\ j # i
    BY <1>8, Neighbours DEF Test, Critical
  <2>2. UNCHANGED <<mutex, iter>>
    BY <1>8 DEF Test
  <2>3. j # i => pc[j] # "test"
    <3>1. Owner(i)
      BY <2>1 DEF Owner, Goes, Asleep
    <3>2. pc[j] = "test" => Owner(j)
      BY <1>1 DEF Owner, MutexInv, Critical
    <3> QED BY <1>1, <3>1, <3>2 DEF MutexInv
  <2>4. MutexInv'
    BY <1>1, <2>1, <2>2, MutexUntouched
  <2>5. Critical \subseteq Places
    BY DEF Critical, Places
  <2>6. TableRest'
    BY <1>1, <2>1, <2>2, <2>3, <2>5, TestHolds
  <2>7. [Table!Next]_state_sema
    <3>1. CASE MayEat(j)
      <4>1. Table!Eat(j)
        BY <2>1, <3>1
           DEF phi_test_sema, MayEat, Table!Eat, Table!LEFT, Table!RIGHT, LEFT,
               RIGHT
      <4> QED BY <4>1 DEF Table!Next, Table!Phil, Phil
    <3>2. CASE ~ MayEat(j)
      BY <2>1, <3>2 DEF phi_test_sema
    <3> QED BY <3>1, <3>2
  <2> QED BY <1>2, <2>4, <2>6, <2>7
<1>9. CASE Taken(i)
  <2>1. Goes(i, "taken", "forks") /\ mutex' = up(mutex) /\ UNCHANGED <<state_sema, s, iter>>
    BY <1>9 DEF Taken
  <2>2. MutexInv' /\ mutex' \in [value : 0..1, wait_queue : Seq(Phil)]
    BY <1>1, <2>1, MutexReleased DEF Critical
  <2>3. TableRest'
    BY <1>1, <2>1, <2>2, OnlyMoves DEF Places
  <2> QED BY <1>2, <2>1, <2>2, <2>3
<1>10. CASE Forks(i)
  <2>1. Goes(i, "forks", "eat") /\ UNCHANGED <<state_sema, mutex>>
    BY <1>10 DEF Forks
  <2>2. MutexInv'
    BY <1>1, <2>1, MutexUntouched DEF Critical
  <2> QED BY <1>1, <1>2, <1>10, <2>1, <2>2, ForksHolds
<1>11. CASE Leave(i)
  <2> DEFINE to == IF iter[i] + 1 < TIMES THEN "think" ELSE "quit"
  <2>1. Goes(i, "leave", to) /\ mutex' = up(mutex) /\ state_sema' = state_sema
    BY <1>11 DEF Leave
  <2>2. to \notin Critical
    BY DEF Critical
  <2> HIDE DEF to
  <2>3. MutexInv' /\ mutex' \in [value : 0..1, wait_queue : Seq(Phil)]
    BY <1>1, <2>1, <2>2, MutexReleased
  <2>4. TableRest'
    BY <1>1, <1>11, <2>3, LeaveHolds
  <2> QED BY <1>2, <2>1, <2>3, <2>4
<1> QED BY <1>4, <1>5, <1>6, <1>7, <1>8, <1>9, <1>10, <1>11 DEF Step

LEMMA NextHolds == TableInv /\ [Next]_vars => TableInv' /\ [Table!Next]_state_sema
<1> SUFFICES ASSUME TableInv, [Next]_vars
             PROVE  TableInv' /\ [Table!Next]_state_sema
  OBVIOUS
<1>1. CASE UNCHANGED vars
  BY <1>1 DEF vars, TableInv, TypeOK, MutexInv, Waiting, Owner, InvitationInv, PlaceInv,
              Invited, Starves, MealsInv
<1>2. CASE \E i \in Phil : Step(i)
  BY <1>2, StepHolds
<1> QED BY <1>1, <1>2 DEF Next, Done

LEMMA TableInvariant == Spec => []TableInv
BY InitHolds, NextHolds, PTL DEF Spec

\* Mutex and private semaphores keep their types: no value passes 1.
THEOREM PhilosopherTypes == Spec => []TypeOK
<1>1. TableInv => TypeOK
  BY DEF TableInv
<1> QED BY <1>1, TableInvariant, PTL

\* For any number of philosophers, who sits at its meal eats on the table, and a
\* unit in a private semaphore belongs to a philosopher that eats and has not yet
\* come through its down.
THEOREM Invitations == Spec => []InvitationsExact
<1>1. TableInv => InvitationsExact
  <2> SUFFICES ASSUME TableInv PROVE InvitationsExact
    OBVIOUS
  <2>1. OneInvitation
    <3>1. \A i \in Phil : s[i].value = IF Invited(i) THEN 1 ELSE 0
      BY DEF TableInv, InvitationInv
    <3>2. \A i \in Phil : s[i].value = 1 <=> Invited(i)
      BY <3>1
    <3> QED BY <3>2 DEF Invited, OneInvitation
  <2>2. ASSUME NEW i \in Phil, pc[i] \in {"eat", "put"}, ~ Asleep(i)
        PROVE  state_sema[i] = "EATING"
    <3>1. CASE pc[i] = "put"
      BY <3>1 DEF TableInv, InvitationInv, PlaceInv
    <3>2. CASE pc[i] = "eat"
      <4>1. Starves(i) => Waiting(s[i], i)
        <5>1. Starves(i) => s[i].wait_queue = <<i>>
          BY DEF TableInv, InvitationInv
        <5>2. 1 \in DOMAIN <<i>> /\ <<i>>[1] = i
          OBVIOUS
        <5> QED BY <5>1, <5>2 DEF Waiting
      <4> QED BY <2>2, <3>2, <4>1 DEF TableInv, InvitationInv, PlaceInv, Starves, Asleep
    <3> QED BY <2>2, <3>1, <3>2
  <2> QED BY <2>1, <2>2 DEF InvitationsExact, EatsWithForks
<1> QED BY <1>1, TableInvariant, PTL

\* The semaphore version implements the dining table for any number of
\* philosophers: neighbours never eat together.
THEOREM DiningImplemented == Spec => ImplementsDining
<1>1. Init => Table!Init
  BY DEF Init, Table!Init, Table!Phil, Phil
<1> QED BY <1>1, TableInvariant, NextHolds, PTL DEF Spec, ImplementsDining, Table!Spec
-----------------------------------------------------------------------------
(* The monitor *)

Monitor == INSTANCE MonitorProofs
    WITH mutex <- monitor_mutex, pc <- cpc, iter <- citer

LEMMA MonitorSizes == Monitor!Sizes
BY NAssumption, TimesAssumption DEF Monitor!Sizes

\* The specification CheckSync names and the one the lemmas are about are the same.
LEMMA SameMonitor ==
    /\ Condvar!Init <=> Monitor!Init
    /\ [Condvar!Next]_(Condvar!vars) <=> [Monitor!Next]_(Monitor!vars)
    /\ Condvar!MonitorSound <=> Monitor!MonitorSound
    /\ Condvar!SignalledEats <=> Monitor!SignalledEats
    /\ Condvar!Table!Init <=> Monitor!Table!Init
    /\ Condvar!Table!Next <=> Monitor!Table!Next
<1> USE DEF Condvar!Phil, Monitor!Phil, Condvar!Asleep, Monitor!Asleep,
            Condvar!Waiting, Monitor!Waiting
<1>1. Condvar!Init <=> Monitor!Init
  BY DEF Condvar!Init, Monitor!Init, Condvar!sem_init, Monitor!sem_init
<1>2. \A i \in Condvar!Phil : Condvar!Step(i) <=> Monitor!Step(i)
  <2> SUFFICES ASSUME NEW i \in Condvar!Phil PROVE Condvar!Step(i) <=> Monitor!Step(i)
    OBVIOUS
  <2>1. \A place : Condvar!After(place) = Monitor!After(place)
    BY Zenon DEF Condvar!After, Monitor!After
  <2>2. \A j : Condvar!Goes(j) <=> Monitor!Goes(j)
    BY <2>1, Zenon DEF Condvar!Goes, Monitor!Goes
  <2>3. \A j, place : Condvar!At(j, place) <=> Monitor!At(j, place)
    BY Zenon DEF Condvar!At, Monitor!At
  <2>4. \A b, j : Condvar!down(b, j) = Monitor!down(b, j)
    BY Zenon
       DEF Condvar!down, Monitor!down, Condvar!MustWait, Monitor!MustWait,
           Condvar!Counted, Monitor!Counted, Condvar!Queued, Monitor!Queued
  <2>5. \A b : Condvar!up(b) = Monitor!up(b)
    BY Zenon
       DEF Condvar!up, Monitor!up, Condvar!Counted, Monitor!Counted, Condvar!Queued,
           Monitor!Queued
  <2>6. Condvar!Release <=> Monitor!Release
    BY <2>5, Zenon DEF Condvar!Release, Monitor!Release
  <2>7. \A c : Condvar!MayEat(c) <=> Monitor!MayEat(c)
    BY Zenon
       DEF Condvar!MayEat, Monitor!MayEat, Condvar!LEFT, Monitor!LEFT,
           Condvar!RIGHT, Monitor!RIGHT
  <2>8. \A c : Condvar!HandOver(i, c) <=> Monitor!HandOver(i, c)
    BY <2>5, Zenon DEF Condvar!HandOver, Monitor!HandOver
  <2>9. \A c : Condvar!phi_test_condvar(i, c) <=> Monitor!phi_test_condvar(i, c)
    BY <2>2, <2>7, <2>8, Zenon DEF Condvar!phi_test_condvar, Monitor!phi_test_condvar
  <2>10. Condvar!Test(i) <=> Monitor!Test(i)
    BY <2>3, <2>9, Zenon
       DEF Condvar!Test, Monitor!Test, Condvar!LEFT, Monitor!LEFT, Condvar!RIGHT,
           Monitor!RIGHT
  <2>11. /\ Condvar!SleepOver(i) <=> Monitor!SleepOver(i)
         /\ Condvar!DownMutex(i) <=> Monitor!DownMutex(i)
         /\ Condvar!Hungry(i) <=> Monitor!Hungry(i)
         /\ Condvar!Thinking(i) <=> Monitor!Thinking(i)
    BY <2>2, <2>3, <2>4, Zenon
       DEF Condvar!SleepOver, Monitor!SleepOver, Condvar!DownMutex,
           Monitor!DownMutex, Condvar!Hungry, Monitor!Hungry, Condvar!Thinking,
           Monitor!Thinking
  <2>12. /\ Condvar!WaitNext(i) <=> Monitor!WaitNext(i)
         /\ Condvar!Regain(i) <=> Monitor!Regain(i)
         /\ Condvar!WaitSignal(i) <=> Monitor!WaitSignal(i)
         /\ Condvar!Signalled(i) <=> Monitor!Signalled(i)
    BY <2>1, <2>4, Zenon
       DEF Condvar!WaitNext, Monitor!WaitNext, Condvar!Regain, Monitor!Regain,
           Condvar!WaitSignal, Monitor!WaitSignal, Condvar!Signalled,
           Monitor!Signalled
  <2>13. /\ Condvar!Check(i) <=> Monitor!Check(i)
         /\ Condvar!Taken(i) <=> Monitor!Taken(i)
         /\ Condvar!Leave(i) <=> Monitor!Leave(i)
    BY <2>2, <2>3, <2>6, Zenon
       DEF Condvar!Check, Monitor!Check, Condvar!Taken, Monitor!Taken,
           Condvar!Leave, Monitor!Leave
  <2> QED BY <2>10, <2>11, <2>12, <2>13, Zenon DEF Condvar!Step, Monitor!Step
<1>3. [Condvar!Next]_(Condvar!vars) <=> [Monitor!Next]_(Monitor!vars)
  BY <1>2, Zenon
     DEF Condvar!Next, Monitor!Next, Condvar!Done, Monitor!Done, Condvar!vars,
         Monitor!vars
<1>4. Condvar!MonitorSound <=> Monitor!MonitorSound
  <2>1. \A S : Condvar!Cardinality(S) = Monitor!Cardinality(S)
    BY Zenon DEF Condvar!Cardinality, Monitor!Cardinality
  <2>2. Condvar!TypesOK <=> Monitor!TypesOK
    BY Zenon
       DEF Condvar!TypesOK, Monitor!TypesOK, Condvar!SemType, Monitor!SemType,
           Condvar!Places, Monitor!Places, Condvar!Calls, Monitor!Calls
  <2>3. Condvar!OneOwner <=> Monitor!OneOwner
    BY <2>1, Zenon
       DEF Condvar!OneOwner, Monitor!OneOwner, Condvar!Owners, Monitor!Owners,
           Condvar!InMonitor, Monitor!InMonitor
  <2>4. Condvar!CountsExact <=> Monitor!CountsExact
    BY <2>1, Zenon DEF Condvar!CountsExact, Monitor!CountsExact
  <2> QED BY <2>2, <2>3, <2>4 DEF Condvar!MonitorSound, Monitor!MonitorSound
<1>5. Condvar!SignalledEats <=> Monitor!SignalledEats
  BY Zenon DEF Condvar!SignalledEats, Monitor!SignalledEats
<1>6. /\ Condvar!Table!Init <=> Monitor!Table!Init
      /\ Condvar!Table!Next <=> Monitor!Table!Next
  BY Zenon
     DEF Condvar!Table!Init, Monitor!Table!Init, Condvar!Table!Next,
         Monitor!Table!Next, Condvar!Table!Phil, Monitor!Table!Phil,
         Condvar!Table!GetHungry, Monitor!Table!GetHungry, Condvar!Table!Eat,
         Monitor!Table!Eat, Condvar!Table!Think, Monitor!Table!Think,
         Condvar!Table!LEFT, Monitor!Table!LEFT, Condvar!Table!RIGHT, Monitor!Table!RIGHT
<1> QED BY <1>1, <1>3, <1>4, <1>5, <1>6

LEMMA MonitorInvariant == Condvar!Spec => []Monitor!CondvarInv
<1>1. Condvar!Init => Monitor!CondvarInv
  BY MonitorSizes, SameMonitor, Monitor!InitHolds
<1>2. Monitor!CondvarInv /\ [Condvar!Next]_(Condvar!vars) => Monitor!CondvarInv'
  BY MonitorSizes, SameMonitor, Monitor!NextHolds
<1> QED BY <1>1, <1>2, PTL DEF Condvar!Spec

\* Signals neither duplicate nor lose the monitor: for any number of philosophers
\* it has exactly one owner or is on its way to one, and cv.count and next_count
\* count who waits.
THEOREM MonitorOwned == Condvar!Spec => []MonitorSound
<1>1. Monitor!CondvarInv => MonitorSound
  BY MonitorSizes, SameMonitor, Monitor!InvGives DEF MonitorSound
<1> QED BY <1>1, MonitorInvariant, PTL

\* A philosopher that comes out of cond_wait has its forks, for any number of them:
\* the test before cond_wait need not be repeated after it.
THEOREM WaitersEat == Condvar!Spec => []SignalledEats
<1>1. Monitor!CondvarInv => SignalledEats
  BY MonitorSizes, SameMonitor, Monitor!InvGives DEF SignalledEats
<1> QED BY <1>1, MonitorInvariant, PTL

\* The monitor implements the dining table for any number of philosophers:
\* neighbours never eat together.
THEOREM MonitorDining == Condvar!Spec => MonitorImplementsDining
<1>1. Condvar!Init => Condvar!Table!Init
  BY SameMonitor, Monitor!TableInit
<1>2. Monitor!CondvarInv /\ [Condvar!Next]_(Condvar!vars)
         => [Condvar!Table!Next]_state_condvar
  BY MonitorSizes, SameMonitor, Monitor!NextHolds
<1> QED BY <1>1, <1>2, MonitorInvariant, PTL
        DEF Condvar!Spec, MonitorImplementsDining, Condvar!ImplementsDining, Condvar!Table!Spec
==============================================================================
