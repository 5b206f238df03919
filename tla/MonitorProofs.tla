----------------------------- MODULE MonitorProofs -----------------------------
(***************************************************************************)
(* The monitor of monitor.c under the philosophers of check_sync.c, for    *)
(* any number of them and of meals.  The invariant follows the right to be *)
(* in the monitor: it is free in mutex, on its way back to a signaller in  *)
(* next, on its way to one waiter in a condition variable, or with one     *)
(* philosopher, and it is never in two places nor in none.                 *)
(***************************************************************************)
EXTENDS PhilosopherCondvar, QueueLemmas, FiniteSetTheorems

\* What the theorems need of the constants; check_sync.c has five philosophers
\* and four meals.
Sizes == N \in Nat /\ N >= 2 /\ TIMES \in Nat \ {0}

Owns(i) == pc[i] \in InMonitor /\ sub[i] \notin {"handing", "waiting"} /\ ~ Asleep(i)
Signals(i) == sub[i] \in {"handing", "regaining"}
Waits(i) == sub[i] \in {"waiting", "signalled"}

\* cv[i].sem holds the monitor for i.
Handed(i) == cv[i].sem.value = 1
Has(i) == Owns(i) \/ Handed(i)

QueuesInv ==
    /\ Distinct(mutex) /\ Distinct(next) /\ \A i \in Phil : Distinct(cv[i].sem)
    /\ \A i \in Phil : Waiting(mutex, i) => pc[i] \in {"hungry", "thinking"}
    /\ \A i \in Phil : Waiting(next, i) => sub[i] = "regaining"

\* What the place of a philosopher says about its state on the table.
PlaceInv(i) ==
    /\ pc[i] \in {"think", "take", "hungry", "left", "right", "leave", "quit"}
          => state_condvar[i] = "THINKING"
    /\ pc[i] = "test" => state_condvar[i] = "HUNGRY"
    /\ pc[i] = "check" => state_condvar[i] \in {"HUNGRY", "EATING"}
    /\ pc[i] \in {"taken", "eat", "put", "thinking"} => state_condvar[i] = "EATING"
    /\ Signals(i) => pc[i] \in {"left", "right"}
    /\ Waits(i) => pc[i] = "check"
    /\ pc[i] # "quit" => iter[i] < TIMES

\* i is counted while it waits; its condition variable holds a unit, or its queue
\* nobody, as soon as it has got its forks.
CondInv(i) ==
    /\ cv[i].count = IF Waits(i) THEN 1 ELSE 0
    /\ Handed(i) <=> sub[i] = "waiting" /\ state_condvar[i] = "EATING"
    /\ \A j \in Phil : Waiting(cv[i].sem, j)
          <=> j = i /\ sub[i] = "signalled" /\ state_condvar[i] = "HUNGRY"

\* There is at most one signaller, and while it waits for the monitor, the monitor
\* is with whom it signalled.
SignallerInv ==
    /\ next_count = IF \E i \in Phil : Signals(i) THEN 1 ELSE 0
    /\ \A i, j \in Phil : Signals(i) /\ Signals(j) => i = j
    /\ \A i, j \in Phil : Owns(i) /\ Signals(j)
          => i = j \/ sub[i] = "signalled" \/ pc[i] = "taken"

TokenInv ==
    /\ mutex.value = 1 => /\ next.value = 0
                          /\ \A i \in Phil : ~ Waiting(mutex, i) /\ ~ Signals(i)
    /\ \A i \in Phil : Has(i) => mutex.value = 0 /\ next.value = 0
    /\ \A i, j \in Phil : Has(i) /\ Has(j) => i = j
    /\ mutex.value = 1 \/ next.value = 1 \/ \E i \in Phil : Has(i)

CondvarInv ==
    /\ TypesOK /\ QueuesInv /\ SignallerInv /\ TokenInv
    /\ \A i \in Phil : PlaceInv(i) /\ CondInv(i)

LEMMA Neighbours ==
    ASSUME Sizes, NEW i \in Phil
    PROVE  /\ LEFT(i) \in Phil /\ LEFT(i) # i
           /\ RIGHT(i) \in Phil /\ RIGHT(i) # i
<1>1. /\ N \in Nat /\ N >= 2 /\ i \in Nat /\ i < N /\ i \in 0..(N - 1)
  BY DEF Phil, Sizes
<1>2. LEFT(i) = IF i = 0 THEN N - 1 ELSE i - 1
  BY <1>1 DEF LEFT
<1>3. RIGHT(i) = IF i = N - 1 THEN 0 ELSE i + 1
  BY <1>1 DEF RIGHT
<1> QED BY <1>1, <1>2, <1>3 DEF Phil

LEMMA InitHolds == Sizes /\ Init => CondvarInv
<1> SUFFICES ASSUME Sizes, Init PROVE CondvarInv
  OBVIOUS
<1> USE DEF Init, sem_init
<1>1. TypesOK
  BY DEF TypesOK, SemType, Places, Calls, Sizes
<1>2. \A i \in Phil : cv[i] = [sem |-> [value |-> 0, wait_queue |-> <<>>], count |-> 0]
  OBVIOUS
<1>3. \A i, j \in Phil : ~ Waiting(mutex, i) /\ ~ Waiting(next, i) /\ ~ Waiting(cv[j].sem, i)
  BY <1>2 DEF Waiting
<1>4. QueuesInv
  BY <1>2, <1>3 DEF QueuesInv, Distinct
<1>5. \A i \in Phil : ~ Owns(i) /\ ~ Handed(i) /\ ~ Signals(i) /\ ~ Waits(i)
  BY <1>2 DEF Owns, InMonitor, Handed, Signals, Waits
<1>6. SignallerInv /\ TokenInv
  BY <1>3, <1>5 DEF SignallerInv, TokenInv, Has
<1>7. ASSUME NEW i \in Phil PROVE PlaceInv(i) /\ CondInv(i)
  BY <1>2, <1>3, <1>5 DEF PlaceInv, CondInv, Sizes
<1> QED BY <1>1, <1>4, <1>6, <1>7 DEF CondvarInv

-----------------------------------------------------------------------------
(* Inside the monitor, and outside *)

\* Who is in the monitor and neither signals nor has been signalled is its owner
\* while nobody waits to have it back.
LEMMA NoSignaller ==
    ASSUME CondvarInv, NEW i \in Phil, Owns(i), sub[i] = "none", pc[i] # "taken"
    PROVE  \A j \in Phil : ~ Signals(j)
BY DEF CondvarInv, SignallerInv, Signals

\* A philosopher goes on to another place and may change its own state on the
\* table; it stays inside the monitor or outside it.
LEMMA OnlyMoves ==
    ASSUME CondvarInv, NEW i \in Phil, NEW to \in Places,
           NEW st \in {"THINKING", "HUNGRY", "EATING"},
           sub[i] = "none", ~ Asleep(i), pc[i] \notin {"taken", "quit"}, to # "quit",
           pc[i] \in InMonitor <=> to \in InMonitor,
           to \in {"think", "take", "hungry", "left", "right", "leave"} => st = "THINKING",
           to = "test" => st = "HUNGRY",
           to = "check" => st \in {"HUNGRY", "EATING"},
           to \in {"taken", "eat", "put", "thinking"} => st = "EATING",
           pc' = [pc EXCEPT ![i] = to], state_condvar' = [state_condvar EXCEPT ![i] = st],
           UNCHANGED <<mutex, next, next_count, cv, sub, iter>>
    PROVE  CondvarInv'
<1>1. /\ pc'[i] = to /\ \A j \in Phil \ {i} : pc'[j] = pc[j]
      /\ state_condvar'[i] = st /\ \A j \in Phil \ {i} : state_condvar'[j] = state_condvar[j]
  BY DEF CondvarInv, TypesOK
<1>2. TypesOK'
  BY DEF CondvarInv, TypesOK
<1>3. \A j \in Phil : /\ Asleep(j)' <=> Asleep(j)
                      /\ Signals(j)' <=> Signals(j)
                      /\ Waits(j)' <=> Waits(j)
                      /\ Handed(j)' <=> Handed(j)
                      /\ Waiting(mutex, j)' <=> Waiting(mutex, j)
                      /\ Waiting(next, j)' <=> Waiting(next, j)
                      /\ \A k \in Phil : Waiting(cv[k].sem, j)' <=> Waiting(cv[k].sem, j)
  BY DEF Asleep, Waiting, Signals, Waits, Handed
<1>4. \A j \in Phil : Owns(j)' <=> Owns(j)
  BY <1>1, <1>3 DEF Owns
<1>5. QueuesInv'
  BY <1>1, <1>3 DEF CondvarInv, QueuesInv, Distinct, Asleep
<1>6. SignallerInv'
  <2>1. \A j, k \in Phil :
           Owns(j)' /\ Signals(k)' => j = k \/ sub'[j] = "signalled" \/ pc'[j] = "taken"
    BY <1>1, <1>3, <1>4 DEF CondvarInv, SignallerInv, Signals
  <2> QED BY <1>3, <2>1 DEF CondvarInv, SignallerInv
<1>7. TokenInv'
  BY <1>3, <1>4 DEF CondvarInv, TokenInv, Has
<1>8. ASSUME NEW j \in Phil PROVE PlaceInv(j)' /\ CondInv(j)'
  <2>1. CASE j = i
    <3>1. ~ Signals(i) /\ ~ Waits(i)
      BY DEF Signals, Waits
    <3>2. PlaceInv(i)'
      BY <1>1, <1>3, <3>1 DEF PlaceInv, CondvarInv
    <3>3. CondInv(i)'
      BY <1>1, <1>3, <3>1 DEF CondInv, CondvarInv
    <3> QED BY <2>1, <3>2, <3>3
  <2>2. CASE j # i
    BY <1>1, <1>3, <2>2 DEF PlaceInv, CondInv, CondvarInv
  <2> QED BY <2>1, <2>2
<1> QED BY <1>2, <1>5, <1>6, <1>7, <1>8 DEF CondvarInv

\* down(&mutex) takes the free monitor or joins the queue before it.
LEMMA DownMutexHolds ==
    ASSUME CondvarInv, NEW i \in Phil, DownMutex(i)
    PROVE  CondvarInv'
<1> DEFINE to == After(pc[i])
<1>1. /\ pc[i] \in {"take", "put"} /\ sub[i] = "none" /\ ~ Asleep(i)
      /\ mutex' = down(mutex, i) /\ pc' = [pc EXCEPT ![i] = to]
      /\ UNCHANGED <<state_condvar, next, next_count, cv, sub, iter>>
  BY DEF DownMutex, At, Goes
<1>2. to = IF pc[i] = "take" THEN "hungry" ELSE "thinking"
  BY <1>1 DEF After
<1> HIDE DEF to
<1>3. pc'[i] = to /\ \A j \in Phil \ {i} : pc'[j] = pc[j]
  BY <1>1 DEF CondvarInv, TypesOK
<1>4. /\ mutex' \in SemType /\ Distinct(mutex') /\ mutex'.value = 0
      /\ \A j \in Phil : Waiting(mutex', j) <=> Waiting(mutex, j) \/ (mutex.value = 0 /\ j = i)
  BY <1>1, DownWaits DEF CondvarInv, TypesOK, QueuesInv, SemType, Asleep
<1>5. \A j \in Phil : /\ Waiting(next, j)' <=> Waiting(next, j)
                      /\ Signals(j)' <=> Signals(j)
                      /\ Waits(j)' <=> Waits(j)
                      /\ Handed(j)' <=> Handed(j)
                      /\ \A k \in Phil : Waiting(cv[k].sem, j)' <=> Waiting(cv[k].sem, j)
  BY <1>1 DEF Waiting, Signals, Waits, Handed
<1>6. \A j \in Phil : Owns(j)' <=> Owns(j) \/ (mutex.value = 1 /\ j = i)
  BY <1>1, <1>2, <1>3, <1>4, <1>5 DEF Owns, Asleep, InMonitor, CondvarInv, TypesOK, SemType
<1>7. TypesOK'
  BY <1>1, <1>2, <1>4 DEF CondvarInv, TypesOK, Places
<1>8. QueuesInv'
  BY <1>1, <1>2, <1>3, <1>4, <1>5 DEF CondvarInv, QueuesInv, Distinct
<1>9. SignallerInv'
  <2>1. \A j, k \in Phil :
           Owns(j)' /\ Signals(k)' => j = k \/ sub'[j] = "signalled" \/ pc'[j] = "taken"
    BY <1>1, <1>3, <1>5, <1>6 DEF CondvarInv, SignallerInv, TokenInv
  <2> QED BY <1>1, <1>5, <2>1 DEF CondvarInv, SignallerInv
<1>10. TokenInv'
  BY <1>1, <1>4, <1>5, <1>6 DEF CondvarInv, TokenInv, Has, TypesOK, SemType
<1>11. \A j \in Phil : PlaceInv(j)' /\ CondInv(j)'
  BY <1>1, <1>2, <1>3, <1>5 DEF CondvarInv, PlaceInv, CondInv
<1> QED BY <1>7, <1>8, <1>9, <1>10, <1>11 DEF CondvarInv

\* A signaller asks for the monitor back, and goes on if it is there already.
LEMMA WaitNextHolds ==
    ASSUME CondvarInv, NEW i \in Phil, WaitNext(i)
    PROVE  CondvarInv'
<1>1. /\ sub[i] = "handing" /\ next' = down(next, i)
      /\ sub' = [sub EXCEPT ![i] = "regaining"]
      /\ UNCHANGED <<state_condvar, mutex, next_count, cv, pc, iter>>
  BY DEF WaitNext
<1>2. sub'[i] = "regaining" /\ \A j \in Phil \ {i} : sub'[j] = sub[j]
  BY <1>1 DEF CondvarInv, TypesOK
<1>3. ~ Waiting(next, i) /\ ~ Waiting(mutex, i) /\ pc[i] \in {"left", "right"}
  BY <1>1 DEF CondvarInv, QueuesInv, PlaceInv, Signals
<1>4. /\ next' \in SemType /\ Distinct(next') /\ next'.value = 0
      /\ \A j \in Phil : Waiting(next', j) <=> Waiting(next, j) \/ (next.value = 0 /\ j = i)
  BY <1>1, <1>3, DownWaits DEF CondvarInv, TypesOK, QueuesInv, SemType
<1>5. \A j \in Phil : /\ Waiting(mutex, j)' <=> Waiting(mutex, j)
                      /\ Signals(j)' <=> Signals(j)
                      /\ Waits(j)' <=> Waits(j)
                      /\ Handed(j)' <=> Handed(j)
                      /\ \A k \in Phil : Waiting(cv[k].sem, j)' <=> Waiting(cv[k].sem, j)
  BY <1>1, <1>2 DEF Waiting, Signals, Waits, Handed
<1>6. \A j \in Phil : ~ Waiting(cv[j].sem, i)
  BY <1>1 DEF CondvarInv, CondInv
<1>7. \A j \in Phil : Owns(j)' <=> Owns(j) \/ (next.value = 1 /\ j = i)
  BY <1>1, <1>2, <1>3, <1>4, <1>5, <1>6
     DEF Owns, Asleep, InMonitor, CondvarInv, TypesOK, SemType
<1>8. TypesOK'
  BY <1>1, <1>4 DEF CondvarInv, TypesOK, Calls
<1>9. QueuesInv'
  BY <1>1, <1>2, <1>4, <1>5 DEF CondvarInv, QueuesInv, Distinct
<1>10. SignallerInv'
  <2>1. \A j, k \in Phil :
           Owns(j)' /\ Signals(k)' => j = k \/ sub'[j] = "signalled" \/ pc'[j] = "taken"
    BY <1>1, <1>2, <1>5, <1>7 DEF CondvarInv, SignallerInv, TokenInv, Signals
  <2> QED BY <1>1, <1>5, <2>1 DEF CondvarInv, SignallerInv
<1>11. TokenInv'
  BY <1>1, <1>4, <1>5, <1>7 DEF CondvarInv, TokenInv, Has, TypesOK, SemType, Signals
<1>12. \A j \in Phil : PlaceInv(j)' /\ CondInv(j)'
  BY <1>1, <1>2, <1>5 DEF CondvarInv, PlaceInv, CondInv
<1> QED BY <1>8, <1>9, <1>10, <1>11, <1>12 DEF CondvarInv

\* The signaller has the monitor again: nobody waits for it in next any more.
LEMMA RegainHolds ==
    ASSUME Sizes, CondvarInv, NEW i \in Phil, Regain(i)
    PROVE  CondvarInv'
<1> DEFINE to == After(pc[i])
<1>1. /\ sub[i] = "regaining" /\ ~ Asleep(i) /\ next_count' = next_count - 1
      /\ sub' = [sub EXCEPT ![i] = "none"] /\ pc' = [pc EXCEPT ![i] = to]
      /\ UNCHANGED <<state_condvar, mutex, next, cv, iter>>
  BY DEF Regain
<1>2. pc[i] \in {"left", "right"} /\ to \in {"right", "leave"}
  BY <1>1 DEF CondvarInv, PlaceInv, Signals, After
<1> HIDE DEF to
<1>3. /\ sub'[i] = "none" /\ \A j \in Phil \ {i} : sub'[j] = sub[j]
      /\ pc'[i] = to /\ \A j \in Phil \ {i} : pc'[j] = pc[j]
  BY <1>1 DEF CondvarInv, TypesOK
<1>4. \A j \in Phil : /\ Asleep(j)' <=> Asleep(j)
                      /\ Waiting(mutex, j)' <=> Waiting(mutex, j)
                      /\ Waiting(next, j)' <=> Waiting(next, j)
                      /\ Waits(j)' <=> Waits(j)
                      /\ Handed(j)' <=> Handed(j)
                      /\ \A k \in Phil : Waiting(cv[k].sem, j)' <=> Waiting(cv[k].sem, j)
  BY <1>1, <1>3 DEF Asleep, Waiting, Waits, Handed
<1>5. Signals(i) /\ next_count = 1 /\ \A j \in Phil : ~ Signals(j)'
  BY <1>1, <1>3 DEF CondvarInv, SignallerInv, Signals
<1>6. \A j \in Phil : Owns(j)' <=> Owns(j)
  BY <1>1, <1>2, <1>3, <1>4 DEF Owns, InMonitor
<1>7. TypesOK'
  <2>1. next_count' \in 0..N
    BY <1>1, <1>5 DEF Sizes
  <2> QED BY <1>1, <1>2, <2>1 DEF CondvarInv, TypesOK, Places, Calls
<1>8. QueuesInv'
  BY <1>1, <1>2, <1>3, <1>4 DEF CondvarInv, QueuesInv, Distinct, Asleep
<1>9. SignallerInv'
  BY <1>1, <1>5 DEF SignallerInv
<1>10. TokenInv'
  BY <1>1, <1>4, <1>5, <1>6 DEF CondvarInv, TokenInv, Has
<1>11. \A j \in Phil : PlaceInv(j)' /\ CondInv(j)'
  BY <1>1, <1>2, <1>3, <1>4, <1>5 DEF CondvarInv, PlaceInv, CondInv, Signals
<1> QED BY <1>7, <1>8, <1>9, <1>10, <1>11 DEF CondvarInv

-----------------------------------------------------------------------------
(* Signals *)

\* cond_signal gives the monitor of its owner i to the waiter c.
LEMMA HandOverHolds ==
    ASSUME Sizes, CondvarInv, NEW i \in Phil, NEW c \in Phil, c # i,
           At(i, "left") \/ At(i, "right"), MayEat(c), cv[c].count > 0, HandOver(i, c),
           state_condvar' = [state_condvar EXCEPT ![c] = "EATING"],
           UNCHANGED <<mutex, next, iter>>
    PROVE  CondvarInv'
<1>1. /\ next_count' = next_count + 1 /\ cv' = [cv EXCEPT ![c].sem = up(cv[c].sem)]
      /\ sub' = [sub EXCEPT ![i] = "handing"] /\ pc' = pc
      /\ pc[i] \in {"left", "right"} /\ sub[i] = "none" /\ ~ Asleep(i)
      /\ state_condvar[c] = "HUNGRY"
  BY DEF HandOver, At, MayEat
<1>2. /\ sub'[i] = "handing" /\ \A j \in Phil \ {i} : sub'[j] = sub[j]
      /\ state_condvar'[c] = "EATING"
      /\ \A j \in Phil \ {c} : state_condvar'[j] = state_condvar[j]
  BY <1>1 DEF CondvarInv, TypesOK
<1>3. Waits(c) /\ ~ Handed(c)
  BY <1>1 DEF CondvarInv, CondInv
<1>4. Owns(i) /\ \A j \in Phil : ~ Signals(j)
  <2>1. Owns(i)
    BY <1>1 DEF Owns, InMonitor
  <2> QED BY <1>1, <2>1, NoSignaller
<1>5. /\ cv[c].sem \in SemType /\ cv[c].sem.value = 0 /\ Distinct(cv[c].sem)
      /\ cv[c] \in [sem : SemType, count : 0..1]
  BY <1>3 DEF CondvarInv, TypesOK, QueuesInv, SemType, Handed
<1>6. /\ cv'[c] = [sem |-> up(cv[c].sem), count |-> cv[c].count]
      /\ \A j \in Phil \ {c} : cv'[j] = cv[j]
  BY <1>1, <1>5 DEF CondvarInv, TypesOK
<1>7. /\ up(cv[c].sem) \in SemType /\ Distinct(up(cv[c].sem))
      /\ \/ /\ up(cv[c].sem).value = 1
            /\ \A r : ~ Waiting(cv[c].sem, r) /\ ~ Waiting(up(cv[c].sem), r)
         \/ /\ up(cv[c].sem).value = 0
            /\ \E h \in Phil : /\ Waiting(cv[c].sem, h)
                               /\ \A r : Waiting(up(cv[c].sem), r) <=> Waiting(cv[c].sem, r) /\ r # h
  BY <1>5, UpWakes DEF SemType
\* c has the unit if it has not reached its down, and runs if it slept there.
<1>8. /\ cv'[c].sem.value = IF sub[c] = "waiting" THEN 1 ELSE 0
      /\ \A r \in Phil : ~ Waiting(cv'[c].sem, r)
  <2>1. \A r \in Phil : Waiting(cv[c].sem, r) <=> r = c /\ sub[c] = "signalled"
    BY <1>1 DEF CondvarInv, CondInv
  <2>2. sub[c] = "waiting" \/ sub[c] = "signalled"
    BY <1>3 DEF Waits
  <2>3. cv'[c].sem = up(cv[c].sem)
    BY <1>6
  <2> QED BY <1>7, <2>1, <2>2, <2>3
<1>9. \A j \in Phil : /\ Waiting(mutex, j)' <=> Waiting(mutex, j)
                      /\ Waiting(next, j)' <=> Waiting(next, j)
                      /\ Signals(j)' <=> j = i
                      /\ Waits(j)' <=> Waits(j)
                      /\ Handed(j)' <=> Handed(j) \/ (j = c /\ sub[c] = "waiting")
  BY <1>1, <1>2, <1>3, <1>4, <1>6, <1>8 DEF Waiting, Signals, Waits, Handed
<1>10. \A j, k \in Phil : Waiting(cv[k].sem, j)' <=> Waiting(cv[k].sem, j) /\ k # c
  BY <1>6, <1>8 DEF Waiting
<1>11. \A j \in Phil : Owns(j)' <=> j = c /\ sub[c] = "signalled"
  <2>1. \A j \in Phil : Owns(j) => j = i
    BY <1>4 DEF CondvarInv, TokenInv, Has
  <2>2. pc[c] = "check" /\ c \in Phil
    BY <1>3 DEF CondvarInv, PlaceInv
  <2>3. ~ Waiting(mutex, c) /\ ~ Waiting(next, c)
    BY <1>3, <2>2 DEF CondvarInv, QueuesInv, Waits
  <2>4. Owns(c)' <=> sub[c] = "signalled"
    BY <1>1, <1>2, <1>3, <1>9, <1>10, <2>2, <2>3 DEF Owns, Asleep, InMonitor, Waits
  <2>5. ~ Owns(i)'
    BY <1>2 DEF Owns
  <2>6. ASSUME NEW j \in Phil, j # i, j # c PROVE Owns(j)' <=> Owns(j)
    BY <1>1, <1>2, <1>9, <1>10, <2>6 DEF Owns, Asleep
  <2> QED BY <2>1, <2>4, <2>5, <2>6
<1>12. TypesOK'
  <2>1. next_count' \in 0..N
    BY <1>1, <1>4 DEF CondvarInv, SignallerInv, Sizes
  <2>2. cv' \in [Phil -> [sem : SemType, count : 0..1]]
    BY <1>1, <1>5, <1>6, <1>7 DEF CondvarInv, TypesOK
  <2> QED BY <1>1, <2>1, <2>2 DEF CondvarInv, TypesOK, Calls
<1>13. QueuesInv'
  <2>1. \A j \in Phil : Distinct(cv'[j].sem)
    BY <1>6, <1>7 DEF CondvarInv, QueuesInv
  <2> QED BY <1>1, <1>2, <1>9, <2>1 DEF CondvarInv, QueuesInv, Distinct
<1>14. SignallerInv'
  BY <1>1, <1>2, <1>4, <1>9, <1>11 DEF CondvarInv, SignallerInv
<1>15. TokenInv'
  <2>1. \A j \in Phil : Has(j)' <=> j = c
    <3>1. \A j \in Phil : ~ Handed(j)
      BY <1>4, <1>1 DEF CondvarInv, TokenInv, Has, CondInv
    <3> QED BY <1>3, <1>9, <1>11, <3>1 DEF Has, Waits
  <2> QED BY <1>1, <1>4, <2>1 DEF CondvarInv, TokenInv, Has, TypesOK, SemType
<1>16. ASSUME NEW j \in Phil PROVE PlaceInv(j)'
  BY <1>1, <1>2, <1>3, <1>9 DEF CondvarInv, PlaceInv
<1>17. ASSUME NEW j \in Phil PROVE CondInv(j)'
  <2>1. cv'[j].count = cv[j].count
    BY <1>6
  <2>2. Handed(j)' <=> sub'[j] = "waiting" /\ state_condvar'[j] = "EATING"
    BY <1>1, <1>2, <1>3, <1>9 DEF CondvarInv, CondInv
  <2>3. ASSUME NEW k \in Phil
        PROVE  Waiting(cv[j].sem, k)'
                  <=> k = j /\ sub'[j] = "signalled" /\ state_condvar'[j] = "HUNGRY"
    BY <1>1, <1>2, <1>10 DEF CondvarInv, CondInv
  <2> QED BY <1>9, <2>1, <2>2, <2>3 DEF CondvarInv, CondInv
<1> QED BY <1>12, <1>13, <1>14, <1>15, <1>16, <1>17 DEF CondvarInv

\* down(&cv.sem): the waiter has been signalled already, or sleeps.
LEMMA WaitSignalHolds ==
    ASSUME CondvarInv, NEW i \in Phil, WaitSignal(i)
    PROVE  CondvarInv'
<1>1. /\ sub[i] = "waiting" /\ cv' = [cv EXCEPT ![i].sem = down(cv[i].sem, i)]
      /\ sub' = [sub EXCEPT ![i] = "signalled"]
      /\ UNCHANGED <<state_condvar, mutex, next, next_count, pc, iter>>
  BY DEF WaitSignal
<1>2. sub'[i] = "signalled" /\ \A j \in Phil \ {i} : sub'[j] = sub[j]
  BY <1>1 DEF CondvarInv, TypesOK
<1>3. /\ pc[i] = "check" /\ state_condvar[i] \in {"HUNGRY", "EATING"}
      /\ \A j, k \in Phil : j = i \/ k = i => ~ Waiting(cv[k].sem, j)
      /\ ~ Waiting(mutex, i) /\ ~ Waiting(next, i)
      /\ Handed(i) <=> state_condvar[i] = "EATING"
  BY <1>1 DEF CondvarInv, PlaceInv, CondInv, QueuesInv, Waits
<1>4. /\ cv[i].sem \in SemType /\ Distinct(cv[i].sem)
      /\ cv[i] \in [sem : SemType, count : 0..1]
  BY DEF CondvarInv, TypesOK, QueuesInv
<1>5. /\ cv'[i] = [sem |-> down(cv[i].sem, i), count |-> cv[i].count]
      /\ \A j \in Phil \ {i} : cv'[j] = cv[j]
  BY <1>1, <1>4 DEF CondvarInv, TypesOK
<1>6. /\ cv'[i].sem \in SemType /\ Distinct(cv'[i].sem) /\ cv'[i].sem.value = 0
      /\ \A j \in Phil : Waiting(cv'[i].sem, j)
            <=> Waiting(cv[i].sem, j) \/ (cv[i].sem.value = 0 /\ j = i)
  <2>1. ~ Waiting(cv[i].sem, i)
    BY <1>3
  <2>2. cv'[i].sem = down(cv[i].sem, i)
    BY <1>5
  <2> QED BY <1>4, <2>1, <2>2, DownWaits DEF SemType
<1>7. /\ ~ Handed(i)' /\ \A j \in Phil : Waiting(cv[i].sem, j)' <=> ~ Handed(i) /\ j = i
      /\ \A j \in Phil \ {i} : /\ Handed(j)' <=> Handed(j)
                               /\ \A k \in Phil : Waiting(cv[j].sem, k)' <=> Waiting(cv[j].sem, k)
  <2>1. ~ Handed(i)' /\ (Handed(i) <=> cv[i].sem.value # 0)
    BY <1>4, <1>6 DEF Handed, SemType
  <2> QED BY <1>3, <1>5, <1>6, <2>1 DEF Handed
<1>8. \A j \in Phil : /\ Waiting(mutex, j)' <=> Waiting(mutex, j)
                      /\ Waiting(next, j)' <=> Waiting(next, j)
                      /\ Signals(j)' <=> Signals(j)
                      /\ Waits(j)' <=> Waits(j)
  BY <1>1, <1>2 DEF Waiting, Signals, Waits
<1>9. \A j \in Phil : Owns(j)' <=> IF j = i THEN Handed(i) ELSE Owns(j)
  <2>1. Owns(i)' <=> Handed(i)
    BY <1>1, <1>2, <1>3, <1>7, <1>8 DEF Owns, Asleep, InMonitor
  <2>2. ASSUME NEW j \in Phil, j # i PROVE Owns(j)' <=> Owns(j)
    BY <1>1, <1>2, <1>7, <1>8, <2>2 DEF Owns, Asleep
  <2> QED BY <2>1, <2>2
<1>10. \A j \in Phil : Has(j)' <=> Has(j)
  BY <1>1, <1>7, <1>9 DEF Has, Owns
<1>11. TypesOK'
  <2>1. cv' \in [Phil -> [sem : SemType, count : 0..1]]
    BY <1>1, <1>4, <1>5, <1>6 DEF CondvarInv, TypesOK
  <2> QED BY <1>1, <2>1 DEF CondvarInv, TypesOK, Calls
<1>12. QueuesInv'
  <2>1. \A j \in Phil : Distinct(cv'[j].sem)
    BY <1>5, <1>6 DEF CondvarInv, QueuesInv
  <2> QED BY <1>1, <1>2, <1>3, <1>8, <2>1 DEF CondvarInv, QueuesInv, Distinct
<1>13. SignallerInv'
  BY <1>1, <1>2, <1>8, <1>9 DEF CondvarInv, SignallerInv
<1>14. TokenInv'
  BY <1>1, <1>8, <1>10 DEF CondvarInv, TokenInv
<1>15. \A j \in Phil : PlaceInv(j)'
  BY <1>1, <1>8 DEF CondvarInv, PlaceInv
<1>16. ASSUME NEW j \in Phil PROVE CondInv(j)'
  <2>1. cv'[j].count = cv[j].count
    BY <1>5
  <2> QED BY <1>1, <1>2, <1>3, <1>7, <1>8, <2>1 DEF CondvarInv, CondInv
<1> QED BY <1>11, <1>12, <1>13, <1>14, <1>15, <1>16 DEF CondvarInv

\* The end of cond_wait: the waiter owns the monitor and has its forks.
LEMMA SignalledHolds ==
    ASSUME CondvarInv, NEW i \in Phil, Signalled(i)
    PROVE  CondvarInv'
<1>1. /\ sub[i] = "signalled" /\ ~ Asleep(i) /\ cv' = [cv EXCEPT ![i].count = cv[i].count - 1]
      /\ sub' = [sub EXCEPT ![i] = "none"] /\ pc' = [pc EXCEPT ![i] = After(pc[i])]
      /\ UNCHANGED <<state_condvar, mutex, next, next_count, iter>>
  BY DEF Signalled
<1>2. pc[i] = "check" /\ state_condvar[i] = "EATING" /\ cv[i].count = 1 /\ ~ Handed(i)
  BY <1>1 DEF CondvarInv, PlaceInv, CondInv, Waits, Asleep
<1>3. After(pc[i]) = "taken"
  BY <1>2 DEF After
<1>4. /\ sub'[i] = "none" /\ \A j \in Phil \ {i} : sub'[j] = sub[j]
      /\ pc'[i] = "taken" /\ \A j \in Phil \ {i} : pc'[j] = pc[j]
  BY <1>1, <1>3 DEF CondvarInv, TypesOK
<1>5. cv[i] \in [sem : SemType, count : 0..1]
  BY DEF CondvarInv, TypesOK
<1>6. /\ cv'[i] = [sem |-> cv[i].sem, count |-> 0]
      /\ \A j \in Phil \ {i} : cv'[j] = cv[j]
  BY <1>1, <1>2, <1>5 DEF CondvarInv, TypesOK
<1>7. \A j \in Phil : cv'[j].sem = cv[j].sem
  BY <1>6
<1>8. \A j \in Phil : /\ Waiting(mutex, j)' <=> Waiting(mutex, j)
                      /\ Waiting(next, j)' <=> Waiting(next, j)
                      /\ Signals(j)' <=> Signals(j)
                      /\ Waits(j)' <=> Waits(j) /\ j # i
                      /\ Handed(j)' <=> Handed(j)
                      /\ \A k \in Phil : Waiting(cv[k].sem, j)' <=> Waiting(cv[k].sem, j)
  BY <1>1, <1>4, <1>7 DEF Waiting, Signals, Waits, Handed
<1>9. \A j \in Phil : Owns(j)' <=> Owns(j)
  BY <1>1, <1>2, <1>4, <1>8 DEF Owns, Asleep, InMonitor
<1>10. TypesOK'
  <2>1. cv' \in [Phil -> [sem : SemType, count : 0..1]]
    BY <1>1, <1>5, <1>6 DEF CondvarInv, TypesOK
  <2>2. pc' \in [Phil -> Places] /\ sub' \in [Phil -> Calls]
    BY <1>1, <1>3 DEF CondvarInv, TypesOK, Places, Calls
  <2> QED BY <1>1, <2>1, <2>2 DEF CondvarInv, TypesOK
<1>11. QueuesInv'
  BY <1>1, <1>2, <1>4, <1>7, <1>8 DEF CondvarInv, QueuesInv, Distinct
<1>12. SignallerInv'
  BY <1>1, <1>4, <1>8, <1>9 DEF CondvarInv, SignallerInv
<1>13. TokenInv'
  BY <1>1, <1>8, <1>9 DEF CondvarInv, TokenInv, Has
<1>14. \A j \in Phil : PlaceInv(j)'
  BY <1>1, <1>2, <1>4, <1>8 DEF CondvarInv, PlaceInv, Signals
<1>15. \A j \in Phil : CondInv(j)'
  BY <1>1, <1>2, <1>4, <1>6, <1>8 DEF CondvarInv, CondInv
<1> QED BY <1>10, <1>11, <1>12, <1>13, <1>14, <1>15 DEF CondvarInv

-----------------------------------------------------------------------------
(* Leaving the monitor *)

\* The owner gives the monitor to the signaller that waits for it, else to the
\* mutex: exactly one of those who wait has it next, or it is free.
LEMMA ReleaseHolds ==
    ASSUME CondvarInv, NEW i \in Phil, Owns(i), sub[i] = "none", Release,
           pc'[i] \notin InMonitor \/ sub'[i] = "waiting", sub'[i] \in {"none", "waiting"},
           \A j \in Phil \ {i} : pc'[j] = pc[j] /\ sub'[j] = sub[j],
           \A j \in Phil : cv'[j].sem = cv[j].sem,
           UNCHANGED next_count
    PROVE  /\ QueuesInv' /\ SignallerInv' /\ TokenInv'
           /\ mutex' \in SemType /\ next' \in SemType
<1>1. /\ mutex.value = 0 /\ next.value = 0
      /\ mutex \in SemType /\ next \in SemType
      /\ \A j \in Phil : Has(j) <=> j = i
  BY DEF CondvarInv, TypesOK, TokenInv, SemType, Has
<1>2. ~ Waiting(mutex, i) /\ ~ Waiting(next, i) /\ ~ Owns(i)'
  BY DEF Owns, Asleep
<1>3. \A j \in Phil : /\ Signals(j)' <=> Signals(j)
                      /\ Handed(j)' <=> Handed(j)
                      /\ \A k \in Phil : Waiting(cv[k].sem, j)' <=> Waiting(cv[k].sem, j)
                      /\ ~ Handed(j)
  BY <1>1 DEF Signals, Handed, Waiting, CondvarInv, CondInv, Has, Owns
<1>4. \A j \in Phil : Distinct(cv'[j].sem)
  BY DEF CondvarInv, QueuesInv
<1>5. CASE next_count > 0
  <2>1. next' = up(next) /\ mutex' = mutex
    BY <1>5 DEF Release
  <2>2. PICK s \in Phil : Signals(s) /\ s # i /\ \A j \in Phil : Signals(j) <=> j = s
    BY <1>5 DEF CondvarInv, SignallerInv, Signals
  <2>3. /\ next' \in SemType /\ Distinct(next')
        /\ \/ next'.value = 1 /\ \A r : ~ Waiting(next, r) /\ ~ Waiting(next', r)
           \/ /\ next'.value = 0
              /\ \E h \in Phil : /\ Waiting(next, h)
                                 /\ \A r : Waiting(next', r) <=> Waiting(next, r) /\ r # h
    BY <1>1, <2>1, UpWakes DEF SemType, CondvarInv, QueuesInv
  <2>4. \A j \in Phil : Waiting(next, j) => j = s /\ sub[j] = "regaining"
    BY <2>2 DEF CondvarInv, QueuesInv, Signals
  <2>5. \A r \in Phil : ~ Waiting(next', r)
    BY <2>3, <2>4
  <2>6. \A j \in Phil : Waiting(mutex, j)' <=> Waiting(mutex, j)
    BY <2>1 DEF Waiting
\* It is back if s has not reached its down, and s runs if it slept there.
  <2>7. /\ next'.value = IF Waiting(next, s) THEN 0 ELSE 1
        /\ \A j \in Phil : Owns(j)' <=> j = s /\ Waiting(next, s)
    <3>1. next'.value = IF Waiting(next, s) THEN 0 ELSE 1
      BY <2>3, <2>4
    <3>2. \A j \in Phil \ {i} : Owns(j)' <=> j = s /\ Waiting(next, s)
      <4>1. pc[s] \in {"left", "right"} /\ ~ Waiting(mutex, s)
        BY <2>2 DEF CondvarInv, QueuesInv, PlaceInv
      <4>2. \A k \in Phil : ~ Waiting(cv[k].sem, s)
        BY <2>2 DEF CondvarInv, CondInv, Signals
      <4>3. Owns(s)' <=> Waiting(next, s)
        <5>1. Owns(s)' <=> sub[s] = "regaining"
          BY <1>3, <2>2, <2>5, <2>6, <4>1, <4>2 DEF Owns, Asleep, InMonitor, Signals
        <5>2. sub[s] = "regaining" => Waiting(next, s)
          BY <1>1, <2>2, <4>1, <4>2 DEF Has, Owns, Asleep, InMonitor
        <5> QED BY <2>4, <5>1, <5>2
      <4>4. ASSUME NEW j \in Phil, j # i, j # s PROVE Owns(j)' <=> Owns(j)
        BY <1>3, <2>4, <2>5, <2>6, <4>4 DEF Owns, Asleep
      <4>5. ASSUME NEW j \in Phil, j # i PROVE ~ Owns(j)
        BY <1>1, <4>5 DEF Has
      <4> QED BY <4>3, <4>4, <4>5
    <3> QED BY <1>2, <2>2, <3>1, <3>2
  <2>8. QueuesInv'
    BY <1>2, <1>4, <2>1, <2>3, <2>5, <2>6 DEF CondvarInv, QueuesInv, Distinct
  <2>9. SignallerInv'
    BY <1>3, <2>2, <2>7 DEF CondvarInv, SignallerInv
  <2>10. TokenInv'
    BY <1>1, <1>3, <2>1, <2>3, <2>7 DEF TokenInv, Has
  <2> QED BY <1>1, <2>1, <2>3, <2>8, <2>9, <2>10
<1>6. CASE ~ (next_count > 0)
  <2>1. mutex' = up(mutex) /\ next' = next
    BY <1>6 DEF Release
  <2>2. \A j \in Phil : ~ Signals(j)
    BY <1>6 DEF CondvarInv, SignallerInv
  <2>3. /\ mutex' \in SemType /\ Distinct(mutex')
        /\ \/ mutex'.value = 1 /\ \A r : ~ Waiting(mutex, r) /\ ~ Waiting(mutex', r)
           \/ /\ mutex'.value = 0
              /\ \E h \in Phil : /\ Waiting(mutex, h)
                                 /\ \A r : Waiting(mutex', r) <=> Waiting(mutex, r) /\ r # h
    BY <1>1, <2>1, UpWakes DEF SemType, CondvarInv, QueuesInv
  <2>4. \A j \in Phil : ~ Waiting(next, j) /\ ~ Waiting(next, j)'
    BY <2>1, <2>2 DEF CondvarInv, QueuesInv, Waiting, Signals
  <2>5. \A j \in Phil : Waiting(mutex', j) => Waiting(mutex, j) /\ j # i
    BY <1>2, <2>3
  <2>6. ASSUME NEW j \in Phil, j # i
        PROVE  Owns(j)' <=> Waiting(mutex, j) /\ ~ Waiting(mutex', j)
    <3>1. ~ Owns(j)
      BY <1>1, <2>6 DEF Has
    <3>2. CASE Waiting(mutex, j)
      <4>1. pc[j] \in {"hungry", "thinking"} /\ sub[j] \notin {"handing", "waiting", "signalled"}
        BY <3>2 DEF CondvarInv, QueuesInv, PlaceInv, Signals, Waits
      <4>2. \A k \in Phil : ~ Waiting(cv[k].sem, j)
        BY <4>1 DEF CondvarInv, CondInv
      <4> QED BY <1>3, <2>4, <2>6, <3>2, <4>1, <4>2 DEF Owns, Asleep, InMonitor
    <3>3. CASE ~ Waiting(mutex, j)
      BY <1>3, <2>4, <2>5, <2>6, <3>1, <3>3 DEF Owns, Asleep
    <3> QED BY <3>2, <3>3
  <2>7. QueuesInv'
    BY <1>2, <1>4, <2>1, <2>3, <2>4, <2>5 DEF CondvarInv, QueuesInv, Distinct
  <2>8. SignallerInv'
    BY <1>3, <2>2 DEF CondvarInv, SignallerInv
  <2>9. TokenInv'
    BY <1>1, <1>2, <1>3, <2>1, <2>2, <2>3, <2>6 DEF TokenInv, Has
  <2> QED BY <1>1, <2>1, <2>3, <2>7, <2>8, <2>9
<1> QED BY <1>5, <1>6

\* A philosopher that still is hungry gives the monitor away before it sleeps.
LEMMA CheckHolds ==
    ASSUME CondvarInv, NEW i \in Phil, Check(i)
    PROVE  CondvarInv'
<1>1. /\ pc[i] = "check" /\ sub[i] = "none" /\ ~ Asleep(i)
      /\ UNCHANGED <<state_condvar, next_count>>
  BY DEF Check, At
<1>2. CASE state_condvar[i] = "HUNGRY"
  <2>1. /\ cv' = [cv EXCEPT ![i].count = cv[i].count + 1] /\ Release
        /\ sub' = [sub EXCEPT ![i] = "waiting"] /\ UNCHANGED <<pc, iter>>
    BY <1>2 DEF Check
  <2>2. sub'[i] = "waiting" /\ \A j \in Phil \ {i} : sub'[j] = sub[j]
    BY <2>1 DEF CondvarInv, TypesOK
  <2>3. cv[i] \in [sem : SemType, count : 0..1] /\ cv[i].count = 0
    BY <1>1 DEF CondvarInv, TypesOK, CondInv, Waits
  <2>4. /\ cv'[i] = [sem |-> cv[i].sem, count |-> 1]
        /\ \A j \in Phil \ {i} : cv'[j] = cv[j]
    BY <2>1, <2>3 DEF CondvarInv, TypesOK
  <2>5. \A j \in Phil : cv'[j].sem = cv[j].sem
    BY <2>4
  <2>6. Owns(i)
    BY <1>1 DEF Owns, InMonitor
  <2>7. QueuesInv' /\ SignallerInv' /\ TokenInv' /\ mutex' \in SemType /\ next' \in SemType
    BY <1>1, <2>1, <2>2, <2>5, <2>6, ReleaseHolds
  <2>8. TypesOK'
    <3>1. cv' \in [Phil -> [sem : SemType, count : 0..1]]
      BY <2>1, <2>3, <2>4 DEF CondvarInv, TypesOK
    <3> QED BY <1>1, <2>1, <2>7, <3>1 DEF CondvarInv, TypesOK, Calls
  <2>9. \A j \in Phil : /\ Signals(j)' <=> Signals(j)
                        /\ Waits(j)' <=> Waits(j) \/ j = i
                        /\ Handed(j)' <=> Handed(j)
                        /\ \A k \in Phil : Waiting(cv[k].sem, j)' <=> Waiting(cv[k].sem, j)
    BY <1>1, <2>2, <2>5 DEF Signals, Waits, Handed, Waiting
  <2>10. \A j \in Phil : PlaceInv(j)'
    BY <1>1, <2>1, <2>9 DEF CondvarInv, PlaceInv
  <2>11. \A j \in Phil : CondInv(j)'
    BY <1>1, <1>2, <2>2, <2>4, <2>9 DEF CondvarInv, CondInv
  <2> QED BY <2>7, <2>8, <2>10, <2>11 DEF CondvarInv
<1>3. CASE state_condvar[i] # "HUNGRY"
  <2>1. Goes(i) /\ UNCHANGED <<mutex, next, cv>> /\ state_condvar[i] = "EATING"
    BY <1>1, <1>3 DEF Check, CondvarInv, PlaceInv
  <2>2. pc' = [pc EXCEPT ![i] = "taken"] /\ UNCHANGED <<sub, iter>>
    BY <1>1, <2>1 DEF Goes, After
  <2>3. state_condvar' = [state_condvar EXCEPT ![i] = "EATING"]
    BY <1>1, <2>1 DEF CondvarInv, TypesOK
  <2> QED BY <1>1, <2>1, <2>2, <2>3, OnlyMoves DEF InMonitor, Places
<1> QED BY <1>2, <1>3

\* phi_take_forks_condvar and phi_put_forks_condvar end by giving the monitor away.
LEMMA DepartureHolds ==
    ASSUME CondvarInv, NEW i \in Phil, NEW to \in {"eat", "think", "quit"},
           At(i, "taken") \/ At(i, "leave"), At(i, "taken") <=> to = "eat", Release,
           pc' = [pc EXCEPT ![i] = to],
           UNCHANGED <<state_condvar, next_count, cv, sub>>,
           iter' \in [Phil -> 0..TIMES], to # "quit" => iter'[i] < TIMES,
           \A j \in Phil \ {i} : iter'[j] = iter[j]
    PROVE  CondvarInv'
<1>1. /\ pc[i] \in {"taken", "leave"} /\ sub[i] = "none" /\ ~ Asleep(i)
      /\ pc[i] = "taken" <=> to = "eat"
  BY DEF At
<1>2. pc'[i] = to /\ \A j \in Phil \ {i} : pc'[j] = pc[j]
  BY DEF CondvarInv, TypesOK
<1>3. Owns(i)
  BY <1>1 DEF Owns, InMonitor
<1>4. QueuesInv' /\ SignallerInv' /\ TokenInv' /\ mutex' \in SemType /\ next' \in SemType
  BY <1>1, <1>2, <1>3, ReleaseHolds DEF InMonitor
<1>5. TypesOK'
  BY <1>4 DEF CondvarInv, TypesOK, Places
<1>6. \A j \in Phil : /\ Signals(j)' <=> Signals(j)
                      /\ Waits(j)' <=> Waits(j)
                      /\ Handed(j)' <=> Handed(j)
                      /\ \A k \in Phil : Waiting(cv[k].sem, j)' <=> Waiting(cv[k].sem, j)
  BY DEF Signals, Waits, Handed, Waiting
<1>7. \A j \in Phil : PlaceInv(j)'
  BY <1>1, <1>2, <1>6 DEF CondvarInv, PlaceInv, Signals, Waits
<1>8. \A j \in Phil : CondInv(j)'
  BY <1>6 DEF CondvarInv, CondInv
<1> QED BY <1>4, <1>5, <1>7, <1>8 DEF CondvarInv

-----------------------------------------------------------------------------
(* The whole monitor *)

\* phi_test_condvar gives forks to who asked for them, and signals if it waits.
LEMMA TestHolds ==
    ASSUME Sizes, CondvarInv, NEW i \in Phil, Test(i)
    PROVE  CondvarInv' /\ [Table!Next]_state_condvar
<1>1. PICK c \in Phil, from \in {"test", "left", "right"} :
         /\ At(i, from) /\ phi_test_condvar(i, c) /\ UNCHANGED <<mutex, next>>
         /\ from = "test" <=> c = i
  BY Neighbours DEF Test
<1>2. pc[i] = from /\ sub[i] = "none" /\ ~ Asleep(i) /\ Owns(i)
  BY <1>1 DEF At, Owns, InMonitor
<1>3. /\ from = "test" => After(from) = "check"
      /\ from = "left" => After(from) = "right"
      /\ from = "right" => After(from) = "leave"
  BY DEF After
<1>4. CASE ~ MayEat(c)
  <2>1. /\ pc' = [pc EXCEPT ![i] = After(from)]
        /\ UNCHANGED <<state_condvar, mutex, next, next_count, cv, sub, iter>>
    BY <1>1, <1>2, <1>4 DEF phi_test_condvar, Goes
  <2>2. state_condvar' = [state_condvar EXCEPT ![i] = state_condvar[i]]
    BY <2>1 DEF CondvarInv, TypesOK
  <2>3. state_condvar[i] = IF from = "test" THEN "HUNGRY" ELSE "THINKING"
    BY <1>1, <1>2 DEF CondvarInv, PlaceInv
  <2>4. CondvarInv'
    BY <1>1, <1>2, <1>3, <2>1, <2>2, <2>3, OnlyMoves DEF InMonitor, Places
  <2> QED BY <2>1, <2>4
<1>5. CASE MayEat(c)
  <2>1. state_condvar' = [state_condvar EXCEPT ![c] = "EATING"]
    BY <1>1, <1>5 DEF phi_test_condvar
  <2>2. Table!Next
    <3>1. Table!Eat(c)
      BY <1>5, <2>1 DEF MayEat, Table!Eat, Table!LEFT, Table!RIGHT, LEFT, RIGHT
    <3> QED BY <3>1 DEF Table!Next, Table!Phil, Phil
  <2>3. CondvarInv'
    <3>1. CASE cv[c].count > 0
      <4>1. HandOver(i, c) /\ UNCHANGED iter
        BY <1>1, <1>5, <3>1 DEF phi_test_condvar
      <4>2. c # i
        BY <1>2, <3>1 DEF CondvarInv, CondInv, Waits
      <4> QED BY <1>1, <1>5, <2>1, <3>1, <4>1, <4>2, HandOverHolds
\* Who is hungry and does not wait is on its way from hungry to check.
    <3>2. CASE ~ (cv[c].count > 0)
      <4>1. Goes(i) /\ UNCHANGED <<next_count, cv>>
        BY <1>1, <1>5, <3>2 DEF phi_test_condvar
      <4>2. c = i /\ from = "test"
        <5>1. ~ Waits(c) /\ state_condvar[c] = "HUNGRY"
          BY <1>5, <3>2 DEF CondvarInv, CondInv, MayEat
        <5>2. pc[c] \in {"test", "check"} /\ ~ Signals(c)
          BY <5>1 DEF CondvarInv, TypesOK, Places, PlaceInv
        <5>3. sub[c] = "none"
          BY <5>1, <5>2 DEF CondvarInv, TypesOK, Calls, Waits, Signals
        <5>4. Owns(c)
          BY <5>1, <5>2, <5>3
             DEF Owns, Asleep, InMonitor, CondvarInv, QueuesInv, CondInv
        <5> QED BY <1>1, <1>2, <5>4 DEF CondvarInv, TokenInv, Has
      <4>3. pc' = [pc EXCEPT ![i] = "check"] /\ UNCHANGED <<sub, iter>>
        BY <1>2, <1>3, <4>1, <4>2 DEF Goes
      <4> QED BY <1>1, <1>2, <2>1, <4>1, <4>2, <4>3, OnlyMoves DEF InMonitor, Places
    <3> QED BY <3>1, <3>2
  <2> QED BY <2>2, <2>3
<1> QED BY <1>4, <1>5

\* A step keeps the invariant and is one of the table, or leaves the table alone.
LEMMA StepHolds ==
    ASSUME Sizes, CondvarInv, NEW i \in Phil, Step(i)
    PROVE  CondvarInv' /\ [Table!Next]_state_condvar
<1> USE DEF Goes, At
<1>1. CASE SleepOver(i)
  <2>1. PICK to \in {"take", "put"} :
           /\ pc[i] \in {"think", "eat"} /\ (pc[i] = "eat" <=> to = "put")
           /\ sub[i] = "none" /\ ~ Asleep(i) /\ pc' = [pc EXCEPT ![i] = to]
           /\ UNCHANGED <<state_condvar, mutex, next, next_count, cv, sub, iter>>
    BY <1>1 DEF SleepOver, After
  <2>2. state_condvar' = [state_condvar EXCEPT ![i] = state_condvar[i]]
    BY <2>1 DEF CondvarInv, TypesOK
  <2>3. state_condvar[i] = IF to = "put" THEN "EATING" ELSE "THINKING"
    BY <2>1 DEF CondvarInv, PlaceInv
  <2> QED BY <2>1, <2>2, <2>3, OnlyMoves DEF InMonitor, Places
<1>2. CASE DownMutex(i)
  BY <1>2, DownMutexHolds DEF DownMutex
<1>3. CASE Hungry(i)
  <2>1. /\ pc[i] = "hungry" /\ sub[i] = "none" /\ ~ Asleep(i)
        /\ pc' = [pc EXCEPT ![i] = "test"]
        /\ state_condvar' = [state_condvar EXCEPT ![i] = "HUNGRY"]
        /\ UNCHANGED <<mutex, next, next_count, cv, sub, iter>>
    BY <1>3 DEF Hungry, After
  <2>2. Table!GetHungry(i)
    BY <2>1 DEF Table!GetHungry, CondvarInv, PlaceInv
  <2>3. Table!Next
    BY <2>2 DEF Table!Next, Table!Phil, Phil
  <2> QED BY <2>1, <2>3, OnlyMoves DEF InMonitor, Places
<1>4. CASE Thinking(i)
  <2>1. /\ pc[i] = "thinking" /\ sub[i] = "none" /\ ~ Asleep(i)
        /\ pc' = [pc EXCEPT ![i] = "left"]
        /\ state_condvar' = [state_condvar EXCEPT ![i] = "THINKING"]
        /\ UNCHANGED <<mutex, next, next_count, cv, sub, iter>>
    BY <1>4 DEF Thinking, After
  <2>2. Table!Think(i)
    BY <2>1 DEF Table!Think, CondvarInv, PlaceInv
  <2>3. Table!Next
    BY <2>2 DEF Table!Next, Table!Phil, Phil
  <2> QED BY <2>1, <2>3, OnlyMoves DEF InMonitor, Places
<1>5. CASE Test(i)
  BY <1>5, TestHolds
<1>6. CASE WaitNext(i)
  BY <1>6, WaitNextHolds DEF WaitNext
<1>7. CASE Regain(i)
  BY <1>7, RegainHolds DEF Regain
<1>8. CASE Check(i)
  BY <1>8, CheckHolds DEF Check
<1>9. CASE WaitSignal(i)
  BY <1>9, WaitSignalHolds DEF WaitSignal
<1>10. CASE Signalled(i)
  BY <1>10, SignalledHolds DEF Signalled
<1>11. CASE Taken(i)
  <2>1. /\ pc' = [pc EXCEPT ![i] = "eat"] /\ Release
        /\ UNCHANGED <<state_condvar, next_count, cv, sub, iter>>
    BY <1>11 DEF Taken, After
  <2>2. At(i, "taken") /\ ~ At(i, "leave") /\ pc[i] # "quit"
    BY <1>11 DEF Taken
  <2>3. iter' \in [Phil -> 0..TIMES] /\ iter'[i] < TIMES
    BY <2>1, <2>2 DEF CondvarInv, TypesOK, PlaceInv
  <2> QED BY <2>1, <2>2, <2>3, DepartureHolds
<1>12. CASE Leave(i)
  <2> DEFINE to == IF iter'[i] < TIMES THEN "think" ELSE "quit"
  <2>1. /\ At(i, "leave") /\ ~ At(i, "taken") /\ pc[i] = "leave" /\ Release
        /\ iter' = [iter EXCEPT ![i] = iter[i] + 1] /\ pc' = [pc EXCEPT ![i] = to]
        /\ UNCHANGED <<state_condvar, next_count, cv, sub>>
    BY <1>12 DEF Leave
  <2>2. iter \in [Phil -> 0..TIMES] /\ iter[i] < TIMES
    BY <2>1 DEF CondvarInv, TypesOK, PlaceInv
  <2>3. iter' \in [Phil -> 0..TIMES] /\ \A j \in Phil \ {i} : iter'[j] = iter[j]
    BY <2>1, <2>2 DEF Sizes
  <2>4. to \in {"think", "quit"} /\ (to # "quit" => iter'[i] < TIMES)
    OBVIOUS
  <2> HIDE DEF to
  <2>5. CondvarInv'
    BY <2>1, <2>3, <2>4, DepartureHolds
  <2> QED BY <2>1, <2>5
<1> QED
  BY <1>1, <1>2, <1>3, <1>4, <1>5, <1>6, <1>7, <1>8, <1>9, <1>10, <1>11, <1>12 DEF Step

LEMMA NextHolds ==
    Sizes /\ CondvarInv /\ [Next]_vars => CondvarInv' /\ [Table!Next]_state_condvar
<1> SUFFICES ASSUME Sizes, CondvarInv, [Next]_vars
             PROVE  CondvarInv' /\ [Table!Next]_state_condvar
  OBVIOUS
<1>1. CASE UNCHANGED vars
  BY <1>1 DEF vars, CondvarInv, TypesOK, QueuesInv, Distinct, Waiting, SignallerInv, TokenInv,
              Has, Owns, Asleep, Handed, Signals, Waits, PlaceInv, CondInv
<1>2. CASE \E i \in Phil : Step(i)
  BY <1>2, StepHolds
<1> QED BY <1>1, <1>2 DEF Next, Done

LEMMA TableInit == Init => Table!Init
BY DEF Init, Table!Init, Table!Phil, Phil

\* The right to be in the monitor is in one place: counted, as a number of owners
\* and of units.
LEMMA TokenCounted ==
    ASSUME Sizes, CondvarInv
    PROVE  OneOwner /\ CountsExact
<1> DEFINE handed == {i \in Phil : cv[i].sem.value = 1}
           signallers == {i \in Phil : sub[i] \in {"handing", "regaining"}}
<1>1. /\ Owners = {i \in Phil : Owns(i)} /\ handed = {i \in Phil : Handed(i)}
      /\ signallers = {i \in Phil : Signals(i)}
  BY DEF Owners, Owns, Handed, Signals
<1>2. mutex.value \in 0..1 /\ next.value \in 0..1
  BY DEF CondvarInv, TypesOK, SemType
<1>3. Cardinality({}) = 0 /\ \A i : Cardinality({i}) = 1
  BY FS_EmptySet, FS_Singleton
<1> HIDE DEF handed, signallers
<1>4. OneOwner
  <2>1. CASE mutex.value = 1 \/ next.value = 1
    <3>1. Owners = {} /\ handed = {} /\ mutex.value + next.value = 1
      BY <1>1, <1>2, <2>1 DEF CondvarInv, TokenInv, Has
    <3>2. Cardinality(Owners) + mutex.value + next.value + Cardinality(handed) = 1
      BY <1>2, <1>3, <3>1
    <3> QED BY <3>2 DEF OneOwner, handed
  <2>2. CASE mutex.value = 0 /\ next.value = 0
    <3>1. PICK i \in Phil : Has(i) /\ \A j \in Phil : Has(j) => j = i
      BY <2>2 DEF CondvarInv, TokenInv
    <3>2. ~ (Owns(i) /\ Handed(i))
      BY DEF Owns, CondvarInv, CondInv
    <3>3. \/ Owners = {i} /\ handed = {}
          \/ Owners = {} /\ handed = {i}
      BY <1>1, <3>1, <3>2 DEF Has
    <3>4. Cardinality({i}) = 1 /\ Cardinality({}) = 0
      BY <1>3
    <3>5. Cardinality(Owners) + 0 + 0 + Cardinality(handed) = 1
      BY <3>3, <3>4
    <3> QED BY <2>2, <3>5 DEF OneOwner, handed
  <2> QED BY <1>2, <2>1, <2>2
<1>5. CountsExact
  <2>1. next_count = Cardinality(signallers)
    <3>1. CASE \A i \in Phil : ~ Signals(i)
      <4>1. signallers = {}
        BY <1>1, <3>1
      <4> QED BY <1>3, <3>1, <4>1 DEF CondvarInv, SignallerInv
    <3>2. CASE \E i \in Phil : Signals(i)
      <4>1. PICK i \in Phil : signallers = {i}
        BY <1>1, <3>2 DEF CondvarInv, SignallerInv
      <4> QED BY <1>3, <3>2, <4>1 DEF CondvarInv, SignallerInv
    <3> QED BY <3>1, <3>2
  <2> QED BY <2>1 DEF CountsExact, CondvarInv, CondInv, Waits, signallers
<1> QED BY <1>4, <1>5

LEMMA InvGives == Sizes /\ CondvarInv => MonitorSound /\ SignalledEats
<1> SUFFICES ASSUME Sizes, CondvarInv PROVE MonitorSound /\ SignalledEats
  OBVIOUS
<1>1. MonitorSound
  BY TokenCounted DEF MonitorSound, CondvarInv
<1>2. SignalledEats
  BY DEF SignalledEats, CondvarInv, PlaceInv, CondInv, Waits, Asleep
<1> QED BY <1>1, <1>2
==============================================================================
