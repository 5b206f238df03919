------------------------------- MODULE CheckSync -------------------------------
(***************************************************************************)
(* check_sync: N philosophers over semaphores and N over the monitor.  The *)
(* two groups share no variable, so one runs here after the other.         *)
(***************************************************************************)
EXTENDS PhilosopherSema

VARIABLES
    state_condvar, monitor_mutex, next, next_count, cv, cpc, sub, citer

cvars == <<state_condvar, monitor_mutex, next, next_count, cv, cpc, sub, citer>>

Condvar == INSTANCE PhilosopherCondvar
    WITH mutex <- monitor_mutex, pc <- cpc, iter <- citer

CheckInit == Init /\ Condvar!Init

SemaDone == \A i \in Phil : pc[i] = "quit"

CondvarStep(i) == SemaDone /\ Condvar!Step(i) /\ UNCHANGED vars

CheckNext ==
    \/ Next /\ UNCHANGED cvars
    \/ \E i \in Phil : CondvarStep(i)
    \/ SemaDone /\ Condvar!Done /\ UNCHANGED vars

------------------------------------------------------------------------------
(* Properties of the philosophers over the monitor; those of the others are   *)
(* in PhilosopherSema.                                                        *)

\* The monitor has one owner or is on its way to one, and its counters are exact.
MonitorSound == Condvar!MonitorSound

\* What cond_wait waited for is still true when it returns.
SignalledEats == Condvar!SignalledEats

\* The monitor implements the dining table.
MonitorImplementsDining == Condvar!ImplementsDining
==============================================================================
