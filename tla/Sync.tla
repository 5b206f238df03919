--------------------------------- MODULE Sync ---------------------------------
(***************************************************************************)
(* kern/sync: processes that share units through a semaphore and are       *)
(* killed, or the philosophers of check_sync over semaphores and monitor.  *)
(* They share no state, so one of the two groups runs and the other waits  *)
(* in its initial state.                                                   *)
(***************************************************************************)
EXTENDS CheckSync, SemaphoreLock

VARIABLE running

philvars == <<vars, cvars>>
svars == <<running, philvars, lockvars>>

SyncInit ==
    /\ running \in {"lock", "check_sync"}
    /\ CheckInit /\ LockInit

Locking(A) == running = "lock" /\ A /\ UNCHANGED <<running, philvars>>
Checking(A) == running = "check_sync" /\ A /\ UNCHANGED <<running, lockvars>>

SyncNext == Locking(LockNext) \/ Checking(CheckNext)

\* Who is runnable runs again, and who holds a unit gives it back.
SyncFairness ==
    /\ \A p \in Proc : WF_svars(Locking(Resume(p))) /\ WF_svars(Locking(Up(p)))
    /\ \A i \in Phil : /\ WF_svars(Checking(Step(i) /\ UNCHANGED cvars))
                       /\ WF_svars(Checking(CondvarStep(i)))

SyncSpec == SyncInit /\ [][SyncNext]_svars /\ SyncFairness

------------------------------------------------------------------------------
(* Liveness; the other properties are those of CheckSync and SemaphoreLock.   *)

\* Every down succeeds if the holders give their units back. The processes are
\* interchangeable, so what holds of one holds of all.
WaitersServed ==
    LET p == CHOOSE q \in Proc : TRUE
    IN  at[p] = "asleep" ~> at[p] = "holding"

\* Every philosopher of both groups gets its meals and quits: there is no
\* deadlock, no signal is lost and, as every neighbour stops after TIMES meals,
\* nobody starves.
AllQuit == running = "check_sync" => <>(SemaDone /\ \A i \in Phil : cpc[i] = "quit")
==============================================================================
