-------------------------------- MODULE Timers --------------------------------
(***************************************************************************)
(* What add_timer, del_timer and run_timer_list promise: a timer set to n  *)
(* runs out at the n-th tick after that, whatever other timers there are.  *)
(***************************************************************************)
EXTENDS Naturals

CONSTANTS Proc, MaxTicks

VARIABLES
    left,     \* ticks until the timer of a process runs out, 0: no timer
    fired     \* the processes whose timer ran out in this step

Init == left = [p \in Proc |-> 0] /\ fired = {}

Add(p, ticks) ==
    /\ left[p] = 0
    /\ left' = [left EXCEPT ![p] = ticks]
    /\ fired' = {}

Del(p) == left' = [left EXCEPT ![p] = 0] /\ fired' = {}

Tick ==
    /\ left' = [p \in Proc |-> IF left[p] > 0 THEN left[p] - 1 ELSE 0]
    /\ fired' = {p \in Proc : left[p] = 1}

Next ==
    \/ \E p \in Proc : (\E ticks \in 1..MaxTicks : Add(p, ticks)) \/ Del(p)
    \/ Tick

Spec == Init /\ [][Next]_<<left, fired>>
==============================================================================
