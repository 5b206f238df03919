-------------------------------- MODULE Dining --------------------------------
(***************************************************************************)
(* What check_sync.c promises whichever way its philosophers synchronise:  *)
(* they think, get hungry and eat in turn, and no two neighbours eat at    *)
(* the same time.                                                          *)
(***************************************************************************)
EXTENDS Naturals

CONSTANT N      \* number of philosophers, at least 2

Phil == 0..(N - 1)
LEFT(i) == (i + N - 1) % N
RIGHT(i) == (i + 1) % N

VARIABLE state

Init == state = [i \in Phil |-> "THINKING"]

GetHungry(i) == state[i] = "THINKING" /\ state' = [state EXCEPT ![i] = "HUNGRY"]

Eat(i) ==
    /\ state[i] = "HUNGRY"
    /\ state[LEFT(i)] # "EATING" /\ state[RIGHT(i)] # "EATING"
    /\ state' = [state EXCEPT ![i] = "EATING"]

Think(i) == state[i] = "EATING" /\ state' = [state EXCEPT ![i] = "THINKING"]

Next == \E i \in Phil : GetHungry(i) \/ Eat(i) \/ Think(i)

Spec == Init /\ [][Next]_state
==============================================================================
