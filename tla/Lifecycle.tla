------------------------------ MODULE Lifecycle ------------------------------
(***************************************************************************)
(* What fork, exit and wait promise together: every process has a living   *)
(* parent, a dead one stays until its parent has asked for it, and the     *)
(* children of a dead process belong to initproc from the same moment on.  *)
(***************************************************************************)
CONSTANTS User, initproc, None

VARIABLES life, parent

vars == <<life, parent>>

Init ==
    /\ life = [u \in User |-> "free"]
    /\ parent = [u \in User |-> None]

Alive(p) == p = initproc \/ (p \in User /\ life[p] = "alive")

\* A living process p gets the child c.
Birth(p, c) ==
    /\ Alive(p) /\ life[c] = "free"
    /\ life' = [life EXCEPT ![c] = "alive"]
    /\ parent' = [parent EXCEPT ![c] = p]

Death(p) ==
    /\ life[p] = "alive"
    /\ life' = [life EXCEPT ![p] = "zombie"]
    /\ parent' = [c \in User |-> IF parent[c] = p THEN initproc ELSE parent[c]]

\* The living parent of z learns of its death.
Burial(z) ==
    /\ life[z] = "zombie" /\ Alive(parent[z])
    /\ life' = [life EXCEPT ![z] = "free"]
    /\ parent' = [parent EXCEPT ![z] = None]

Next ==
    \/ \E p \in User \cup {initproc}, c \in User : Birth(p, c)
    \/ \E p \in User : Death(p)
    \/ \E z \in User : Burial(z)

Spec == Init /\ [][Next]_vars
==============================================================================
