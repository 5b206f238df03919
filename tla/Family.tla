-------------------------------- MODULE Family --------------------------------
(***************************************************************************)
(* Process identifiers and the links between relatives: get_pid with the   *)
(* range it remembers, proc_list, the hash lists, and the pointers cptr    *)
(* (youngest child), optr and yptr (older and younger sibling) as do_fork, *)
(* do_exit and do_wait change them.                                        *)
(***************************************************************************)
EXTENDS Integers, Sequences, FiniteSets, SequencesExt

CONSTANTS Child, idle, init, NULL, MAX_PID, MAX_PROCESS

Block == Child \cup {idle, init}

VARIABLES
    pid,            \* of each block, -1 for one that is not in use
    zombie,         \* blocks in state PROC_ZOMBIE
    kin,            \* the pointers parent, cptr, optr and yptr of each block
    proc_list,      \* the list of all processes but idleproc, newest first
    hash_list,      \* processes linked in the hash lists
    last_pid, next_safe

fvars == <<pid, zombie, kin, proc_list, hash_list, last_pid, next_safe>>

Used == {p \in Block : pid[p] # -1}
Alive == Used \ zombie
nr_process == Len(proc_list) + 1

\* The younger sibling of a block is changed, or of none if there is no block.
With(k, p, q) == IF p = NULL THEN k ELSE [k EXCEPT !.yptr[p] = q]

------------------------------------------------------------------------------
(* get_pid *)

\* One round of its loop, at a process of the list: past its number if it is the
\* one tried, else down to its number if that is the next one above. At the end of
\* the range it begins again.
Looked(t) ==
    LET n == pid[proc_list[t.at]]
    IN  IF n = t.last
        THEN IF t.last + 1 < t.safe THEN [t EXCEPT !.at = t.at + 1, !.last = t.last + 1]
             ELSE [at |-> 1, last |-> IF t.last + 1 >= MAX_PID THEN 1 ELSE t.last + 1,
                   safe |-> MAX_PID]
        ELSE [at |-> t.at + 1, last |-> t.last,
              safe |-> IF n > t.last /\ t.safe > n THEN n ELSE t.safe]

Rounds == [at : 1..(Len(proc_list) + 1), last : 1..MAX_PID, safe : 1..MAX_PID]
Scan(from) ==
    LET look[t \in Rounds] ==
            IF t.at > Len(proc_list) THEN <<t.last, t.safe>> ELSE look[Looked(t)]
    IN  look[[at |-> 1, last |-> from, safe |-> MAX_PID]]

\* Mutant: next_safe is not looked at.
get_pidAnySafe ==
    IF last_pid + 1 >= MAX_PID THEN Scan(1) ELSE <<last_pid + 1, next_safe>>

\* The new last_pid, which is the number given, and the new next_safe.
get_pid ==
    IF last_pid + 1 >= MAX_PID THEN Scan(1)
    ELSE IF last_pid + 1 >= next_safe THEN Scan(last_pid + 1)
    ELSE <<last_pid + 1, next_safe>>

\* No other number than its own finds a process.
find_proc(n) == {p \in hash_list : 0 < n /\ pid[p] = n}

------------------------------------------------------------------------------
(* Links *)

set_links(k, p, c) ==
    LET older == k.cptr[p]
        linked == With(k, older, c)
    IN  [linked EXCEPT !.parent[c] = p, !.yptr[c] = NULL, !.optr[c] = older, !.cptr[p] = c]

\* Mutant: the older sibling is not told.
remove_linksOneWay(k, c) ==
    IF k.yptr[c] # NULL THEN [k EXCEPT !.optr[k.yptr[c]] = k.optr[c]]
    ELSE [k EXCEPT !.cptr[k.parent[c]] = k.optr[c]]

remove_links(k, c) ==
    LET o == k.optr[c]
        y == k.yptr[c]
        older == With(k, o, y)
    IN  IF y # NULL THEN [older EXCEPT !.optr[y] = o]
        ELSE [older EXCEPT !.cptr[k.parent[c]] = o]

\* One round of do_exit: the youngest child of p becomes initproc's youngest.
Adopt(k, p) ==
    LET c == k.cptr[p]
    IN  IF c = NULL THEN k ELSE set_links([k EXCEPT !.cptr[p] = k.optr[c]], init, c)

\* After as many rounds as there are processes, p has no child left.
Orphaned(k, p) ==
    LET after[n \in 0..Len(proc_list)] == IF n = 0 THEN k ELSE Adopt(after[n - 1], p)
    IN  after[Len(proc_list)]

\* The children of p as do_wait goes through them.
Next(k, p, s) == IF s = <<>> THEN k.cptr[p] ELSE k.optr[s[Len(s)]]
Children(k, p) ==
    LET upto[n \in 0..Len(proc_list)] ==
            IF n = 0 THEN <<>>
            ELSE LET s == upto[n - 1]
                     c == Next(k, p, s)
                 IN  IF c = NULL THEN s ELSE Append(s, c)
    IN  upto[Len(proc_list)]

------------------------------------------------------------------------------
(* Calls *)

FamilyInit ==
    /\ pid \in {n \in [Block -> {-1, 0, 1}] :
                  n[idle] = 0 /\ n[init] = 1 /\ \A c \in Child : n[c] = -1}
    /\ zombie = {}
    /\ \E none \in [Block -> {NULL}] :
          kin = set_links([parent |-> none, cptr |-> none, optr |-> none, yptr |-> none],
                          idle, init)
    /\ proc_list = <<init>>
    /\ hash_list = {init}
    /\ last_pid = 1
    /\ next_safe = MAX_PID

do_fork(p, c) ==
    /\ p \in Alive \ {idle}
    /\ c \notin Used
    /\ nr_process < MAX_PROCESS
    /\ LET given == get_pid
       IN  /\ pid' = [pid EXCEPT ![c] = given[1]]
           /\ last_pid' = given[1]
           /\ next_safe' = given[2]
    /\ kin' = set_links(kin, p, c)
    /\ proc_list' = <<c>> \o proc_list
    /\ hash_list' = hash_list \cup {c}
    /\ UNCHANGED zombie

do_exit(p) ==
    /\ p \in Alive \ {idle, init}
    /\ zombie' = zombie \cup {p}
    /\ kin' = Orphaned(kin, p)
    /\ UNCHANGED <<pid, proc_list, hash_list, last_pid, next_safe>>

\* do_wait has found zombie c; kfree ends the block, alloc_proc will clear it.
Reaped(c) ==
    LET k == remove_links(kin, c)
    IN  /\ pid' = [pid EXCEPT ![c] = -1]
        /\ zombie' = zombie \ {c}
        /\ kin' = [k EXCEPT !.parent[c] = NULL, !.cptr[c] = NULL,
                           !.optr[c] = NULL, !.yptr[c] = NULL]
        /\ proc_list' = RemoveFirst(proc_list, c)
        /\ hash_list' = hash_list \ {c}
        /\ UNCHANGED <<last_pid, next_safe>>

WaitPid(p, n) ==
    /\ p \in Alive \ {idle}
    /\ \E c \in find_proc(n) : kin.parent[c] = p /\ c \in zombie /\ Reaped(c)

WaitAny(p) ==
    /\ p \in Alive \ {idle}
    /\ LET list == Children(kin, p)
       IN  \E i \in DOMAIN list :
              /\ list[i] \in zombie /\ \A j \in 1..(i - 1) : list[j] \notin zombie
              /\ Reaped(list[i])

FamilyNext ==
    \E p \in Block :
        \/ \E c \in Child : do_fork(p, c)
        \/ do_exit(p)
        \/ WaitAny(p)
        \/ \E n \in 1..(MAX_PID - 1) : WaitPid(p, n)

FamilySpec == FamilyInit /\ [][FamilyNext]_fvars

\* Blocks are interchangeable: a process is known by its number.
FamilyView ==
    LET no(p) == IF p = NULL THEN NULL ELSE pid[p]
    IN  <<{<<pid[p], p \in zombie, p \in hash_list, no(kin.parent[p]), no(kin.cptr[p]),
             no(kin.optr[p]), no(kin.yptr[p])>> : p \in Used},
          [i \in DOMAIN proc_list |-> no(proc_list[i])], last_pid, next_safe>>

------------------------------------------------------------------------------
(* Properties *)

\* However numbers run through the range and round its end while processes come
\* and go, no two processes have the same one, each is found by its own, and those
\* between last_pid and next_safe are free, as get_pid remembers.
PidsUnique ==
    /\ \A p \in Used \ {idle} : pid[p] \in 1..(MAX_PID - 1) /\ find_proc(pid[p]) = {p}
    /\ \A p \in Used : ~(last_pid < pid[p] /\ pid[p] < next_safe)

\* After any forks, deaths, adoptions and waits, the list that begins at a
\* process's youngest child has exactly the processes whose parent it is, read
\* from either end, and only the living have children.
FamilyExact ==
    /\ \A p \in Block :
          LET list == Children(kin, p)
          IN  /\ IsInjective(list)
              /\ Range(list) = {c \in Used : kin.parent[c] = p}
              /\ \A i \in DOMAIN list :
                    kin.yptr[list[i]] = (IF i = 1 THEN NULL ELSE list[i - 1])
              /\ list # <<>> => p \in Alive
    /\ Range(proc_list) = Used \ {idle} /\ IsInjective(proc_list)
==============================================================================
