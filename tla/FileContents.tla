----------------------------- MODULE FileContents -----------------------------
(***************************************************************************)
(* What open, read, write, seek, dup and close promise their callers: a    *)
(* file is a sequence of units, a write changes the units it names and no  *)
(* other, and what one opener wrote the next one finds, on whatever blocks *)
(* the units are kept.                                                     *)
(***************************************************************************)
EXTENDS Naturals, Sequences, SequencesExt

CONSTANTS Inodes, Fds, Values, BLKSIZE, MaxFileSize, NULL

VARIABLES
    content,    \* the units of each file
    at          \* at[f]: [node, pos], with node = NULL when f is not open

vars == <<content, at>>

Closed == [node |-> NULL, pos |-> 0]
Zeros(n) == [k \in 1..n |-> 0]

\* c made at least n units long with zeros
Padded(c, n) == IF Len(c) >= n THEN c ELSE c \o Zeros(n - Len(c))

\* c with u written from position p
Overlay(c, p, u) ==
    [k \in 1..Len(Padded(c, p + Len(u))) |->
        IF k > p /\ k <= p + Len(u) THEN u[k - p] ELSE Padded(c, p + Len(u))[k]]

Init == content = [i \in Inodes |-> << >>] /\ at = [f \in Fds |-> Closed]

Open(f, i, keep) ==
    /\ at[f] = Closed
    /\ \E p \in 0..MaxFileSize :
        /\ at' = [at EXCEPT ![f] = [node |-> i, pos |-> p]]
        /\ content' = IF keep THEN content ELSE [content EXCEPT ![i] = << >>]
        /\ p \in {0, Len(content'[i])}

Close(f) == at[f] # Closed /\ at' = [at EXCEPT ![f] = Closed] /\ UNCHANGED content

Dup(f, g) ==
    /\ at[f] # Closed /\ at[g] = Closed
    /\ at' = [at EXCEPT ![g] = at[f]]
    /\ UNCHANGED content

\* When the disk is full a write may stop early.
Write(f, u) ==
    /\ at[f] # Closed
    /\ \E k \in 0..Len(u) :
        /\ at' = [at EXCEPT ![f].pos = @ + k]
        /\ content' = [content EXCEPT ![at[f].node] = Overlay(@, at[f].pos, SubSeq(u, 1, k))]

\* A read stops at the end of the file.
Read(f, len) ==
    /\ at[f] # Closed
    /\ \E k \in 1..len :
        /\ at' = [at EXCEPT ![f].pos = @ + k]
        /\ at[f].pos + k <= Len(content[at[f].node])
    /\ UNCHANGED content

Seek(f, p) ==
    /\ at[f] # Closed
    /\ at' = [at EXCEPT ![f].pos = p]
    /\ content' = [content EXCEPT ![at[f].node] = Padded(@, p)]

Next ==
    \/ \E f \in Fds : Close(f)
    \/ \E f \in Fds, i \in Inodes, keep \in BOOLEAN : Open(f, i, keep)
    \/ \E f, g \in Fds : Dup(f, g)
    \/ \E f \in Fds, u \in BoundedSeq(Values, BLKSIZE) : Write(f, u)
    \/ \E f \in Fds, len \in 1..BLKSIZE : Read(f, len)
    \/ \E f \in Fds, p \in 0..(MaxFileSize - 1) : Seek(f, p)

Spec == Init /\ [][Next]_vars
==============================================================================
