--------------------------------- MODULE Stdin ---------------------------------
(***************************************************************************)
(* The standard input device: the timer interrupt moves one key a tick     *)
(* from the ring of the console to the buffer of dev_stdin.c and wakes the *)
(* readers; a reader that finds the buffer empty sleeps with WT_KBD, which *)
(* do_kill may interrupt.  dev_stdin_read gives interrupts free only while *)
(* it sleeps, so each stretch of its loop is one step.                     *)
(***************************************************************************)
EXTENDS Naturals, Sequences, SequencesExt, FiniteSetsExt

CONSTANTS
    Proc,
    Keys,
    STDIN_BUFSIZE,  \* 4096 in the code
    CONSBUFSIZE,    \* 512
    MaxLen,         \* bound: characters asked for in one read
    MaxArrivals     \* bound: keys typed between two ticks

VARIABLES
    cons,           \* the keys between rpos and wpos of the console ring
    stdin_buffer,   \* the keys between p_rpos and p_wpos
    wait_queue,     \* the readers that wait for a key
    drowsy,         \* the readers asleep with WT_KBD
    wakeup_flags,   \* of the wait_t of each reader
    wanted,         \* characters a reader still wants, 0: it is not reading
    copied          \* history: what a reader was given in this step

vars == <<cons, stdin_buffer, wait_queue, drowsy, wakeup_flags, wanted, copied>>

Init ==
    /\ cons = <<>> /\ stdin_buffer = <<>> /\ wait_queue = <<>> /\ drowsy = {}
    /\ wakeup_flags = [p \in Proc |-> "WT_INTERRUPTED"]
    /\ wanted = [p \in Proc |-> 0]
    /\ copied = <<>>

Reading(p) == wanted[p] > 0

\* What the ring shows once keys have been put into it: its positions wrap round
\* and nothing tells a full ring from an empty one.
ConsHolds(keys) == LET n == Len(keys) IN SubSeq(keys, n - (n % CONSBUFSIZE) + 1, n)

\* Mutant: p_wpos is moved on in a full buffer too.
PutAlways(c) ==
    IF Len(stdin_buffer) < STDIN_BUFSIZE
    THEN Append(stdin_buffer, c)
    ELSE Append([stdin_buffer EXCEPT ![1] = c], c)

\* The buffer once dev_stdin_write has stored c: in a full one the slot of p_wpos
\* is that of the oldest key.
Put(c) ==
    IF Len(stdin_buffer) < STDIN_BUFSIZE
    THEN Append(stdin_buffer, c)
    ELSE [stdin_buffer EXCEPT ![1] = c]

\* Mutant: a key wakes the first reader alone.
WakeFirstReader ==
    IF wait_queue = <<>>
    THEN UNCHANGED <<wait_queue, drowsy, wakeup_flags>>
    ELSE /\ wait_queue' = Tail(wait_queue)
         /\ drowsy' = drowsy \ {Head(wait_queue)}
         /\ wakeup_flags' = [wakeup_flags EXCEPT ![Head(wait_queue)] = "WT_KBD"]

\* Mutant: a key wakes nobody.
WakeNobody == UNCHANGED <<wait_queue, drowsy, wakeup_flags>>

\* wakeup_queue(wait_queue, WT_KBD, 1)
WakeReaders ==
    LET woken == ToSet(wait_queue)
    IN  /\ wait_queue' = <<>>
        /\ drowsy' = drowsy \ woken
        /\ wakeup_flags' = [p \in Proc |-> IF p \in woken THEN "WT_KBD" ELSE wakeup_flags[p]]

\* dev_stdin_write(cons_getc()) in the timer interrupt, after keys were typed.
Interrupt(keys) ==
    LET ring == ConsHolds(cons \o keys)
    IN  /\ IF ring = <<>>
           THEN cons' = <<>> /\ UNCHANGED <<stdin_buffer, wait_queue, drowsy, wakeup_flags>>
           ELSE /\ cons' = Tail(ring)
                /\ stdin_buffer' = Put(Head(ring))
                /\ WakeReaders
        /\ copied' = <<>>
        /\ UNCHANGED wanted

\* The loop of dev_stdin_read with want characters to go and queue as it is then:
\* it ends when it has them all, or goes to sleep once the buffer is empty.
Loop(p, want, queue) ==
    LET k == Min({want, Len(stdin_buffer)})
    IN  /\ copied' = SubSeq(stdin_buffer, 1, k)
        /\ stdin_buffer' = SubSeq(stdin_buffer, k + 1, Len(stdin_buffer))
        /\ wanted' = [wanted EXCEPT ![p] = want - k]
        /\ wakeup_flags' = [wakeup_flags EXCEPT ![p] = "WT_INTERRUPTED"]
        /\ IF k < want
           THEN wait_queue' = Append(queue, p) /\ drowsy' = drowsy \cup {p}
           ELSE wait_queue' = queue /\ UNCHANGED drowsy
        /\ UNCHANGED cons

dev_stdin_read(p, len) ==
    /\ ~ Reading(p)
    /\ Loop(p, len, wait_queue)

\* The reader runs again: a key woke it, or it was killed and returns with what
\* it has.
Resume(p) ==
    LET queue == RemoveFirst(wait_queue, p)
    IN  /\ Reading(p) /\ p \notin drowsy
        /\ IF wakeup_flags[p] = "WT_KBD"
           THEN Loop(p, wanted[p], queue)
           ELSE /\ wait_queue' = queue
                /\ wanted' = [wanted EXCEPT ![p] = 0]
                /\ copied' = <<>>
                /\ UNCHANGED <<cons, stdin_buffer, drowsy, wakeup_flags>>

\* do_kill ends the sleep of p, which stays in the wait queue until it runs.
Kill(p) ==
    /\ p \in drowsy
    /\ drowsy' = drowsy \ {p}
    /\ copied' = <<>>
    /\ UNCHANGED <<cons, stdin_buffer, wait_queue, wakeup_flags, wanted>>

InputIdle ==
    /\ copied' = <<>>
    /\ UNCHANGED <<cons, stdin_buffer, wait_queue, drowsy, wakeup_flags, wanted>>

------------------------------------------------------------------------------
(* Properties *)

\* The wait queue holds the readers asleep, and those that were killed and have
\* not run since; no reader is in it twice and nobody sleeps outside it.
QueueExact ==
    /\ \A i, j \in DOMAIN wait_queue : wait_queue[i] = wait_queue[j] => i = j
    /\ ToSet(wait_queue) = {p \in Proc : Reading(p) /\ wakeup_flags[p] = "WT_INTERRUPTED"}
    /\ drowsy \subseteq ToSet(wait_queue)

\* No reader sleeps while a key is there for it, however keys, reads and kills
\* fall between its look at the buffer and its sleep; and the wait queue is exact.
NobodyMissesKey == QueueExact /\ (drowsy # {} => stdin_buffer = <<>>)

Stream == INSTANCE KeyStream
    WITH pending <- stdin_buffer \o cons, Limit <- Min({STDIN_BUFSIZE + 1, CONSBUFSIZE})
==============================================================================
