------------------------------ MODULE TimerList ------------------------------
(***************************************************************************)
(* The timer list of sched.c.  The expires field of a linked timer counts  *)
(* the ticks after the timer in front of it.  Every operation runs with    *)
(* interrupts disabled and is one step; between them, ticks and kills may  *)
(* come in any order.                                                      *)
(***************************************************************************)
EXTENDS Naturals, Sequences, SequencesExt

CONSTANTS Proc, MaxTicks    \* bound: longest sleep

ASSUME TicksAssumption == MaxTicks \in Nat

VARIABLES
    timer_list,   \* the linked timers: records of their owner and expires
    asleep,       \* the processes that wait for their timer
    inside,       \* the processes between add_timer and del_timer of do_sleep
    fired         \* history: the processes run_timer_list woke in this step

vars == <<timer_list, asleep, inside, fired>>

Init == timer_list = <<>> /\ asleep = {} /\ inside = {} /\ fired = {}

\* Ticks until the first k timers of the list have run out.
TicksTo(list, k) ==
    LET sum[j \in 0..Len(list)] == IF j = 0 THEN 0 ELSE sum[j - 1] + list[j].expires
    IN  sum[k]

Linked(list, p) == \E i \in DOMAIN list : list[i].proc = p

\* add_timer walks to the first timer that runs out later than the new one.
WalkEnd(list, ticks) ==
    CHOOSE k \in 0..Len(list) :
        /\ k < Len(list) => ticks - TicksTo(list, k) < list[k + 1].expires
        /\ \A j \in 0..(k - 1) : ticks - TicksTo(list, j) >= list[j + 1].expires

\* What add_timer makes of the timer behind the new one.
Later(rest, expires) ==
    IF rest = <<>> THEN rest ELSE [rest EXCEPT ![1].expires = @ - expires]

add_timer(p, ticks) ==
    LET k == WalkEnd(timer_list, ticks)
        expires == ticks - TicksTo(timer_list, k)
    IN  timer_list' = SubSeq(timer_list, 1, k)
                      \o <<[proc |-> p, expires |-> expires]>>
                      \o Later(SubSeq(timer_list, k + 1, Len(timer_list)), expires)

\* Mutant: the ticks of the timer that is taken out are lost.
SoonerUnchanged(rest, expires) == rest

\* What del_timer makes of the timers behind the one it takes out.
Sooner(rest, expires) ==
    IF rest = <<>> THEN rest ELSE [rest EXCEPT ![1].expires = @ + expires]

del_timer(p) ==
    IF Linked(timer_list, p)
    THEN LET k == CHOOSE i \in DOMAIN timer_list : timer_list[i].proc = p
         IN  timer_list' = SubSeq(timer_list, 1, k - 1)
                 \o Sooner(SubSeq(timer_list, k + 1, Len(timer_list)),
                           timer_list[k].expires)
    ELSE UNCHANGED timer_list

\* do_sleep up to its schedule(): it needs the timer not to be linked.
Sleep(p, ticks) ==
    /\ p \notin inside
    /\ add_timer(p, ticks)
    /\ asleep' = asleep \cup {p}
    /\ inside' = inside \cup {p}
    /\ fired' = {}

\* do_kill ends the sleep of p; its timer stays linked until p runs.
Kill(p) ==
    /\ p \in asleep
    /\ asleep' = asleep \ {p}
    /\ fired' = {}
    /\ UNCHANGED <<timer_list, inside>>

\* Mutant: a sleeper that was killed leaves without del_timer.
ResumeLinked(p) ==
    /\ p \in inside \ asleep
    /\ inside' = inside \ {p}
    /\ fired' = {}
    /\ UNCHANGED <<timer_list, asleep>>

\* The rest of do_sleep, when p runs again.
Resume(p) ==
    /\ p \in inside \ asleep
    /\ del_timer(p)
    /\ inside' = inside \ {p}
    /\ fired' = {}
    /\ UNCHANGED asleep

\* The length of the front part of the list whose timers have run out.
RunOut(list) ==
    CHOOSE k \in 0..Len(list) :
        /\ \A i \in 1..k : list[i].expires = 0
        /\ k < Len(list) => list[k + 1].expires # 0

\* The owners of the first k timers, which run_timer_list takes out and wakes.
Due(list, k) == {list[i].proc : i \in 1..k}

run_timer_list ==
    IF timer_list = <<>>
    THEN fired' = {} /\ UNCHANGED <<timer_list, asleep, inside>>
    ELSE LET ticked == [timer_list EXCEPT ![1].expires = @ - 1]
             k == RunOut(ticked)
             due == Due(ticked, k)
         IN  /\ timer_list[1].expires # 0
             /\ timer_list' = SubSeq(ticked, k + 1, Len(ticked))
             /\ asleep' = asleep \ due
             /\ fired' = due
             /\ UNCHANGED inside

TimersIdle == fired' = {} /\ UNCHANGED <<timer_list, asleep, inside>>

------------------------------------------------------------------------------
(* Properties *)

TimerTypes ==
    /\ timer_list \in Seq([proc : Proc, expires : 0..MaxTicks])
    /\ asleep \subseteq Proc /\ inside \subseteq Proc /\ fired \subseteq Proc

\* The assertion of run_timer_list: the first timer has not run out already, or
\* expires would wrap round below zero and block the list.
HeadPositive == timer_list # <<>> => timer_list[1].expires > 0

\* The assertion of add_timer, seen from the list: nobody is linked twice, and
\* only processes inside do_sleep are.
LinkedOnce ==
    /\ \A i, j \in DOMAIN timer_list :
          timer_list[i].proc = timer_list[j].proc => i = j
    /\ \A i \in DOMAIN timer_list : timer_list[i].proc \in inside

\* Who sleeps has a timer that will wake it.
SleepersLinked == \A p \in asleep : Linked(timer_list, p)

\* The list is what its two assertions and its users need it to be.
ListSound == TimerTypes /\ HeadPositive /\ LinkedOnce /\ SleepersLinked

\* Ticks left of the timer of p: what the deltas in front of it add up to.
LeftOf(p) ==
    IF Linked(timer_list, p)
    THEN TicksTo(timer_list, CHOOSE i \in DOMAIN timer_list : timer_list[i].proc = p)
    ELSE 0

Absolute == INSTANCE Timers WITH left <- [p \in Proc |-> LeftOf(p)]

\* However timers are added and taken out between the ticks, each one runs out
\* exactly at the tick it was set for.
ImplementsTimers == Absolute!Spec
==============================================================================
