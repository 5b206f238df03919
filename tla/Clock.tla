--------------------------------- MODULE Clock ---------------------------------
(***************************************************************************)
(* The timer interrupt of trap.c with the two services that hang on it,    *)
(* sleeping processes and the keyboard, and do_kill, which may wake a      *)
(* process from either.                                                    *)
(***************************************************************************)
EXTENDS TimerList

CONSTANTS Keys, STDIN_BUFSIZE, CONSBUFSIZE, MaxLen, MaxArrivals    \* see Stdin

ASSUME BuffersAssumption ==
    STDIN_BUFSIZE \in Nat \ {0} /\ CONSBUFSIZE \in Nat \ {0} /\ MaxArrivals \in Nat

VARIABLES cons, stdin_buffer, wait_queue, drowsy, wakeup_flags, wanted, copied

Input == INSTANCE Stdin

input_vars == <<cons, stdin_buffer, wait_queue, drowsy, wakeup_flags, wanted, copied>>
clock_vars == <<vars, input_vars>>

ClockInit == Init /\ Input!Init

\* IRQ_S_TIMER of interrupt_handler
TimerInterrupt ==
    /\ run_timer_list
    /\ \E keys \in BoundedSeq(Keys, MaxArrivals) : Input!Interrupt(keys)

do_sleep(p) ==
    /\ ~ Input!Reading(p)
    /\ (\E ticks \in 1..MaxTicks : Sleep(p, ticks)) \/ Resume(p)
    /\ Input!InputIdle

stdin_read(p) ==
    /\ p \notin inside
    /\ (\E len \in 1..MaxLen : Input!dev_stdin_read(p, len)) \/ Input!Resume(p)
    /\ TimersIdle

do_kill(p) ==
    \/ Kill(p) /\ Input!InputIdle
    \/ Input!Kill(p) /\ TimersIdle

ClockNext == TimerInterrupt \/ \E p \in Proc : do_sleep(p) \/ stdin_read(p) \/ do_kill(p)

\* Who was woken gets the CPU.
ClockSpec ==
    /\ ClockInit /\ [][ClockNext]_clock_vars
    /\ \A p \in Proc : WF_clock_vars(Input!Resume(p) /\ TimersIdle)

------------------------------------------------------------------------------
(* Properties; those of the timers are in TimerList. *)

\* A reader sleeps only while there is no key for it.
NobodyMissesKey == Input!NobodyMissesKey

\* Keys come out in the order in which they were typed, to one reader each, until
\* more of them wait than the console ring or the buffer can hold.
ImplementsKeyStream == Input!Stream!Spec

\* As long as somebody wants to read, a key in the buffer is taken in the end:
\* the wake-up reaches a reader that runs, whoever is killed meanwhile.
KeysAreTaken ==
    \/ []<>(stdin_buffer = <<>> \/ \A p \in Proc : ~ Input!Reading(p))
    \/ []<><<copied' # <<>>>>_clock_vars
==============================================================================
