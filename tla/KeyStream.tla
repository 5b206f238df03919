------------------------------- MODULE KeyStream -------------------------------
(***************************************************************************)
(* What the keyboard promises its readers: the keys come in the order in   *)
(* which they were typed, each to one reader, and none is lost while fewer *)
(* than Limit of them wait; no key is ever read twice.                     *)
(***************************************************************************)
EXTENDS Naturals, Sequences, SequencesExt, FiniteSets

CONSTANTS Keys, Limit, MaxArrivals

VARIABLES
    pending,    \* keys typed and not read yet
    copied      \* what a reader was given in this step

Init == pending = <<>> /\ copied = <<>>

Arrive(s) ==
    /\ pending' = pending \o s
    /\ copied' = <<>>

Count(keys, c) == Cardinality({i \in DOMAIN keys : keys[i] = c})

\* Too many keys wait: some are lost or change places, but none is doubled.
Overrun(s) ==
    /\ Len(pending \o s) >= Limit
    /\ \A c \in Keys : Count(pending', c) <= Count(pending \o s, c)
    /\ copied' = <<>>

Take(k) ==
    /\ copied' = SubSeq(pending, 1, k)
    /\ pending' = SubSeq(pending, k + 1, Len(pending))

Next ==
    \/ \E s \in BoundedSeq(Keys, MaxArrivals) : Arrive(s) \/ Overrun(s)
    \/ \E k \in 0..Len(pending) : Take(k)

Spec == Init /\ [][Next]_<<pending, copied>>
==============================================================================
