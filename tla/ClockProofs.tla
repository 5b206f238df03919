------------------------------ MODULE ClockProofs ------------------------------
(***************************************************************************)
(* Proofs about the timer interrupt.  The timer list: what the deltas of   *)
(* its timers add up to, and what add_timer, del_timer and run_timer_list  *)
(* make of it; so the list counts every timer down to when it is due.  The *)
(* wait queue of the keyboard: no reader misses a key; and the keys come   *)
(* out in the order in which they were typed.                              *)
(***************************************************************************)
EXTENDS Clock, QueueLemmas, FiniteSetTheorems

(* Sums of deltas *)

Entries == [proc : Proc, expires : Int]

\* The recursive function of TicksTo exists.
LEMMA TicksExist ==
    ASSUME NEW list \in Seq(Entries)
    PROVE  \E f \in [0..Len(list) -> Int] :
              f = [j \in 0..Len(list) |-> IF j = 0 THEN 0 ELSE f[j - 1] + list[j].expires]
<1> DEFINE n == Len(list)
           e(j) == list[j].expires
           Good(m, f) == f = [j \in 0..m |-> IF j = 0 THEN 0 ELSE f[j - 1] + e(j)]
           S == {m \in Nat : m <= n => \E f \in [0..m -> Int] : Good(m, f)}
<1>1. n \in Nat /\ \A j \in 1..n : e(j) \in Int
  <2>1. n \in Nat /\ \A j \in 1..n : list[j] \in Entries
    BY LenProperties, ElementOfSeq
  <2> QED BY <2>1 DEF Entries
<1> HIDE DEF n, e
<1>2. 0 \in S
  <2> DEFINE f == [j \in 0..0 |-> 0]
  <2>1. f \in [0..0 -> Int] /\ Good(0, f)
    OBVIOUS
  <2> QED BY <2>1
<1>3. ASSUME NEW m \in Nat, m \in S PROVE m + 1 \in S
  <2> HIDE DEF Good
  <2> SUFFICES ASSUME m + 1 <= n PROVE \E g \in [0..(m + 1) -> Int] : Good(m + 1, g)
    OBVIOUS
  <2>1. PICK f \in [0..m -> Int] : Good(m, f)
    BY <1>1, <1>3
  <2> USE DEF Good
  <2>2. e(m + 1) \in Int
    BY <1>1
  <2> DEFINE g == [j \in 0..(m + 1) |-> IF j = m + 1 THEN f[m] + e(m + 1) ELSE f[j]]
  <2>3. g \in [0..(m + 1) -> Int]
    BY <2>2
  <2>4. ASSUME NEW j \in 0..(m + 1) PROVE g[j] = IF j = 0 THEN 0 ELSE g[j - 1] + e(j)
    <3>1. CASE j = m + 1
      BY <3>1
    <3>2. CASE j \in 0..m
      <4>1. g[j] = f[j] /\ (j # 0 => j - 1 \in 0..m /\ g[j - 1] = f[j - 1])
        BY <3>2
      <4>2. f[j] = IF j = 0 THEN 0 ELSE f[j - 1] + e(j)
        BY <2>1, <3>2
      <4> QED BY <4>1, <4>2
    <3> QED BY <3>1, <3>2
  <2>5. Good(m + 1, g)
    BY <2>3, <2>4
  <2> QED BY <2>3, <2>5
<1> HIDE DEF S
<1>4. n \in S
  BY <1>1, <1>2, <1>3, SetInduction
<1> QED BY <1>1, <1>4 DEF S, n, e

\* TicksTo adds up the deltas.
LEMMA TicksAdd ==
    ASSUME NEW list \in Seq(Entries)
    PROVE  /\ TicksTo(list, 0) = 0
           /\ \A k \in 1..Len(list) :
                 TicksTo(list, k) = TicksTo(list, k - 1) + list[k].expires
           /\ \A k \in 0..Len(list) : TicksTo(list, k) \in Int
<1> DEFINE Sum(f) ==
               f = [j \in 0..Len(list) |-> IF j = 0 THEN 0 ELSE f[j - 1] + list[j].expires]
           sum == CHOOSE f : Sum(f)
<1>1. Len(list) \in Nat
  BY LenProperties
<1>2. Sum(sum)
  <2>1. \E f : Sum(f)
    BY TicksExist, Zenon
  <2> HIDE DEF Sum
  <2> QED BY <2>1, Zenon
<1> HIDE DEF sum
<1>3. /\ sum[0] = 0
      /\ \A k \in 1..Len(list) : sum[k] = sum[k - 1] + list[k].expires
  BY <1>1, <1>2
<1>4. \A k \in 0..Len(list) : sum[k] \in Int
  <2> DEFINE S == {m \in Nat : m <= Len(list) => sum[m] \in Int}
  <2>1. 0 \in S
    BY <1>3
  <2>2. ASSUME NEW m \in Nat, m \in S PROVE m + 1 \in S
    <3>1. CASE m + 1 <= Len(list)
      <4>1. list[m + 1] \in Entries
        BY <1>1, <3>1, ElementOfSeq
      <4>2. sum[m + 1] = sum[m] + list[m + 1].expires /\ sum[m] \in Int
        BY <1>1, <1>3, <2>2, <3>1
      <4> QED BY <4>1, <4>2 DEF Entries
    <3>2. CASE ~ (m + 1 <= Len(list))
      BY <3>2
    <3> QED BY <3>1, <3>2
  <2> HIDE DEF S
  <2>3. Nat \subseteq S
    BY <2>1, <2>2, SetInduction
  <2> QED BY <1>1, <2>3 DEF S
<1>5. \A k : TicksTo(list, k) = sum[k]
  BY Zenon DEF TicksTo, sum
<1> QED BY <1>3, <1>4, <1>5

\* What adds up the deltas is TicksTo.
LEMMA TicksUnique ==
    ASSUME NEW list \in Seq(Entries), NEW f,
           f[0] = 0, \A k \in 1..Len(list) : f[k] = f[k - 1] + list[k].expires
    PROVE  \A k \in 0..Len(list) : TicksTo(list, k) = f[k]
<1> DEFINE n == Len(list)
           T(k) == TicksTo(list, k)
           S == {m \in Nat : m <= n => T(m) = f[m]}
<1>1. /\ n \in Nat
      /\ T(0) = 0 /\ \A k \in 1..n : T(k) = T(k - 1) + list[k].expires
  BY LenProperties, TicksAdd
<1> HIDE DEF T
<1>2. 0 \in S
  BY <1>1
<1>3. ASSUME NEW m \in Nat, m \in S PROVE m + 1 \in S
  <2>1. CASE m + 1 <= n
    <3>1. T(m) = f[m] /\ m + 1 \in 1..n /\ (m + 1) - 1 = m
      BY <1>1, <1>3, <2>1
    <3>2. T(m + 1) = T(m) + list[m + 1].expires /\ f[m + 1] = f[m] + list[m + 1].expires
      BY <1>1, <3>1, Zenon
    <3> QED BY <3>1, <3>2
  <2>2. CASE ~ (m + 1 <= n)
    BY <2>2
  <2> QED BY <2>1, <2>2
<1> HIDE DEF S
<1>4. Nat \subseteq S
  BY <1>2, <1>3, SetInduction
<1> QED BY <1>1, <1>4 DEF S, T

\* Timers run out in the order of the list.
LEMMA TicksGrow ==
    ASSUME NEW list \in Seq(Entries), NEW i \in 0..Len(list), NEW j \in i..Len(list),
           \A k \in 1..Len(list) : list[k].expires >= 0
    PROVE  TicksTo(list, i) <= TicksTo(list, j)
<1> DEFINE n == Len(list)
           T(k) == TicksTo(list, k)
           S == {m \in Nat : i + m <= n => T(i) <= T(i + m)}
<1>1. /\ n \in Nat
      /\ \A k \in 1..n : T(k) = T(k - 1) + list[k].expires
      /\ \A k \in 0..n : T(k) \in Int
      /\ \A k \in 1..n : list[k].expires \in Int
  <2>1. \A k \in 1..n : list[k] \in Entries
    BY LenProperties, ElementOfSeq
  <2> QED BY <2>1, LenProperties, TicksAdd DEF Entries
<1> HIDE DEF T
<1>2. 0 \in S
  BY <1>1
<1>3. ASSUME NEW m \in Nat, m \in S PROVE m + 1 \in S
  <2>1. CASE i + (m + 1) <= n
    <3>1. /\ T(i) <= T(i + m) /\ i + (m + 1) \in 1..n /\ (i + (m + 1)) - 1 = i + m
          /\ i + m \in 0..n
      BY <1>1, <1>3, <2>1
    <3>2. T(i + (m + 1)) = T(i + m) + list[i + (m + 1)].expires
      BY <1>1, <3>1, Zenon
    <3>3. list[i + (m + 1)].expires \in Int /\ list[i + (m + 1)].expires >= 0
      BY <1>1, <3>1
    <3>4. T(i) \in Int /\ T(i + m) \in Int
      BY <1>1, <3>1
    <3>5. T(i) <= T(i + (m + 1))
      BY <3>1, <3>2, <3>3, <3>4
    <3> QED BY <3>5
  <2>2. CASE ~ (i + (m + 1) <= n)
    BY <2>2
  <2> QED BY <2>1, <2>2
<1> HIDE DEF S
<1>4. Nat \subseteq S
  BY <1>2, <1>3, SetInduction
<1>5. j - i \in Nat /\ i + (j - i) = j /\ j <= n
  BY <1>1
<1> HIDE DEF n
<1>6. i + (j - i) <= n => T(i) <= T(i + (j - i))
  BY <1>4, <1>5 DEF S
<1> QED BY <1>5, <1>6 DEF T

\* The walk of add_timer ends at the first timer that runs out later.
LEMMA WalkEnds ==
    ASSUME NEW list \in Seq(Entries), NEW ticks \in Int
    PROVE  LET k == WalkEnd(list, ticks)
           IN  /\ k \in 0..Len(list)
               /\ k < Len(list) => ticks - TicksTo(list, k) < list[k + 1].expires
               /\ \A j \in 0..(k - 1) : ticks - TicksTo(list, j) >= list[j + 1].expires
<1> DEFINE n == Len(list)
           Later1(k) == k < n => ticks - TicksTo(list, k) < list[k + 1].expires
           Passed(j) == ticks - TicksTo(list, j) >= list[j + 1].expires
           Ends == {k \in 0..n : Later1(k)}
<1>1. n \in Nat
  BY LenProperties
<1>2. Ends \subseteq Nat /\ n \in Ends
  BY <1>1
<1>3. PICK least \in Ends : \A k \in Ends : least <= k
  BY <1>2, LeastNatural
<1>4. \A j \in 0..(least - 1) : Passed(j)
  <2> SUFFICES ASSUME NEW j \in 0..(least - 1) PROVE Passed(j)
    OBVIOUS
  <2>1. j \in 0..n /\ j < n /\ ~ (j \in Ends)
    BY <1>1, <1>3
  <2>2. TicksTo(list, j) \in Int /\ list[j + 1].expires \in Int
    <3>1. list[j + 1] \in Entries
      BY <1>1, <2>1, ElementOfSeq
    <3> QED BY <2>1, <3>1, TicksAdd DEF Entries
  <2> QED BY <2>1, <2>2
<1>5. \E k \in 0..n : Later1(k) /\ \A j \in 0..(k - 1) : Passed(j)
  BY <1>3, <1>4
<1> HIDE DEF n
<1>6. WalkEnd(list, ticks) = CHOOSE k \in 0..n : Later1(k) /\ \A j \in 0..(k - 1) : Passed(j)
  BY Zenon DEF WalkEnd, n
<1> HIDE DEF Later1, Passed
<1>7. /\ WalkEnd(list, ticks) \in 0..n /\ Later1(WalkEnd(list, ticks))
      /\ \A j \in 0..(WalkEnd(list, ticks) - 1) : Passed(j)
  BY <1>5, <1>6
<1> QED BY <1>7, Zenon DEF Later1, Passed, n

\* run_timer_list stops at the first timer that has ticks left.
LEMMA RunOutEnds ==
    ASSUME NEW list \in Seq(Entries)
    PROVE  LET k == RunOut(list)
           IN  /\ k \in 0..Len(list)
               /\ \A i \in 1..k : list[i].expires = 0
               /\ k < Len(list) => list[k + 1].expires # 0
<1> DEFINE n == Len(list)
           Left1(k) == k < n => list[k + 1].expires # 0
           Out(i) == list[i].expires = 0
           Ends == {k \in 0..n : Left1(k)}
<1>1. n \in Nat
  BY LenProperties
<1>2. Ends \subseteq Nat /\ n \in Ends
  BY <1>1
<1>3. PICK least \in Ends : \A k \in Ends : least <= k
  BY <1>2, LeastNatural
<1>4. \A i \in 1..least : Out(i)
  <2> SUFFICES ASSUME NEW i \in 1..least PROVE Out(i)
    OBVIOUS
  <2>1. i - 1 \in 0..n /\ ~ (i - 1 \in Ends) /\ (i - 1) + 1 = i
    BY <1>1, <1>3
  <2> QED BY <2>1
<1>5. \E k \in 0..n : (\A i \in 1..k : Out(i)) /\ Left1(k)
  BY <1>3, <1>4
<1> HIDE DEF n
<1>6. RunOut(list) = CHOOSE k \in 0..n : (\A i \in 1..k : Out(i)) /\ Left1(k)
  BY Zenon DEF RunOut, n
<1> HIDE DEF Left1, Out
<1>7. /\ RunOut(list) \in 0..n /\ Left1(RunOut(list))
      /\ \A i \in 1..RunOut(list) : Out(i)
  BY <1>5, <1>6
<1> QED BY <1>7, Zenon DEF Left1, Out, n

-------------------------------------------------------------------------------
(* What the operations make of the list *)

\* The first timer of a list gets other ticks.
LEMMA FirstChanged ==
    ASSUME NEW t \in Seq(Entries), t # <<>>, NEW d \in Int
    PROVE  LET r == [t EXCEPT ![1].expires = d]
           IN  /\ r \in Seq(Entries) /\ Len(r) = Len(t)
               /\ \A j \in 1..Len(t) :
                     r[j] = IF j = 1 THEN [proc |-> t[1].proc, expires |-> d] ELSE t[j]
<1> DEFINE x == [t[1] EXCEPT !.expires = d]
           r == [t EXCEPT ![1] = x]
<1>1. Len(t) \in Nat /\ 1 \in 1..Len(t) /\ t[1] \in Entries
  BY LenProperties, EmptySeq, ElementOfSeq
<1>2. x = [proc |-> t[1].proc, expires |-> d] /\ x \in Entries
  BY <1>1 DEF Entries
<1>3. [t EXCEPT ![1].expires = d] = r
  OBVIOUS
<1> HIDE DEF x
<1>4. /\ r \in Seq(Entries) /\ Len(r) = Len(t)
      /\ \A j \in 1..Len(t) : r[j] = IF j = 1 THEN x ELSE t[j]
  BY <1>1, <1>2, ExceptSeq
<1> QED BY <1>2, <1>3, <1>4

\* r is list with a timer of p put in behind the first k, and the next one d less.
WithTimer(r, list, k, p, d) ==
    /\ r \in Seq(Entries) /\ Len(r) = Len(list) + 1
    /\ \A j \in 1..k : r[j] = list[j]
    /\ r[k + 1] = [proc |-> p, expires |-> d]
    /\ k < Len(list) => r[k + 2] = [proc |-> list[k + 1].proc,
                                    expires |-> list[k + 1].expires - d]
    /\ \A j \in (k + 2)..Len(list) : r[j + 1] = list[j]

LEMMA AddedList ==
    ASSUME NEW list \in Seq(Entries), NEW k \in 0..Len(list), NEW p \in Proc, NEW d \in Int
    PROVE  WithTimer(Inserted(list, k, [proc |-> p, expires |-> d], Later(RestOf(list, k), d)),
                     list, k, p, d)
<1> DEFINE n == Len(list)
           x == [proc |-> p, expires |-> d]
           rest == RestOf(list, k)
           t == Later(rest, d)
           r == Inserted(list, k, x, t)
<1>1. n \in Nat /\ k \in 0..n /\ x \in Entries
  BY LenProperties DEF Entries
<1>2. /\ rest \in Seq(Entries) /\ Len(rest) = n - k
      /\ \A j \in 1..(n - k) : rest[j] = list[k + j]
  BY RestProperties
<1> HIDE DEF rest
<1>3. /\ t \in Seq(Entries) /\ Len(t) = n - k
      /\ k < n => t[1] = [proc |-> list[k + 1].proc, expires |-> list[k + 1].expires - d]
      /\ \A j \in 2..(n - k) : t[j] = list[k + j]
  <2>1. CASE rest = <<>>
    <3>1. t = rest /\ n - k = 0
      BY <1>1, <1>2, <2>1 DEF Later
    <3> QED BY <1>1, <1>2, <3>1
  <2>2. CASE rest # <<>>
    <3> DEFINE e == rest[1].expires - d
    <3>1. Len(rest) \in Nat \ {0} /\ 1 \in 1..(n - k) /\ rest[1] = list[k + 1]
      BY <1>1, <1>2, <2>2, EmptySeq
    <3>2. e \in Int
      <4>1. rest[1] \in Entries
        BY <1>2, <3>1, ElementOfSeq
      <4> QED BY <4>1 DEF Entries
    <3>3. t = [rest EXCEPT ![1].expires = e]
      BY <2>2 DEF Later
    <3> DEFINE u == [rest EXCEPT ![1].expires = e]
    <3> HIDE DEF e, t
    <3>4. /\ t \in Seq(Entries) /\ Len(t) = Len(rest)
          /\ \A j \in 1..Len(rest) :
                t[j] = IF j = 1 THEN [proc |-> rest[1].proc, expires |-> e] ELSE rest[j]
      <4>1. /\ u \in Seq(Entries) /\ Len(u) = Len(rest)
            /\ \A j \in 1..Len(rest) :
                  u[j] = IF j = 1 THEN [proc |-> rest[1].proc, expires |-> e] ELSE rest[j]
        BY <1>2, <2>2, <3>2, FirstChanged, Zenon
      <4>2. t = u
        BY <3>3
      <4> HIDE DEF u
      <4> QED BY <4>1, <4>2
    <3>5. t[1] = [proc |-> list[k + 1].proc, expires |-> list[k + 1].expires - d]
      BY <1>2, <3>1, <3>4 DEF e
    <3>6. \A j \in 2..(n - k) : t[j] = list[k + j]
      BY <1>1, <1>2, <3>4
    <3> QED BY <1>2, <3>4, <3>5, <3>6
  <2> QED BY <2>1, <2>2
<1> HIDE DEF t, x
<1>4. /\ r \in Seq(Entries) /\ Len(r) = k + 1 + Len(t)
      /\ \A j \in 1..k : r[j] = list[j]
      /\ r[k + 1] = x
      /\ \A j \in 1..Len(t) : r[k + 1 + j] = t[j]
  <2>1. t \in Seq(Entries) /\ x \in Entries
    BY <1>1, <1>3
  <2>2. r \in Seq(Entries)
    BY <2>1, InsertedProperties
  <2>3. Len(r) = k + 1 + Len(t)
    BY <2>1, InsertedProperties
  <2>4. \A j \in 1..k : r[j] = list[j]
    BY <2>1, InsertedProperties
  <2>5. r[k + 1] = x
    BY <2>1, InsertedProperties
  <2>6. \A j \in 1..Len(t) : r[k + 1 + j] = t[j]
    BY <2>1, InsertedProperties
  <2> QED BY <2>2, <2>3, <2>4, <2>5, <2>6
<1> HIDE DEF r, n
<1>5. k < n => r[k + 2] = [proc |-> list[k + 1].proc, expires |-> list[k + 1].expires - d]
  <2> SUFFICES ASSUME k < n PROVE r[k + 2] = t[1]
    BY <1>3
  <2>1. 1 \in 1..Len(t) /\ k + 1 + 1 = k + 2
    BY <1>1, <1>3
  <2> QED BY <1>4, <2>1
<1>6. ASSUME NEW j \in (k + 2)..n PROVE r[j + 1] = list[j]
  <2> DEFINE l == j - k
  <2>1. l \in 2..(n - k) /\ l \in 1..Len(t) /\ k + 1 + l = j + 1 /\ k + l = j
    BY <1>1, <1>3
  <2> HIDE DEF l
  <2>2. r[k + 1 + l] = t[l] /\ t[l] = list[k + l]
    BY <1>3, <1>4, <2>1
  <2> QED BY <2>1, <2>2
<1>7. Len(r) = n + 1
  BY <1>1, <1>3, <1>4
<1>8. WithTimer(r, list, k, p, d)
  BY <1>4, <1>5, <1>6, <1>7 DEF WithTimer, n, x
<1> QED BY <1>8 DEF r, n, x, t, rest

LEMMA AddedTicks ==
    ASSUME NEW list \in Seq(Entries), NEW k \in 0..Len(list), NEW p \in Proc, NEW d \in Int,
           NEW r, WithTimer(r, list, k, p, d)
    PROVE  /\ \A j \in 0..k : TicksTo(r, j) = TicksTo(list, j)
           /\ TicksTo(r, k + 1) = TicksTo(list, k) + d
           /\ \A j \in (k + 1)..Len(list) : TicksTo(r, j + 1) = TicksTo(list, j)
<1> DEFINE n == Len(list)
           T(j) == TicksTo(list, j)
           e(j) == list[j].expires
           f == [j \in 0..(n + 1) |->
                    IF j <= k THEN T(j) ELSE IF j = k + 1 THEN T(k) + d ELSE T(j - 1)]
<1>1. /\ n \in Nat /\ T(0) = 0
      /\ \A j \in 1..n : T(j) = T(j - 1) + e(j)
      /\ \A j \in 0..n : T(j) \in Int
      /\ \A j \in 1..n : e(j) \in Int
  <2>1. \A j \in 1..n : list[j] \in Entries
    BY LenProperties, ElementOfSeq
  <2> QED BY <2>1, LenProperties, TicksAdd DEF Entries
<1>2. /\ \A j \in 1..k : r[j].expires = e(j)
      /\ r[k + 1].expires = d
      /\ k < n => r[k + 2].expires = e(k + 1) - d
      /\ \A j \in (k + 2)..n : r[j + 1].expires = e(j)
      /\ r \in Seq(Entries) /\ Len(r) = n + 1
  BY DEF WithTimer
<1> HIDE DEF n, T, e
<1>3. f[0] = 0
  BY <1>1
<1>4. ASSUME NEW j \in 1..(n + 1) PROVE f[j] = f[j - 1] + r[j].expires
  <2>1. CASE j <= k
    <3>1. f[j] = T(j) /\ f[j - 1] = T(j - 1) /\ r[j].expires = e(j) /\ j \in 1..n
      BY <1>1, <1>2, <2>1 DEF n
    <3> QED BY <1>1, <3>1
  <2>2. CASE j = k + 1
    <3>1. f[j] = T(k) + d /\ f[j - 1] = T(k)
      <4>1. j \in 0..(n + 1) /\ j - 1 \in 0..(n + 1) /\ ~ (j <= k) /\ j - 1 <= k /\ j - 1 = k
        BY <1>1, <2>2
      <4> QED BY <2>2, <4>1
    <3>2. r[j].expires = d
      BY <1>2, <2>2
    <3> QED BY <3>1, <3>2
  <2>3. CASE j = k + 2
    <3>1. /\ j - 1 = k + 1 /\ ~ (j <= k) /\ j # k + 1 /\ ~ (j - 1 <= k) /\ k < n
          /\ k + 1 \in 1..n /\ (k + 1) - 1 = k /\ k \in 0..n /\ j - 1 \in 0..(n + 1)
      <4>1. n \in Nat /\ k \in 0..n
        BY <1>1 DEF n
      <4> QED BY <2>3, <4>1
    <3>3. f[j] = T(k + 1) /\ f[j - 1] = T(k) + d
      BY <3>1
    <3>4. T(k + 1) = T(k) + e(k + 1) /\ T(k) \in Int /\ e(k + 1) \in Int
      BY <1>1, <3>1
    <3>2. r[j].expires = e(k + 1) - d
      BY <1>2, <2>3, <3>1
    <3> QED BY <3>2, <3>3, <3>4
  <2>4. CASE j > k + 2
    <3>1. /\ f[j] = T(j - 1) /\ f[j - 1] = T((j - 1) - 1) /\ j - 1 \in 1..n
          /\ j - 1 \in (k + 2)..n /\ (j - 1) + 1 = j
      BY <1>1, <2>4 DEF n
    <3>2. r[j].expires = e(j - 1)
      BY <1>2, <3>1
    <3> QED BY <1>1, <3>1, <3>2
  <2> QED BY <1>1, <2>1, <2>2, <2>3, <2>4 DEF n
<1> HIDE DEF f
<1>5. \A j \in 0..(n + 1) : TicksTo(r, j) = f[j]
  <2>1. Len(r) = n + 1
    BY <1>2
  <2>2. \A j \in 1..Len(r) : f[j] = f[j - 1] + r[j].expires
    BY <1>4, <2>1
  <2>3. \A j \in 0..Len(r) : TicksTo(r, j) = f[j]
    BY <1>2, <1>3, <2>2, TicksUnique, Zenon
  <2> QED BY <2>1, <2>3
<1>6. \A j \in 0..k : f[j] = T(j)
  BY <1>1 DEF f, n
<1>7. f[k + 1] = T(k) + d
  BY <1>1 DEF f, n
<1>8. \A j \in (k + 1)..n : f[j + 1] = T(j)
  BY <1>1 DEF f, n
<1>9. /\ \A j \in 0..k : j \in 0..(n + 1)
      /\ k + 1 \in 0..(n + 1)
      /\ \A j \in (k + 1)..n : j + 1 \in 0..(n + 1)
  BY <1>1 DEF n
<1> QED BY <1>5, <1>6, <1>7, <1>8, <1>9 DEF T, n

\* del_timer gives the ticks of the timer it takes out to the one behind it.
LEMMA DeletedList ==
    ASSUME NEW list \in Seq(Entries), NEW m \in 0..(Len(list) - 1), NEW d \in Int
    PROVE  LET r == Rejoined(list, m, Sooner(RestOf(list, m + 1), d))
           IN  /\ r \in Seq(Entries) /\ Len(r) = Len(list) - 1
               /\ \A j \in 1..m : r[j] = list[j]
               /\ m + 1 < Len(list) => r[m + 1] = [proc |-> list[m + 2].proc,
                                                   expires |-> list[m + 2].expires + d]
               /\ \A j \in (m + 2)..(Len(list) - 1) : r[j] = list[j + 1]
<1> DEFINE n == Len(list)
           i == m + 1
           rest == RestOf(list, i)
           t == Sooner(rest, d)
           r == Rejoined(list, m, t)
<1>1. n \in Nat /\ m \in 0..n /\ i \in 1..n /\ i \in 0..n
  BY LenProperties
<1> HIDE DEF i
<1>2. /\ rest \in Seq(Entries) /\ Len(rest) = n - i
      /\ \A j \in 1..(n - i) : rest[j] = list[i + j]
  BY <1>1, RestProperties
<1> HIDE DEF rest
<1>3. /\ t \in Seq(Entries) /\ Len(t) = n - i
      /\ i < n => t[1] = [proc |-> list[i + 1].proc, expires |-> list[i + 1].expires + d]
      /\ \A j \in 2..(n - i) : t[j] = list[i + j]
  <2>1. CASE rest = <<>>
    <3>1. t = rest /\ n - i = 0
      BY <1>1, <1>2, <2>1 DEF Sooner
    <3> QED BY <1>1, <1>2, <3>1
  <2>2. CASE rest # <<>>
    <3> DEFINE e == rest[1].expires + d
               u == [rest EXCEPT ![1].expires = e]
    <3>1. Len(rest) \in Nat \ {0} /\ 1 \in 1..(n - i) /\ rest[1] = list[i + 1]
      BY <1>1, <1>2, <2>2, EmptySeq
    <3>2. e \in Int
      <4>1. rest[1] \in Entries
        BY <1>2, <3>1, ElementOfSeq
      <4> QED BY <4>1 DEF Entries
    <3>3. t = u
      BY <2>2 DEF Sooner
    <3> HIDE DEF e, t
    <3>4. /\ t \in Seq(Entries) /\ Len(t) = Len(rest)
          /\ \A j \in 1..Len(rest) :
                t[j] = IF j = 1 THEN [proc |-> rest[1].proc, expires |-> e] ELSE rest[j]
      <4>1. /\ u \in Seq(Entries) /\ Len(u) = Len(rest)
            /\ \A j \in 1..Len(rest) :
                  u[j] = IF j = 1 THEN [proc |-> rest[1].proc, expires |-> e] ELSE rest[j]
        BY <1>2, <2>2, <3>2, FirstChanged, Zenon
      <4> HIDE DEF u
      <4> QED BY <3>3, <4>1
    <3>5. t[1] = [proc |-> list[i + 1].proc, expires |-> list[i + 1].expires + d]
      BY <1>2, <3>1, <3>4 DEF e
    <3>6. \A j \in 2..(n - i) : t[j] = list[i + j]
      BY <1>1, <1>2, <3>4
    <3> QED BY <1>2, <3>4, <3>5, <3>6
  <2> QED BY <2>1, <2>2
<1> HIDE DEF t
<1>4. /\ r \in Seq(Entries) /\ Len(r) = m + Len(t)
      /\ \A j \in 1..m : r[j] = list[j]
      /\ \A j \in 1..Len(t) : r[m + j] = t[j]
  <2>1. t \in Seq(Entries) /\ m \in 0..n
    BY <1>1, <1>3
  <2>2. r \in Seq(Entries)
    BY <2>1, RejoinedProperties
  <2>3. Len(r) = m + Len(t)
    BY <2>1, RejoinedProperties
  <2>4. \A j \in 1..m : r[j] = list[j]
    BY <2>1, RejoinedProperties
  <2>5. \A j \in 1..Len(t) : r[m + j] = t[j]
    BY <2>1, RejoinedProperties
  <2> QED BY <2>2, <2>3, <2>4, <2>5
<1> HIDE DEF r, n
<1>5. i < n => r[i] = [proc |-> list[i + 1].proc, expires |-> list[i + 1].expires + d]
  <2> SUFFICES ASSUME i < n PROVE r[i] = t[1]
    BY <1>3
  <2>1. 1 \in 1..Len(t) /\ m + 1 = i
    BY <1>1, <1>3 DEF i
  <2>2. r[m + 1] = t[1]
    BY <1>4, <2>1
  <2> QED BY <2>1, <2>2
<1>6. ASSUME NEW j \in (i + 1)..(n - 1) PROVE r[j] = list[j + 1]
  <2> DEFINE l == j - m
  <2>1. l \in 2..(n - i) /\ l \in 1..Len(t) /\ m + l = j /\ i + l = j + 1
    BY <1>1, <1>3 DEF i
  <2> HIDE DEF l
  <2>2. r[m + l] = t[l] /\ t[l] = list[i + l]
    BY <1>3, <1>4, <2>1
  <2> QED BY <2>1, <2>2
<1>7. Len(r) = n - 1 /\ m + 1 = i /\ m + 2 = i + 1
  BY <1>1, <1>3, <1>4 DEF i
<1>8. /\ r \in Seq(Entries) /\ \A j \in 1..m : r[j] = list[j]
      /\ m + 1 < n => r[m + 1] = [proc |-> list[m + 2].proc,
                                  expires |-> list[m + 2].expires + d]
      /\ \A j \in (m + 2)..(n - 1) : r[j] = list[j + 1]
  BY <1>4, <1>5, <1>6, <1>7
<1> QED BY <1>7, <1>8 DEF r, n, t, rest, i

LEMMA DeletedTicks ==
    ASSUME NEW list \in Seq(Entries), NEW m \in 0..(Len(list) - 1),
           NEW r \in Seq(Entries), Len(r) = Len(list) - 1,
           \A j \in 1..m : r[j] = list[j],
           m + 1 < Len(list) =>
              r[m + 1] = [proc |-> list[m + 2].proc,
                          expires |-> list[m + 2].expires + list[m + 1].expires],
           \A j \in (m + 2)..(Len(list) - 1) : r[j] = list[j + 1]
    PROVE  /\ \A j \in 0..m : TicksTo(r, j) = TicksTo(list, j)
           /\ \A j \in (m + 1)..(Len(list) - 1) : TicksTo(r, j) = TicksTo(list, j + 1)
<1> DEFINE n == Len(list)
           T(j) == TicksTo(list, j)
           e(j) == list[j].expires
           f == [j \in 0..(n - 1) |-> IF j <= m THEN T(j) ELSE T(j + 1)]
<1>1. /\ n \in Nat /\ T(0) = 0
      /\ \A j \in 1..n : T(j) = T(j - 1) + e(j)
      /\ \A j \in 0..n : T(j) \in Int
      /\ \A j \in 1..n : e(j) \in Int
  <2>1. \A j \in 1..n : list[j] \in Entries
    BY LenProperties, ElementOfSeq
  <2> QED BY <2>1, LenProperties, TicksAdd DEF Entries
<1>2. /\ \A j \in 1..m : r[j].expires = e(j)
      /\ m + 1 < n => r[m + 1].expires = e(m + 2) + e(m + 1)
      /\ \A j \in (m + 2)..(n - 1) : r[j].expires = e(j + 1)
  OBVIOUS
<1> HIDE DEF n, T, e
<1>3. n \in Nat /\ m \in 0..(n - 1)
  BY <1>1 DEF n
<1>4. f[0] = 0
  BY <1>1, <1>3
<1>5. ASSUME NEW j \in 1..(n - 1) PROVE f[j] = f[j - 1] + r[j].expires
  <2>1. CASE j <= m
    <3>1. f[j] = T(j) /\ f[j - 1] = T(j - 1) /\ j \in 1..m /\ j \in 1..n
      BY <1>3, <2>1
    <3> QED BY <1>1, <1>2, <3>1
  <2>2. CASE j = m + 1
    <3>1. /\ m + 1 < n /\ m + 1 \in 1..n /\ m + 2 \in 1..n /\ (m + 1) - 1 = m
          /\ (m + 2) - 1 = m + 1 /\ m \in 0..n /\ m + 1 \in 0..n
      BY <1>3, <2>2
    <3>2. f[j] = T(m + 2) /\ f[j - 1] = T(m)
      BY <1>3, <2>2
    <3>3. T(m + 2) = T(m + 1) + e(m + 2) /\ T(m + 1) = T(m) + e(m + 1)
      BY <1>1, <3>1
    <3>4. T(m) \in Int /\ e(m + 1) \in Int /\ e(m + 2) \in Int
      BY <1>1, <3>1
    <3>5. r[j].expires = e(m + 2) + e(m + 1)
      BY <1>2, <2>2, <3>1
    <3> QED BY <3>2, <3>3, <3>4, <3>5
  <2>3. CASE j > m + 1
    <3>1. f[j] = T(j + 1) /\ f[j - 1] = T((j - 1) + 1)
      BY <1>3, <2>3
    <3>2. j + 1 \in 1..n /\ (j - 1) + 1 = j /\ (j + 1) - 1 = j /\ j \in (m + 2)..(n - 1)
      BY <1>3, <2>3
    <3>3. T(j + 1) = T(j) + e(j + 1) /\ r[j].expires = e(j + 1)
      BY <1>1, <1>2, <3>2
    <3> QED BY <3>1, <3>2, <3>3
  <2> QED BY <1>3, <2>1, <2>2, <2>3
<1> HIDE DEF f
<1>6. \A j \in 0..(n - 1) : TicksTo(r, j) = f[j]
  <2>1. Len(r) = n - 1
    BY DEF n
  <2>2. \A j \in 1..Len(r) : f[j] = f[j - 1] + r[j].expires
    BY <1>5, <2>1
  <2>3. \A j \in 0..Len(r) : TicksTo(r, j) = f[j]
    BY <1>4, <2>2, TicksUnique, Zenon
  <2> QED BY <2>1, <2>3
<1>7. \A j \in 0..m : f[j] = T(j) /\ j \in 0..(n - 1)
  BY <1>3 DEF f
<1>8. \A j \in (m + 1)..(n - 1) : f[j] = T(j + 1) /\ j \in 0..(n - 1)
  BY <1>3 DEF f
<1> QED BY <1>6, <1>7, <1>8 DEF T, n

\* A tick is taken from all timers at once.
LEMMA TickedTicks ==
    ASSUME NEW list \in Seq(Entries), NEW r \in Seq(Entries), Len(r) = Len(list),
           \A j \in 1..Len(list) :
              r[j] = IF j = 1 THEN [proc |-> list[1].proc, expires |-> list[1].expires - 1]
                              ELSE list[j]
    PROVE  \A j \in 1..Len(list) : TicksTo(r, j) = TicksTo(list, j) - 1
<1> DEFINE n == Len(list)
           T(j) == TicksTo(list, j)
           e(j) == list[j].expires
           f == [j \in 0..n |-> IF j = 0 THEN 0 ELSE T(j) - 1]
<1>1. /\ n \in Nat /\ T(0) = 0
      /\ \A j \in 1..n : T(j) = T(j - 1) + e(j)
      /\ \A j \in 0..n : T(j) \in Int
      /\ \A j \in 1..n : e(j) \in Int
  <2>1. \A j \in 1..n : list[j] \in Entries
    BY LenProperties, ElementOfSeq
  <2> QED BY <2>1, LenProperties, TicksAdd DEF Entries
<1>2. \A j \in 1..n : r[j].expires = IF j = 1 THEN e(1) - 1 ELSE e(j)
  OBVIOUS
<1> HIDE DEF n, T, e
<1>3. f[0] = 0
  BY <1>1
<1>4. ASSUME NEW j \in 1..n PROVE f[j] = f[j - 1] + r[j].expires
  <2>1. T(j) = T(j - 1) + e(j) /\ T(j - 1) \in Int /\ e(j) \in Int
    BY <1>1
  <2>2. CASE j = 1
    <3>1. f[j] = T(j) - 1 /\ f[j - 1] = 0 /\ T(j - 1) = 0 /\ r[j].expires = e(j) - 1
      BY <1>1, <1>2, <2>2
    <3> QED BY <2>1, <3>1
  <2>3. CASE j # 1
    <3>1. j \in 0..n /\ j - 1 \in 0..n /\ j # 0 /\ j - 1 # 0
      BY <1>1, <2>3
    <3>2. f[j] = T(j) - 1 /\ f[j - 1] = T(j - 1) - 1
      BY <3>1
    <3>3. r[j].expires = e(j)
      BY <1>2, <2>3
    <3> QED BY <2>1, <3>2, <3>3
  <2> QED BY <2>2, <2>3
<1> HIDE DEF f
<1>5. \A j \in 0..n : TicksTo(r, j) = f[j]
  <2>1. Len(r) = n
    BY DEF n
  <2>2. \A j \in 1..Len(r) : f[j] = f[j - 1] + r[j].expires
    BY <1>4, <2>1
  <2>3. \A j \in 0..Len(r) : TicksTo(r, j) = f[j]
    BY <1>3, <2>2, TicksUnique, Zenon
  <2> QED BY <2>1, <2>3
<1>6. \A j \in 1..n : f[j] = T(j) - 1 /\ j \in 0..n
  BY <1>1 DEF f
<1> QED BY <1>5, <1>6 DEF T, n

\* The timers behind the first k count from there.
LEMMA RestTicks ==
    ASSUME NEW list \in Seq(Entries), NEW k \in 0..Len(list),
           NEW r \in Seq(Entries), Len(r) = Len(list) - k,
           \A j \in 1..(Len(list) - k) : r[j] = list[k + j]
    PROVE  \A j \in 0..(Len(list) - k) : TicksTo(r, j) = TicksTo(list, k + j) - TicksTo(list, k)
<1> DEFINE n == Len(list)
           T(j) == TicksTo(list, j)
           e(j) == list[j].expires
           f == [j \in 0..(n - k) |-> T(k + j) - T(k)]
<1>1. /\ n \in Nat /\ T(0) = 0
      /\ \A j \in 1..n : T(j) = T(j - 1) + e(j)
      /\ \A j \in 0..n : T(j) \in Int
      /\ \A j \in 1..n : e(j) \in Int
  <2>1. \A j \in 1..n : list[j] \in Entries
    BY LenProperties, ElementOfSeq
  <2> QED BY <2>1, LenProperties, TicksAdd DEF Entries
<1>2. \A j \in 1..(n - k) : r[j].expires = e(k + j)
  OBVIOUS
<1> HIDE DEF n, T, e
<1>3. n \in Nat /\ k \in 0..n
  BY <1>1 DEF n
<1>4. f[0] = 0
  <2>1. f[0] = T(k + 0) - T(k) /\ k + 0 = k
    BY <1>3
  <2>2. T(k) \in Int
    BY <1>1, <1>3
  <2> QED BY <2>1, <2>2
<1>5. ASSUME NEW j \in 1..(n - k) PROVE f[j] = f[j - 1] + r[j].expires
  <2>1. k + j \in 1..n /\ (k + j) - 1 = k + (j - 1) /\ k + (j - 1) \in 0..n
    BY <1>3
  <2>2. f[j] = T(k + j) - T(k) /\ f[j - 1] = T(k + (j - 1)) - T(k)
    BY <1>3
  <2>3. T(k + j) = T(k + (j - 1)) + e(k + j)
    BY <1>1, <2>1
  <2>4. T(k) \in Int /\ T(k + (j - 1)) \in Int /\ e(k + j) \in Int
    BY <1>1, <1>3, <2>1
  <2> QED BY <1>2, <2>2, <2>3, <2>4
<1> HIDE DEF f
<1>6. \A j \in 0..(n - k) : TicksTo(r, j) = f[j]
  <2>1. Len(r) = n - k
    BY DEF n
  <2>2. \A j \in 1..Len(r) : f[j] = f[j - 1] + r[j].expires
    BY <1>5, <2>1
  <2>3. \A j \in 0..Len(r) : TicksTo(r, j) = f[j]
    BY <1>4, <2>2, TicksUnique, Zenon
  <2> QED BY <2>1, <2>3
<1>7. \A j \in 0..(n - k) : f[j] = T(k + j) - T(k)
  BY <1>1 DEF f
<1> QED BY <1>6, <1>7 DEF T, n

-------------------------------------------------------------------------------
(* The timers of a list, whatever their order *)

\* The timer of q runs out in t ticks.
At(list, q, t) == \E j \in 1..Len(list) : list[j].proc = q /\ TicksTo(list, j) = t

OwnersOnce(list) == \A i, j \in 1..Len(list) : list[i].proc = list[j].proc => i = j

LeftIn(list, p) ==
    IF Linked(list, p)
    THEN TicksTo(list, CHOOSE i \in DOMAIN list : list[i].proc = p)
    ELSE 0

LEMMA LeftAt ==
    ASSUME NEW list \in Seq(Entries), OwnersOnce(list), NEW q, NEW t, At(list, q, t)
    PROVE  LeftIn(list, q) = t /\ Linked(list, q)
<1>1. DOMAIN list = 1..Len(list)
  BY LenProperties
<1>2. PICK j \in 1..Len(list) : list[j].proc = q /\ TicksTo(list, j) = t
  BY DEF At
<1> DEFINE i == CHOOSE l \in DOMAIN list : list[l].proc = q
<1>3. i \in DOMAIN list /\ list[i].proc = q
  BY <1>1, <1>2, Zenon
<1> HIDE DEF i
<1>4. i = j
  BY <1>1, <1>2, <1>3 DEF OwnersOnce
<1>5. Linked(list, q)
  BY <1>1, <1>2 DEF Linked
<1> QED BY <1>2, <1>4, <1>5, Zenon DEF LeftIn, i

LEMMA LinkedAt ==
    ASSUME NEW list \in Seq(Entries), NEW q
    PROVE  Linked(list, q) <=> \E t : At(list, q, t)
<1>1. DOMAIN list = 1..Len(list)
  BY LenProperties
<1> QED BY <1>1, Zenon DEF Linked, At

\* Lists with the same timer for q leave it the same ticks.
LEMMA SameLeft ==
    ASSUME NEW a \in Seq(Entries), NEW b \in Seq(Entries), OwnersOnce(a), OwnersOnce(b), NEW q,
           \A t : At(a, q, t) <=> At(b, q, t)
    PROVE  LeftIn(a, q) = LeftIn(b, q)
<1>1. CASE \E t : At(a, q, t)
  <2>1. PICK t : At(a, q, t)
    BY <1>1
  <2>2. At(b, q, t)
    BY <2>1
  <2>3. LeftIn(a, q) = t
    BY <2>1, LeftAt
  <2>4. LeftIn(b, q) = t
    BY <2>2, LeftAt
  <2> QED BY <2>3, <2>4
<1>2. CASE ~ \E t : At(a, q, t)
  <2>1. ~ Linked(a, q) /\ ~ Linked(b, q)
    BY <1>2, LinkedAt
  <2> QED BY <2>1 DEF LeftIn
<1> QED BY <1>1, <1>2

-------------------------------------------------------------------------------
(* The invariant *)

Records == [proc : Proc, expires : 0..MaxTicks]

TicksBounded == \A i \in DOMAIN timer_list : TicksTo(timer_list, i) <= MaxTicks

FiredUnlinked == \A p \in fired : ~ Linked(timer_list, p)

TimerInv == ListSound /\ TicksBounded /\ FiredUnlinked

\* What the invariant says of a list, timer by timer.
Ordered(list) ==
    /\ list \in Seq(Entries) /\ OwnersOnce(list)
    /\ \A j \in 1..Len(list) : list[j].expires >= 0 /\ TicksTo(list, j) <= MaxTicks
    /\ list # <<>> => list[1].expires > 0

LEMMA OrderedRecords ==
    ASSUME NEW list, Ordered(list)
    PROVE  list \in Seq(Records)
<1> DEFINE n == Len(list)
           T(j) == TicksTo(list, j)
<1>1. /\ n \in Nat /\ T(0) = 0
      /\ \A j \in 1..n : list[j] \in Entries
      /\ \A j \in 1..n : T(j) = T(j - 1) + list[j].expires
      /\ \A j \in 0..n : T(j) \in Int
      /\ \A j \in 1..n : T(j) <= MaxTicks /\ list[j].expires >= 0
      /\ list \in Seq(Entries)
  BY LenProperties, ElementOfSeq, TicksAdd DEF Ordered
<1>2. ASSUME NEW j \in 1..n PROVE T(0) <= T(j - 1)
  <2>1. 0 \in 0..n /\ j - 1 \in 0..n
    BY <1>1
  <2> QED BY <1>1, <2>1, TicksGrow
<1> HIDE DEF T
<1>3. ASSUME NEW j \in 1..n PROVE list[j] \in Records
  <2>1. /\ T(j) = T(j - 1) + list[j].expires /\ T(j) <= MaxTicks /\ 0 <= T(j - 1)
        /\ T(j) \in Int /\ T(j - 1) \in Int /\ list[j].expires >= 0
    BY <1>1, <1>2
  <2>2. list[j] \in Entries
    BY <1>1
  <2>3. list[j].expires \in 0..MaxTicks
    BY <2>1, <2>2, TicksAssumption DEF Entries
  <2> QED BY <2>2, <2>3 DEF Entries, Records
<1>4. list \in [1..n -> Records]
  BY <1>1, <1>3, LenProperties
<1> HIDE DEF n
<1> QED BY <1>1, <1>4, SeqDef

LEMMA OrderedList ==
    ASSUME TimerTypes, HeadPositive, LinkedOnce, TicksBounded
    PROVE  Ordered(timer_list)
<1>1. timer_list \in Seq(Records) /\ Records \subseteq Entries
  BY TicksAssumption DEF TimerTypes, Records, Entries
<1>2. timer_list \in Seq(Entries) /\ DOMAIN timer_list = 1..Len(timer_list)
  BY <1>1, SeqMonotonic, LenProperties
<1>3. \A j \in 1..Len(timer_list) : timer_list[j] \in Records
  BY <1>1, ElementOfSeq
<1>4. \A j \in 1..Len(timer_list) : timer_list[j].expires >= 0
  BY <1>3, TicksAssumption DEF Records
<1> QED BY <1>2, <1>4 DEF Ordered, OwnersOnce, LinkedOnce, TicksBounded, HeadPositive

\* No timer of such a list has run out.
LEMMA Pending ==
    ASSUME NEW list, Ordered(list)
    PROVE  /\ Len(list) \in Nat
           /\ \A j \in 1..Len(list) : /\ list[j] \in Entries /\ list[j].proc \in Proc
                                      /\ TicksTo(list, j) \in 1..MaxTicks
<1> DEFINE n == Len(list)
           T(j) == TicksTo(list, j)
<1>1. /\ n \in Nat /\ T(0) = 0
      /\ \A j \in 1..n : list[j] \in Entries
      /\ \A j \in 1..n : T(j) = T(j - 1) + list[j].expires
      /\ \A j \in 0..n : T(j) \in Int
      /\ \A j \in 1..n : T(j) <= MaxTicks /\ list[j].expires >= 0
      /\ list \in Seq(Entries)
  BY LenProperties, ElementOfSeq, TicksAdd DEF Ordered
<1>2. ASSUME NEW j \in 1..n PROVE T(j) \in 1..MaxTicks
  <2>1. 1 \in 0..n /\ j \in 1..n /\ list # <<>> /\ 1 \in 1..n
    BY <1>1
  <2>2. T(1) <= T(j)
    BY <1>1, <2>1, TicksGrow
  <2>3. T(1) = T(1 - 1) + list[1].expires /\ T(1) \in Int
    BY <1>1, <2>1
  <2>4. list[1].expires > 0 /\ list[1].expires \in Int
    BY <1>1, <2>1 DEF Ordered, Entries
  <2>5. T(1) >= 1
    BY <1>1, <2>3, <2>4
  <2> HIDE DEF T
  <2>6. T(j) \in Int /\ T(j) <= MaxTicks
    BY <1>1
  <2> QED BY <2>2, <2>3, <2>5, <2>6, TicksAssumption
<1> QED BY <1>1, <1>2 DEF Entries

-------------------------------------------------------------------------------
(* What the operations do to the timers *)

\* A timer that is added runs out when it should, and so do all others.
LEMMA AddOrdered ==
    ASSUME Ordered(timer_list), NEW p \in Proc, NEW ticks \in 1..MaxTicks,
           ~ Linked(timer_list, p), add_timer(p, ticks)
    PROVE  /\ Ordered(timer_list')
           /\ \A q, t : At(timer_list', q, t) <=> At(timer_list, q, t) \/ (q = p /\ t = ticks)
<1> DEFINE list == timer_list
           n == Len(list)
           k == WalkEnd(list, ticks)
           T(j) == TicksTo(list, j)
           d == ticks - T(k)
           r == timer_list'
           U(j) == TicksTo(r, j)
<1>1. list \in Seq(Entries) /\ ticks \in Int /\ MaxTicks \in Nat
  BY TicksAssumption DEF Ordered
<1>2. /\ k \in 0..n
      /\ k < n => ticks - T(k) < list[k + 1].expires
      /\ \A j \in 0..(k - 1) : ticks - T(j) >= list[j + 1].expires
  BY <1>1, WalkEnds
<1>3. r = Inserted(list, k, [proc |-> p, expires |-> d], Later(RestOf(list, k), d))
  BY DEF add_timer, Inserted, RestOf
<1> HIDE DEF k
<1>4. /\ n \in Nat /\ T(0) = 0
      /\ \A j \in 1..n : T(j) = T(j - 1) + list[j].expires
      /\ \A j \in 0..n : T(j) \in Int
      /\ \A j \in 1..n : list[j] \in Entries /\ list[j].expires \in Nat
      /\ \A j \in 1..n : T(j) \in 1..MaxTicks
  <2>1. \A j \in 1..n : list[j] \in Entries /\ T(j) \in 1..MaxTicks
    BY Pending
  <2>2. \A j \in 1..n : list[j].expires \in Nat
    BY <2>1 DEF Ordered, Entries
  <2> QED BY <1>1, <2>1, <2>2, LenProperties, TicksAdd
<1> HIDE DEF T
<1>5. d \in Int
  BY <1>1, <1>2, <1>4
<1> HIDE DEF d
<1>x. WithTimer(r, list, k, p, d)
  BY <1>1, <1>2, <1>3, <1>5, AddedList, Zenon
<1>6. /\ r \in Seq(Entries) /\ Len(r) = n + 1
      /\ \A j \in 1..k : r[j] = list[j]
      /\ r[k + 1] = [proc |-> p, expires |-> d]
      /\ k < n => r[k + 2] = [proc |-> list[k + 1].proc, expires |-> list[k + 1].expires - d]
      /\ \A j \in (k + 2)..n : r[j + 1] = list[j]
  BY <1>x DEF WithTimer
<1> HIDE DEF r
<1>7. /\ \A j \in 0..k : U(j) = T(j)
      /\ U(k + 1) = T(k) + d
      /\ \A j \in (k + 1)..n : U(j + 1) = T(j)
  BY <1>1, <1>2, <1>5, <1>x, AddedTicks DEF T
<1> HIDE DEF U, n, list
<1>8. /\ n \in Nat /\ k \in 0..n /\ T(k) \in Int /\ U(k + 1) = ticks
      /\ d = ticks - T(k) /\ d \in Int
  BY <1>1, <1>2, <1>4, <1>5, <1>7 DEF d
<1>9. \A j \in (k + 1)..n : r[j + 1].proc = list[j].proc /\ j + 1 \in 1..(n + 1)
  <2> SUFFICES ASSUME NEW j \in (k + 1)..n
               PROVE  r[j + 1].proc = list[j].proc /\ j + 1 \in 1..(n + 1)
    OBVIOUS
  <2>1. CASE j = k + 1
    <3>1. k < n /\ j + 1 = k + 2 /\ j + 1 \in 1..(n + 1)
      BY <1>8, <2>1
    <3> QED BY <1>6, <2>1, <3>1
  <2>2. CASE j > k + 1
    <3>1. j \in (k + 2)..n /\ j + 1 \in 1..(n + 1)
      BY <1>8, <2>2
    <3> QED BY <1>6, <3>1
  <2> QED BY <1>8, <2>1, <2>2
\* Where the timers of the new list were in the old one.
<1>10. ASSUME NEW i \in 1..(n + 1)
       PROVE  \/ i = k + 1
              \/ /\ i <= k /\ i \in 1..n /\ r[i] = list[i] /\ U(i) = T(i)
              \/ /\ i > k + 1 /\ i - 1 \in (k + 1)..n /\ i - 1 \in 1..n
                 /\ r[i].proc = list[i - 1].proc /\ U(i) = T(i - 1)
  <2>1. CASE i <= k
    <3>1. i \in 1..n /\ i \in 1..k /\ i \in 0..k
      BY <1>8, <2>1
    <3> QED BY <1>6, <1>7, <2>1, <3>1
  <2>2. CASE i > k + 1
    <3>1. i - 1 \in (k + 1)..n /\ (i - 1) + 1 = i /\ i - 1 \in 1..n
      BY <1>8, <2>2
    <3>2. r[(i - 1) + 1].proc = list[i - 1].proc /\ U((i - 1) + 1) = T(i - 1)
      BY <1>7, <1>9, <3>1
    <3> QED BY <2>2, <3>1, <3>2
  <2> QED BY <1>8, <2>1, <2>2
<1>11. d >= 0 /\ (k = 0 => d > 0) /\ (k < n => d < list[k + 1].expires)
  <2>1. CASE k = 0
    BY <1>2, <1>4, <1>8, <2>1
  <2>2. CASE k > 0
    <3>1. k - 1 \in 0..(k - 1) /\ (k - 1) + 1 = k /\ k \in 1..n /\ k - 1 \in 0..n
      BY <1>8, <2>2
    <3>2. ticks - T(k - 1) >= list[k].expires /\ T(k) = T(k - 1) + list[k].expires
      BY <1>2, <1>4, <3>1
    <3>3. T(k - 1) \in Int /\ list[k].expires \in Int
      BY <1>4, <3>1
    <3> QED BY <1>1, <1>2, <1>8, <2>2, <3>2, <3>3
  <2> QED BY <1>8, <2>1, <2>2
<1>12. \A j \in 1..n : list[j].proc # p
  <2>1. DOMAIN list = 1..n
    BY <1>1, LenProperties DEF n
  <2> QED BY <2>1 DEF Linked, list
<1>13. OwnersOnce(list) /\ (list # <<>> => list[1].expires > 0)
  BY DEF Ordered, list
<1>14. r[k + 1].proc = p /\ r[k + 1].expires = d /\ k + 1 \in 1..(n + 1)
  BY <1>6, <1>8
<1>15. ASSUME NEW i \in 1..(n + 1), NEW j \in 1..(n + 1), r[i].proc = r[j].proc
       PROVE  i = j
  <2>1. CASE i = k + 1
    BY <1>8, <1>10, <1>12, <1>14, <1>15, <2>1
  <2>2. CASE j = k + 1
    BY <1>8, <1>10, <1>12, <1>14, <1>15, <2>2
  <2>3. CASE i # k + 1 /\ j # k + 1
    <3> DEFINE G(l) == IF l <= k THEN l ELSE l - 1
    <3>1. /\ G(i) \in 1..n /\ r[i].proc = list[G(i)].proc
          /\ G(j) \in 1..n /\ r[j].proc = list[G(j)].proc
      BY <1>8, <1>10, <2>3
    <3>2. G(i) = G(j) => i = j
      BY <1>8, <2>3
    <3> HIDE DEF G
    <3> QED BY <1>13, <1>15, <3>1, <3>2 DEF OwnersOnce, n
  <2> QED BY <2>1, <2>2, <2>3
<1>16. ASSUME NEW i \in 1..(n + 1) PROVE r[i].expires >= 0 /\ U(i) <= MaxTicks
  <2>1. CASE i = k + 1
    BY <1>8, <1>11, <1>14, <2>1
  <2>2. CASE i <= k
    <3>1. i \in 1..n /\ r[i] = list[i] /\ U(i) = T(i)
      BY <1>8, <1>10, <2>2
    <3> QED BY <1>4, <3>1
  <2>3. CASE i = k + 2
    <3>1. k < n /\ i - 1 = k + 1 /\ k + 1 \in 1..n /\ U(i) = T(k + 1)
      BY <1>8, <1>10, <2>3
    <3>2. r[i].expires = list[k + 1].expires - d /\ list[k + 1].expires \in Nat
      <4>1. r[k + 2] = [proc |-> list[k + 1].proc, expires |-> list[k + 1].expires - d]
        BY <1>6, <3>1
      <4>2. list[k + 1].expires \in Nat
        BY <1>4, <3>1
      <4> QED BY <2>3, <4>1, <4>2
    <3>3. T(k + 1) <= MaxTicks
      BY <1>1, <1>4, <3>1
    <3>4. d < list[k + 1].expires /\ d \in Int
      BY <1>5, <1>11, <3>1
    <3> QED BY <3>1, <3>2, <3>3, <3>4
  <2>4. CASE i > k + 2
    <3>1. i - 1 \in (k + 2)..n /\ i - 1 \in 1..n /\ (i - 1) + 1 = i
      BY <1>8, <2>4
    <3>2. r[i] = list[i - 1] /\ U(i) = T(i - 1)
      BY <1>6, <1>7, <1>8, <1>10, <2>4, <3>1
    <3> QED BY <1>4, <3>1, <3>2
  <2> QED BY <1>8, <2>1, <2>2, <2>3, <2>4
<1>17. r[1].expires > 0
  <2>1. CASE k = 0
    BY <1>11, <1>14, <2>1
  <2>2. CASE k > 0
    <3>1. 1 \in 1..k /\ list # <<>>
      BY <1>8, <2>2 DEF n
    <3>2. r[1] = list[1]
      BY <1>6, <3>1
    <3> QED BY <1>13, <3>1, <3>2
  <2> QED BY <1>8, <2>1, <2>2
<1>18. Ordered(r)
  BY <1>6, <1>15, <1>16, <1>17 DEF Ordered, OwnersOnce, U
<1>19. ASSUME NEW q, NEW t, At(r, q, t)
       PROVE  At(list, q, t) \/ (q = p /\ t = ticks)
  <2>1. PICK i \in 1..(n + 1) : r[i].proc = q /\ U(i) = t
    BY <1>6, <1>19 DEF At, U
  <2>2. i = k + 1 \/ \E j \in 1..n : list[j].proc = q /\ T(j) = t
    BY <1>10, <2>1
  <2> QED BY <1>8, <1>14, <2>1, <2>2 DEF At, T, n
<1>20. ASSUME NEW q, NEW t, At(list, q, t) \/ (q = p /\ t = ticks)
       PROVE  At(r, q, t)
  <2>1. CASE q = p /\ t = ticks
    BY <1>6, <1>8, <1>14, <2>1 DEF At, U
  <2>2. CASE At(list, q, t)
    <3>1. PICK j \in 1..n : list[j].proc = q /\ T(j) = t
      BY <2>2 DEF At, T, n
    <3>2. CASE j <= k
      <4>1. j \in 1..k /\ j \in 0..k /\ j \in 1..(n + 1)
        BY <1>8, <3>2
      <4>2. r[j].proc = q /\ U(j) = t
        BY <1>6, <1>7, <3>1, <4>1
      <4> QED BY <1>6, <4>1, <4>2 DEF At, U
    <3>3. CASE j > k
      <4>1. j \in (k + 1)..n
        BY <1>8, <3>3
      <4>2. j + 1 \in 1..(n + 1) /\ r[j + 1].proc = q /\ U(j + 1) = t
        BY <1>7, <1>9, <3>1, <4>1
      <4> QED BY <1>6, <4>2 DEF At, U
    <3> QED BY <1>8, <3>2, <3>3
  <2> QED BY <1>20, <2>1, <2>2
<1> QED BY <1>18, <1>19, <1>20 DEF r, list

\* A timer that is taken out leaves the others what they had.
LEMMA DelOrdered ==
    ASSUME Ordered(timer_list), NEW p \in Proc, Linked(timer_list, p), del_timer(p)
    PROVE  /\ Ordered(timer_list')
           /\ \A q, t : At(timer_list', q, t) <=> At(timer_list, q, t) /\ q # p
<1> DEFINE list == timer_list
           n == Len(list)
           i == CHOOSE l \in DOMAIN list : list[l].proc = p
           m == i - 1
           T(j) == TicksTo(list, j)
           d == list[i].expires
           r == timer_list'
           U(j) == TicksTo(r, j)
<1>1. list \in Seq(Entries) /\ n \in Nat /\ DOMAIN list = 1..n
  BY LenProperties DEF Ordered
<1>2. i \in 1..n /\ list[i].proc = p
  <2>1. \E l \in DOMAIN list : list[l].proc = p
    BY DEF Linked
  <2> QED BY <1>1, <2>1, Zenon
<1>3. r = Rejoined(list, m, Sooner(RestOf(list, i), d))
  <2>1. r = SubSeq(list, 1, i - 1)
            \o Sooner(SubSeq(list, i + 1, Len(list)), list[i].expires)
    BY Zenon DEF del_timer
  <2> QED BY <2>1 DEF Rejoined, RestOf
<1> HIDE DEF i
<1>4. m \in 0..(n - 1) /\ m + 1 = i /\ m + 2 = i + 1
  BY <1>1, <1>2
<1> HIDE DEF m
<1>5. /\ T(0) = 0
      /\ \A j \in 1..n : list[j] \in Entries /\ list[j].expires \in Nat
      /\ \A j \in 1..n : T(j) \in 1..MaxTicks
  <2>1. \A j \in 1..n : list[j] \in Entries /\ T(j) \in 1..MaxTicks
    BY Pending
  <2>2. \A j \in 1..n : list[j].expires \in Nat
    BY <2>1 DEF Ordered, Entries
  <2> QED BY <1>1, <2>1, <2>2, TicksAdd
<1> HIDE DEF T
<1>6. d \in Nat
  BY <1>2, <1>5
<1>7. r = Rejoined(list, m, Sooner(RestOf(list, m + 1), d))
  BY <1>3, <1>4
<1>8. /\ r \in Seq(Entries) /\ Len(r) = n - 1
      /\ \A j \in 1..m : r[j] = list[j]
      /\ m + 1 < n => r[m + 1] = [proc |-> list[m + 2].proc,
                                  expires |-> list[m + 2].expires + d]
      /\ \A j \in (m + 2)..(n - 1) : r[j] = list[j + 1]
  <2> DEFINE w == Rejoined(list, m, Sooner(RestOf(list, m + 1), d))
  <2>1. list \in Seq(Entries) /\ m \in 0..(Len(list) - 1) /\ d \in Int
    BY <1>1, <1>4, <1>6
  <2> HIDE DEF d, list
  <2>2. w \in Seq(Entries)
    BY <2>1, DeletedList
  <2>3. Len(w) = n - 1
    BY <2>1, DeletedList
  <2>4. \A j \in 1..m : w[j] = list[j]
    BY <2>1, DeletedList
  <2>5. m + 1 < n => w[m + 1] = [proc |-> list[m + 2].proc,
                                 expires |-> list[m + 2].expires + d]
    BY <2>1, DeletedList
  <2>6. \A j \in (m + 2)..(n - 1) : w[j] = list[j + 1]
    BY <2>1, DeletedList
  <2>7. r = w
    BY <1>7
  <2> HIDE DEF w, r, n
  <2> QED BY <2>2, <2>3, <2>4, <2>5, <2>6, <2>7
<1> HIDE DEF r
<1>9. /\ \A j \in 0..m : U(j) = T(j)
      /\ \A j \in (m + 1)..(n - 1) : U(j) = T(j + 1)
  BY <1>1, <1>4, <1>8, DeletedTicks DEF T
<1> HIDE DEF U, n, list, d
<1>10. OwnersOnce(list) /\ (list # <<>> => list[1].expires > 0)
  BY DEF Ordered, list
<1>11. n \in Nat /\ m \in 0..(n - 1) /\ i \in 1..n /\ MaxTicks \in Nat
  BY <1>1, <1>2, <1>4, TicksAssumption
\* Where the timers that are left were in the old list.
<1>12. ASSUME NEW j \in 1..(n - 1)
       PROVE  /\ j <= m => j \in 1..n /\ r[j] = list[j] /\ U(j) = T(j)
              /\ j > m => /\ j + 1 \in 1..n /\ U(j) = T(j + 1)
                          /\ r[j].proc = list[j + 1].proc
                          /\ r[j].expires = IF j = m + 1 THEN list[j + 1].expires + d
                                                         ELSE list[j + 1].expires
  <2>1. CASE j <= m
    <3>1. j \in 1..n /\ j \in 1..m /\ j \in 0..m
      BY <1>11, <2>1
    <3> QED BY <1>8, <1>9, <1>11, <2>1, <3>1
  <2>2. CASE j = m + 1
    <3>1. m + 1 < n /\ j + 1 = m + 2 /\ j + 1 \in 1..n /\ j \in (m + 1)..(n - 1)
      BY <1>11, <2>2
    <3>2. r[j] = [proc |-> list[j + 1].proc, expires |-> list[j + 1].expires + d]
      BY <1>8, <2>2, <3>1
    <3>3. U(j) = T(j + 1)
      BY <1>9, <3>1
    <3> QED BY <1>11, <2>2, <3>1, <3>2, <3>3
  <2>3. CASE j > m + 1
    <3>1. j \in (m + 2)..(n - 1) /\ j \in (m + 1)..(n - 1) /\ j + 1 \in 1..n
      BY <1>11, <2>3
    <3>2. r[j] = list[j + 1] /\ U(j) = T(j + 1)
      BY <1>8, <1>9, <3>1
    <3> QED BY <1>11, <2>3, <3>1, <3>2
  <2> QED BY <1>11, <2>1, <2>2, <2>3
<1> DEFINE G(j) == IF j <= m THEN j ELSE j + 1
<1>13. \A j \in 1..(n - 1) : /\ G(j) \in 1..n /\ G(j) # i
                             /\ r[j].proc = list[G(j)].proc /\ U(j) = T(G(j))
  BY <1>4, <1>11, <1>12
<1>14. \A j, l \in 1..(n - 1) : G(j) = G(l) => j = l
  BY <1>11
<1>15. \A l \in 1..n : l # i => \E j \in 1..(n - 1) : G(j) = l
  <2> SUFFICES ASSUME NEW l \in 1..n, l # i PROVE \E j \in 1..(n - 1) : G(j) = l
    OBVIOUS
  <2>1. CASE l < i
    <3>1. l \in 1..(n - 1) /\ G(l) = l
      BY <1>4, <1>11, <2>1
    <3> QED BY <3>1
  <2>2. CASE l > i
    <3>1. l - 1 \in 1..(n - 1) /\ G(l - 1) = l
      BY <1>4, <1>11, <2>2
    <3> QED BY <3>1
  <2> QED BY <1>11, <2>1, <2>2
<1> HIDE DEF G
<1>16. \A l \in 1..n : list[l].proc = p <=> l = i
  BY <1>2, <1>10 DEF OwnersOnce, n, list
<1>17. ASSUME NEW j \in 1..(n - 1), NEW l \in 1..(n - 1), r[j].proc = r[l].proc
       PROVE  j = l
  <2>1. G(j) = G(l)
    BY <1>10, <1>13, <1>17 DEF OwnersOnce, n
  <2> QED BY <1>14, <2>1
<1>18. ASSUME NEW j \in 1..(n - 1) PROVE r[j].expires >= 0 /\ U(j) <= MaxTicks
  <2>1. CASE j <= m
    BY <1>5, <1>12, <2>1
  <2>2. CASE j > m
    <3>1. list[j + 1].expires \in Nat /\ T(j + 1) \in 1..MaxTicks
      BY <1>5, <1>12, <2>2
    <3> QED BY <1>6, <1>11, <1>12, <2>2, <3>1
  <2> QED BY <1>11, <2>1, <2>2
<1>19. r # <<>> => r[1].expires > 0
  <2> SUFFICES ASSUME r # <<>> PROVE r[1].expires > 0
    OBVIOUS
  <2>1. 1 \in 1..(n - 1) /\ 1 \in 1..n
    BY <1>8, <1>11, EmptySeq
  <2>2. list[1].expires > 0
    BY <1>1, <1>10, <2>1 DEF n, list
  <2>3. CASE m >= 1
    BY <1>12, <2>1, <2>2, <2>3
  <2>4. CASE m = 0
    <3>1. r[1].expires = list[2].expires + d /\ i = 1 /\ 2 \in 1..n
      BY <1>4, <1>11, <1>12, <2>1, <2>4
    <3>2. d > 0 /\ list[2].expires \in Nat
      BY <1>5, <2>2, <3>1 DEF d
    <3> QED BY <1>6, <3>1, <3>2
  <2> QED BY <1>11, <2>3, <2>4
<1>20. Ordered(r)
  BY <1>8, <1>17, <1>18, <1>19 DEF Ordered, OwnersOnce, U
<1>21. ASSUME NEW q, NEW t, At(r, q, t) PROVE At(list, q, t) /\ q # p
  <2>1. PICK j \in 1..(n - 1) : r[j].proc = q /\ U(j) = t
    BY <1>8, <1>21 DEF At, U
  <2>2. G(j) \in 1..n /\ G(j) # i /\ list[G(j)].proc = q /\ T(G(j)) = t
    BY <1>13, <2>1
  <2> QED BY <1>16, <2>2 DEF At, T, n
<1>22. ASSUME NEW q, NEW t, At(list, q, t), q # p PROVE At(r, q, t)
  <2>1. PICK l \in 1..n : list[l].proc = q /\ T(l) = t
    BY <1>22 DEF At, T, n
  <2>2. PICK j \in 1..(n - 1) : G(j) = l
    BY <1>15, <1>16, <1>22, <2>1
  <2>3. r[j].proc = q /\ U(j) = t
    BY <1>13, <2>1, <2>2
  <2> QED BY <1>8, <2>3 DEF At, U
<1> QED BY <1>20, <1>21, <1>22 DEF r, list

\* Timers with no ticks between them run out together.
LEMMA NoTicks ==
    ASSUME NEW list \in Seq(Entries), NEW k \in 0..Len(list),
           \A i \in 1..k : list[i].expires = 0
    PROVE  \A i \in 0..k : TicksTo(list, i) = 0
<1> DEFINE n == Len(list)
           T(j) == TicksTo(list, j)
           S == {m \in Nat : m <= k => T(m) = 0}
<1>1. /\ n \in Nat /\ k \in 0..n
      /\ T(0) = 0 /\ \A j \in 1..n : T(j) = T(j - 1) + list[j].expires
  BY LenProperties, TicksAdd
<1> HIDE DEF T, n
<1>2. 0 \in S
  BY <1>1
<1>3. ASSUME NEW m \in Nat, m \in S PROVE m + 1 \in S
  <2>1. CASE m + 1 <= k
    <3>1. T(m) = 0 /\ m + 1 \in 1..n /\ (m + 1) - 1 = m /\ m + 1 \in 1..k
      BY <1>1, <1>3, <2>1
    <3>2. T(m + 1) = T(m) + list[m + 1].expires /\ list[m + 1].expires = 0
      BY <1>1, <3>1, Zenon
    <3> QED BY <3>1, <3>2
  <2>2. CASE ~ (m + 1 <= k)
    BY <2>2
  <2> QED BY <2>1, <2>2
<1> HIDE DEF S
<1>4. Nat \subseteq S
  BY <1>2, <1>3, SetInduction
<1> QED BY <1>1, <1>4 DEF S, T

\* A tick takes out the timers that had one tick left, and takes a tick from the
\* others.
LEMMA TickOrdered ==
    ASSUME Ordered(timer_list), timer_list # <<>>
    PROVE  LET ticked == [timer_list EXCEPT ![1].expires = @ - 1]
               k == RunOut(ticked)
               r == SubSeq(ticked, k + 1, Len(ticked))
           IN  /\ Ordered(r)
               /\ Due(ticked, k) = {q \in Proc : At(timer_list, q, 1)}
               /\ \A q : \A t \in Int : At(r, q, t) <=> At(timer_list, q, t + 1) /\ t >= 1
<1> DEFINE ticked == [timer_list EXCEPT ![1].expires = @ - 1]
           k == RunOut(ticked)
           r == SubSeq(ticked, k + 1, Len(ticked))
           list == timer_list
           n == Len(list)
           T(j) == TicksTo(list, j)
           e(j) == list[j].expires
           V(j) == TicksTo(ticked, j)
           U(j) == TicksTo(r, j)
<1>1. list \in Seq(Entries) /\ OwnersOnce(list) /\ MaxTicks \in Nat
  BY TicksAssumption DEF Ordered
<1>2. /\ n \in Nat /\ n >= 1
      /\ \A j \in 1..n : list[j] \in Entries /\ e(j) \in Nat
      /\ e(1) > 0
      /\ \A j \in 1..n : T(j) \in 1..MaxTicks /\ list[j].proc \in Proc
  <2>1. n \in Nat /\ \A j \in 1..n : list[j] \in Entries /\ list[j].proc \in Proc
                                     /\ T(j) \in 1..MaxTicks
    BY Pending
  <2>2. \A j \in 1..n : e(j) \in Nat
    BY <2>1 DEF Ordered, Entries
  <2>3. n >= 1
    BY <1>1, <2>1, EmptySeq
  <2> QED BY <2>1, <2>2, <2>3 DEF Ordered
<1>3. /\ ticked \in Seq(Entries) /\ Len(ticked) = n
      /\ \A j \in 1..n : ticked[j] = IF j = 1 THEN [proc |-> list[1].proc, expires |-> e(1) - 1]
                                              ELSE list[j]
  <2> DEFINE x == e(1) - 1
             y == [list EXCEPT ![1].expires = x]
  <2>1. ticked = y /\ x \in Int
    BY <1>2
  <2> HIDE DEF x
  <2>2. /\ y \in Seq(Entries) /\ Len(y) = n
        /\ \A j \in 1..n : y[j] = IF j = 1 THEN [proc |-> list[1].proc, expires |-> x]
                                            ELSE list[j]
    BY <1>1, <2>1, FirstChanged, Zenon
  <2> HIDE DEF y
  <2> QED BY <2>1, <2>2 DEF x
<1> HIDE DEF T, e, ticked
<1>4. \A j \in 1..n : V(j) = T(j) - 1
  BY <1>1, <1>3, TickedTicks DEF T, e
<1>5. /\ k \in 0..n
      /\ \A i \in 1..k : ticked[i].expires = 0
      /\ k < n => ticked[k + 1].expires # 0
  BY <1>3, RunOutEnds
<1> HIDE DEF k
<1>6. \A i \in 0..k : V(i) = 0
  BY <1>3, <1>5, NoTicks
<1>7. \A j \in 1..n : ticked[j].proc = list[j].proc /\ ticked[j].expires \in Nat
  <2>1. \A j \in 1..n : ticked[j].expires = IF j = 1 THEN e(1) - 1 ELSE e(j)
    BY <1>2, <1>3 DEF e
  <2>2. \A j \in 1..n : ticked[j].expires \in Nat
    BY <1>2, <2>1
  <2> QED BY <1>3, <2>2
<1>8. /\ r \in Seq(Entries) /\ Len(r) = n - k
      /\ \A j \in 1..(n - k) : r[j] = ticked[k + j]
  <2> DEFINE w == RestOf(ticked, k)
  <2>1. /\ w \in Seq(Entries) /\ Len(w) = n - k
        /\ \A j \in 1..(n - k) : w[j] = ticked[k + j]
    <3>1. ticked \in Seq(Entries) /\ k \in 0..Len(ticked) /\ Len(ticked) = n
      BY <1>3, <1>5
    <3>2. w \in Seq(Entries)
      BY <3>1, RestProperties
    <3>3. Len(w) = n - k
      BY <3>1, RestProperties
    <3>4. \A j \in 1..(Len(ticked) - k) : w[j] = ticked[k + j]
      BY <3>1, RestProperties
    <3> HIDE DEF w, n
    <3> QED BY <3>1, <3>2, <3>3, <3>4
  <2>2. r = w
    BY DEF RestOf
  <2> HIDE DEF w, r
  <2> QED BY <2>1, <2>2
<1> HIDE DEF r
<1>9. \A j \in 0..(n - k) : U(j) = V(k + j) - V(k)
  BY <1>3, <1>5, <1>8, RestTicks
<1> HIDE DEF U, V, n, list
<1>10. n \in Nat /\ k \in 0..n /\ V(k) = 0
  BY <1>2, <1>5, <1>6
<1>11. \A j \in 1..n : V(j) \in Int /\ T(j) = V(j) + 1
  BY <1>2, <1>4
\* Timers behind the first k have ticks left.
<1>12. ASSUME NEW j \in 1..n, j > k PROVE V(j) >= 1
  <2>1. k < n /\ k + 1 \in 1..n /\ j \in (k + 1)..n /\ k + 1 \in 0..n /\ (k + 1) - 1 = k
    BY <1>10, <1>12
  <2>2. V(k + 1) = V(k) + ticked[k + 1].expires
    BY <1>3, <2>1, TicksAdd DEF V
  <2>3. ticked[k + 1].expires \in Nat /\ ticked[k + 1].expires # 0
    BY <1>5, <1>7, <2>1
  <2>4. V(k + 1) <= V(j)
    <3>1. \A i \in 1..Len(ticked) : ticked[i].expires >= 0
      BY <1>3, <1>7
    <3> QED BY <1>3, <2>1, <3>1, TicksGrow DEF V
  <2> QED BY <1>10, <1>11, <2>1, <2>2, <2>3, <2>4
<1>13. \A j \in 1..(n - k) : /\ k + j \in 1..n /\ k + j > k
                             /\ r[j].proc = list[k + j].proc
                             /\ r[j].expires = ticked[k + j].expires
                             /\ U(j) = T(k + j) - 1
  <2> SUFFICES ASSUME NEW j \in 1..(n - k)
               PROVE  /\ k + j \in 1..n /\ k + j > k
                      /\ r[j].proc = list[k + j].proc
                      /\ r[j].expires = ticked[k + j].expires
                      /\ U(j) = T(k + j) - 1
    OBVIOUS
  <2>1. k + j \in 1..n /\ k + j > k /\ j \in 0..(n - k)
    BY <1>10
  <2>2. r[j] = ticked[k + j] /\ U(j) = V(k + j) - V(k)
    BY <1>8, <1>9, <2>1
  <2>3. V(k + j) = T(k + j) - 1 /\ T(k + j) \in Int
    BY <1>2, <1>4, <2>1
  <2> QED BY <1>7, <1>10, <2>1, <2>2, <2>3
<1>14. OwnersOnce(r)
  <2> SUFFICES ASSUME NEW i \in 1..(n - k), NEW j \in 1..(n - k), r[i].proc = r[j].proc
               PROVE  i = j
    BY <1>8 DEF OwnersOnce
  <2>1. k + i = k + j
    BY <1>1, <1>13 DEF OwnersOnce, n
  <2> QED BY <1>10, <2>1
<1>15. ASSUME NEW j \in 1..(n - k) PROVE r[j].expires >= 0 /\ U(j) <= MaxTicks
  <2>1. /\ r[j].expires \in Nat /\ U(j) = T(k + j) - 1 /\ T(k + j) \in 1..MaxTicks
    BY <1>2, <1>7, <1>13
  <2> QED BY <1>1, <2>1
<1>16. r # <<>> => r[1].expires > 0
  <2> SUFFICES ASSUME r # <<>> PROVE r[1].expires > 0
    OBVIOUS
  <2>1. 1 \in 1..(n - k) /\ k < n
    BY <1>8, <1>10, EmptySeq
  <2>2. r[1].expires = ticked[k + 1].expires /\ ticked[k + 1].expires \in Nat
    BY <1>7, <1>13, <2>1
  <2> QED BY <1>5, <2>1, <2>2
<1>17. Ordered(r)
  BY <1>8, <1>14, <1>15, <1>16 DEF Ordered, U
<1>18. Due(ticked, k) = {q \in Proc : At(list, q, 1)}
  <2>1. \A i \in 1..k : i \in 1..n /\ i \in 0..k
    BY <1>10
  <2>2. ASSUME NEW i \in 1..k PROVE ticked[i].proc \in Proc /\ At(list, ticked[i].proc, 1)
    <3>1. i \in 1..n /\ V(i) = 0
      BY <1>6, <2>1
    <3>2. T(i) = 1 /\ ticked[i].proc = list[i].proc /\ list[i].proc \in Proc
      BY <1>2, <1>7, <1>11, <3>1
    <3> QED BY <3>1, <3>2 DEF At, T, n
  <2>3. ASSUME NEW q \in Proc, At(list, q, 1) PROVE \E i \in 1..k : q = ticked[i].proc
    <3>1. PICK j \in 1..n : list[j].proc = q /\ T(j) = 1
      BY <2>3 DEF At, T, n
    <3>2. V(j) = 0
      BY <1>11, <3>1
    <3>3. j <= k
      BY <1>10, <1>12, <3>2
    <3>4. j \in 1..k
      BY <1>10, <3>3
    <3> QED BY <1>7, <3>1, <3>4
  <2> QED BY <2>2, <2>3 DEF Due
<1>19. ASSUME NEW q, NEW t \in Int, At(r, q, t) PROVE At(list, q, t + 1) /\ t >= 1
  <2>1. PICK j \in 1..(n - k) : r[j].proc = q /\ U(j) = t
    BY <1>8, <1>19 DEF At, U
  <2>2. /\ k + j \in 1..n /\ k + j > k /\ list[k + j].proc = q /\ U(j) = T(k + j) - 1
        /\ T(k + j) = V(k + j) + 1 /\ V(k + j) \in Int /\ V(k + j) >= 1
    BY <1>11, <1>12, <1>13, <2>1
  <2>3. T(k + j) = t + 1 /\ t >= 1
    BY <2>1, <2>2
  <2> QED BY <2>2, <2>3 DEF At, T, n
<1>20. ASSUME NEW q, NEW t \in Int, At(list, q, t + 1), t >= 1 PROVE At(r, q, t)
  <2>1. PICK i \in 1..n : list[i].proc = q /\ T(i) = t + 1
    BY <1>20 DEF At, T, n
  <2>2. V(i) = t
    BY <1>11, <2>1
  <2>3. i > k
    BY <1>6, <1>10, <1>20, <2>2
  <2> DEFINE j == i - k
  <2>4. j \in 1..(n - k) /\ k + j = i
    BY <1>10, <2>3
  <2> HIDE DEF j
  <2>5. r[j].proc = q /\ U(j) = t
    BY <1>13, <2>1, <2>4
  <2> QED BY <1>8, <2>4, <2>5 DEF At, U
<1> QED BY <1>17, <1>18, <1>19, <1>20 DEF list, ticked, k, r

-------------------------------------------------------------------------------
(* The invariant is inductive *)

LEMMA Kept ==
    ASSUME Ordered(timer_list'),
           asleep' \subseteq Proc, inside' \subseteq Proc, fired' \subseteq Proc,
           \A q : Linked(timer_list', q) => q \in inside',
           \A q \in asleep' : Linked(timer_list', q),
           \A q \in fired' : ~ Linked(timer_list', q)
    PROVE  TimerInv'
<1> DEFINE r == timer_list'
<1>1. r \in Seq(Records)
  BY OrderedRecords
<1>2. DOMAIN r = 1..Len(r) /\ OwnersOnce(r)
  BY <1>1, LenProperties DEF Ordered
<1>3. /\ \A j \in 1..Len(r) : TicksTo(r, j) <= MaxTicks
      /\ r # <<>> => r[1].expires > 0
  BY DEF Ordered
<1>4. TimerTypes'
  BY <1>1 DEF TimerTypes, Records
<1>5. LinkedOnce'
  <2>1. \A i \in DOMAIN r : Linked(r, r[i].proc)
    BY Zenon DEF Linked
  <2> QED BY <1>2, <2>1 DEF LinkedOnce, OwnersOnce
<1>6. SleepersLinked' /\ FiredUnlinked'
  BY DEF SleepersLinked, FiredUnlinked
<1>7. HeadPositive' /\ TicksBounded'
  BY <1>2, <1>3 DEF HeadPositive, TicksBounded
<1> QED BY <1>4, <1>5, <1>6, <1>7 DEF TimerInv, ListSound

LEMMA Given ==
    ASSUME TimerInv
    PROVE  /\ Ordered(timer_list)
           /\ asleep \subseteq Proc /\ inside \subseteq Proc /\ fired \subseteq Proc
           /\ \A q : Linked(timer_list, q) => q \in inside
           /\ \A q \in asleep : Linked(timer_list, q)
           /\ \A q \in fired : ~ Linked(timer_list, q)
<1>1. Ordered(timer_list)
  BY OrderedList DEF TimerInv, ListSound
<1>2. \A q : Linked(timer_list, q) => q \in inside
  BY DEF TimerInv, ListSound, LinkedOnce, Linked
<1> QED BY <1>1, <1>2
        DEF TimerInv, ListSound, TimerTypes, SleepersLinked, FiredUnlinked

LEMMA SleepKeeps ==
    ASSUME TimerInv, NEW p \in Proc, NEW ticks \in 1..MaxTicks, Sleep(p, ticks)
    PROVE  TimerInv'
<1>1. /\ p \notin inside /\ add_timer(p, ticks)
      /\ asleep' = asleep \cup {p} /\ inside' = inside \cup {p} /\ fired' = {}
  BY DEF Sleep
<1>2. Ordered(timer_list) /\ ~ Linked(timer_list, p)
  BY <1>1, Given
<1>3. /\ Ordered(timer_list')
      /\ \A q, t : At(timer_list', q, t) <=> At(timer_list, q, t) \/ (q = p /\ t = ticks)
  BY <1>1, <1>2, AddOrdered
<1>4. timer_list \in Seq(Entries) /\ timer_list' \in Seq(Entries)
  BY <1>2, <1>3 DEF Ordered
<1>5. \A q : Linked(timer_list', q) <=> Linked(timer_list, q) \/ q = p
  <2>1. \A q : Linked(timer_list, q) <=> \E t : At(timer_list, q, t)
    BY <1>4, LinkedAt
  <2>2. \A q : Linked(timer_list', q) <=> \E t : At(timer_list', q, t)
    BY <1>4, LinkedAt
  <2> QED BY <1>3, <2>1, <2>2, Zenon
<1> QED BY <1>1, <1>3, <1>5, Given, Kept

LEMMA KillKeepsTimers ==
    ASSUME TimerInv, NEW p \in Proc, Kill(p)
    PROVE  TimerInv'
BY Given, Kept DEF Kill

LEMMA ResumeKeepsTimers ==
    ASSUME TimerInv, NEW p \in Proc, Resume(p)
    PROVE  TimerInv'
<1>1. /\ p \in inside /\ p \notin asleep /\ del_timer(p)
      /\ inside' = inside \ {p} /\ fired' = {} /\ asleep' = asleep
  BY DEF Resume
<1>2. CASE Linked(timer_list, p)
  <2>1. /\ Ordered(timer_list')
        /\ \A q, t : At(timer_list', q, t) <=> At(timer_list, q, t) /\ q # p
    BY <1>1, <1>2, Given, DelOrdered
  <2>2. timer_list \in Seq(Entries) /\ timer_list' \in Seq(Entries)
    BY <2>1, Given DEF Ordered
  <2>3. \A q : Linked(timer_list', q) <=> Linked(timer_list, q) /\ q # p
    <3>1. \A q : Linked(timer_list, q) <=> \E t : At(timer_list, q, t)
      BY <2>2, LinkedAt
    <3>2. \A q : Linked(timer_list', q) <=> \E t : At(timer_list', q, t)
      BY <2>2, LinkedAt
    <3> QED BY <2>1, <3>1, <3>2, Zenon
  <2> QED BY <1>1, <2>1, <2>3, Given, Kept
<1>3. CASE ~ Linked(timer_list, p)
  <2>1. timer_list' = timer_list
    BY <1>1, <1>3 DEF del_timer
  <2> QED BY <1>1, <1>3, <2>1, Given, Kept
<1> QED BY <1>2, <1>3

LEMMA TickKeeps ==
    ASSUME TimerInv, run_timer_list
    PROVE  TimerInv'
<1> DEFINE ticked == [timer_list EXCEPT ![1].expires = @ - 1]
           k == RunOut(ticked)
           r == SubSeq(ticked, k + 1, Len(ticked))
           due == Due(ticked, k)
<1>1. CASE timer_list = <<>>
  <2>1. fired' = {} /\ timer_list' = timer_list /\ asleep' = asleep /\ inside' = inside
    BY <1>1 DEF run_timer_list
  <2> QED BY <2>1, Given, Kept
<1>2. CASE timer_list # <<>>
  <2>1. /\ timer_list' = r /\ asleep' = asleep \ due /\ fired' = due
        /\ inside' = inside
    BY <1>2 DEF run_timer_list
  <2>2. /\ Ordered(r)
        /\ due = {q \in Proc : At(timer_list, q, 1)}
        /\ \A q : \A t \in Int : At(r, q, t) <=> At(timer_list, q, t + 1) /\ t >= 1
    BY <1>2, Given, TickOrdered
  <2> HIDE DEF r, due, k, ticked
  <2>3. timer_list \in Seq(Entries) /\ r \in Seq(Entries) /\ OwnersOnce(timer_list)
    BY <2>2, Given DEF Ordered
  <2>4. \A q, t : At(timer_list, q, t) => t \in 1..MaxTicks
    BY Given, Pending DEF At
  <2>5. \A q, t : At(r, q, t) => t \in Int
    BY <2>2, Pending DEF At
  <2>6. ASSUME NEW q PROVE Linked(r, q) <=> \E t \in Int : At(timer_list, q, t) /\ t >= 2
    <3>1. ASSUME Linked(r, q) PROVE \E t \in Int : At(timer_list, q, t) /\ t >= 2
      <4>1. PICK t \in Int : At(r, q, t)
        BY <2>3, <2>5, <3>1, LinkedAt
      <4>2. At(timer_list, q, t + 1) /\ t + 1 >= 2 /\ t + 1 \in Int
        BY <2>2, <4>1
      <4> QED BY <4>2
    <3>2. ASSUME NEW t \in Int, At(timer_list, q, t), t >= 2 PROVE Linked(r, q)
      <4>1. t - 1 \in Int /\ (t - 1) + 1 = t /\ t - 1 >= 1
        BY <3>2
      <4>2. At(r, q, t - 1)
        BY <2>2, <3>2, <4>1
      <4> QED BY <2>3, <4>2, LinkedAt
    <3> QED BY <3>1, <3>2
  <2>7. ASSUME NEW q, Linked(r, q) PROVE q \in inside'
    <3>1. \E t : At(timer_list, q, t)
      BY <2>6, <2>7
    <3>2. Linked(timer_list, q)
      BY <2>3, <3>1, LinkedAt
    <3> QED BY <2>1, <3>2, Given
  <2>8. ASSUME NEW q \in asleep' PROVE Linked(r, q)
    <3>1. Linked(timer_list, q) /\ q \in Proc /\ q \notin due
      BY <2>1, <2>8, Given
    <3>2. PICK t : At(timer_list, q, t)
      BY <2>3, <3>1, LinkedAt
    <3>3. t \in Int /\ t >= 2
      <4>1. t # 1
        BY <2>2, <3>1, <3>2
      <4> QED BY <2>4, <3>2, <4>1, TicksAssumption
    <3> QED BY <2>6, <3>2, <3>3
  <2>9. ASSUME NEW q \in fired', Linked(r, q) PROVE FALSE
    <3>1. At(timer_list, q, 1)
      BY <2>1, <2>2, <2>9
    <3>2. PICK t \in Int : At(timer_list, q, t) /\ t >= 2
      BY <2>6, <2>9
    <3>3. LeftIn(timer_list, q) = 1 /\ LeftIn(timer_list, q) = t
      BY <2>3, <3>1, <3>2, LeftAt
    <3> QED BY <3>2, <3>3
  <2>10. asleep' \subseteq Proc /\ inside' \subseteq Proc /\ fired' \subseteq Proc
    BY <2>1, <2>2, Given
  <2> QED BY <2>1, <2>2, <2>7, <2>8, <2>9, <2>10, Kept
<1> QED BY <1>1, <1>2

-------------------------------------------------------------------------------
(* The list implements independent countdowns *)

LEMMA Lefts ==
    /\ \A q : LeftOf(q) = LeftIn(timer_list, q)
    /\ \A q : LeftOf(q)' = LeftIn(timer_list', q)
BY Zenon DEF LeftOf, LeftIn, Linked

\* Timers that no step touches leave their owners what they had.
LEMMA SleepAdds ==
    ASSUME TimerInv, NEW p \in Proc, NEW ticks \in 1..MaxTicks, Sleep(p, ticks)
    PROVE  Absolute!Add(p, ticks)
<1>1. p \notin inside /\ add_timer(p, ticks) /\ fired' = {}
  BY DEF Sleep
<1>2. Ordered(timer_list) /\ ~ Linked(timer_list, p)
  BY <1>1, Given
<1>3. /\ Ordered(timer_list')
      /\ \A q, t : At(timer_list', q, t) <=> At(timer_list, q, t) \/ (q = p /\ t = ticks)
  BY <1>1, <1>2, AddOrdered
<1>4. /\ timer_list \in Seq(Entries) /\ timer_list' \in Seq(Entries)
      /\ OwnersOnce(timer_list) /\ OwnersOnce(timer_list')
  BY <1>2, <1>3 DEF Ordered
<1>5. LeftOf(p) = 0
  BY <1>2, Lefts DEF LeftIn
<1>6. LeftOf(p)' = ticks
  <2>1. At(timer_list', p, ticks)
    BY <1>3
  <2> QED BY <1>4, <2>1, LeftAt, Lefts
<1>7. ASSUME NEW q \in Proc, q # p PROVE LeftOf(q)' = LeftOf(q)
  <2>1. \A t : At(timer_list, q, t) <=> At(timer_list', q, t)
    BY <1>3, <1>7
  <2>2. LeftIn(timer_list, q) = LeftIn(timer_list', q)
    BY <1>4, <2>1, SameLeft
  <2> QED BY <2>2, Lefts
<1> QED BY <1>1, <1>5, <1>6, <1>7 DEF Absolute!Add

LEMMA ResumeDeletes ==
    ASSUME TimerInv, NEW p \in Proc, Resume(p)
    PROVE  Absolute!Del(p)
<1>1. del_timer(p) /\ fired' = {}
  BY DEF Resume
<1>2. Ordered(timer_list)
  BY Given
<1>3. LeftOf(p)' = 0 /\ \A q \in Proc : q # p => LeftOf(q)' = LeftOf(q)
  <2>1. CASE Linked(timer_list, p)
    <3>1. /\ Ordered(timer_list')
          /\ \A q, t : At(timer_list', q, t) <=> At(timer_list, q, t) /\ q # p
      BY <1>1, <1>2, <2>1, DelOrdered
    <3>2. /\ timer_list \in Seq(Entries) /\ timer_list' \in Seq(Entries)
          /\ OwnersOnce(timer_list) /\ OwnersOnce(timer_list')
      BY <1>2, <3>1 DEF Ordered
    <3>3. ~ Linked(timer_list', p)
      BY <3>1, <3>2, LinkedAt
    <3>4. LeftOf(p)' = 0
      BY <3>3, Lefts DEF LeftIn
    <3>5. ASSUME NEW q \in Proc, q # p PROVE LeftOf(q)' = LeftOf(q)
      <4>1. \A t : At(timer_list, q, t) <=> At(timer_list', q, t)
        BY <3>1, <3>5
      <4>2. LeftIn(timer_list, q) = LeftIn(timer_list', q)
        BY <3>2, <4>1, SameLeft
      <4> QED BY <4>2, Lefts
    <3> QED BY <3>4, <3>5
  <2>2. CASE ~ Linked(timer_list, p)
    <3>1. timer_list' = timer_list
      BY <1>1, <2>2 DEF del_timer
    <3>2. \A q : LeftOf(q)' = LeftOf(q)
      BY <3>1, Lefts
    <3>3. LeftOf(p) = 0
      BY <2>2, Lefts DEF LeftIn
    <3> QED BY <3>2, <3>3
  <2> QED BY <2>1, <2>2
<1> QED BY <1>1, <1>3 DEF Absolute!Del

LEMMA TicksPass ==
    ASSUME TimerInv, run_timer_list
    PROVE  Absolute!Tick
<1> DEFINE ticked == [timer_list EXCEPT ![1].expires = @ - 1]
           k == RunOut(ticked)
           r == SubSeq(ticked, k + 1, Len(ticked))
           due == Due(ticked, k)
<1>1. CASE timer_list = <<>>
  <2>1. fired' = {} /\ timer_list' = timer_list
    BY <1>1 DEF run_timer_list
  <2>2. \A q : ~ Linked(timer_list, q)
    BY <1>1 DEF Linked
  <2>3. \A q : LeftOf(q) = 0 /\ LeftOf(q)' = 0
    BY <2>1, <2>2, Lefts DEF LeftIn
  <2> QED BY <2>1, <2>3 DEF Absolute!Tick
<1>2. CASE timer_list # <<>>
  <2>1. timer_list' = r /\ fired' = due
    BY <1>2 DEF run_timer_list
  <2>2. /\ Ordered(r)
        /\ due = {q \in Proc : At(timer_list, q, 1)}
        /\ \A q : \A t \in Int : At(r, q, t) <=> At(timer_list, q, t + 1) /\ t >= 1
    BY <1>2, Given, TickOrdered
  <2> HIDE DEF r, due, k, ticked
  <2>3. /\ timer_list \in Seq(Entries) /\ r \in Seq(Entries)
        /\ OwnersOnce(timer_list) /\ OwnersOnce(r)
    BY <2>2, Given DEF Ordered
  <2>4. \A q, t : At(timer_list, q, t) => t \in Int /\ t >= 1
    <3>1. \A q, t : At(timer_list, q, t) => t \in 1..MaxTicks
      BY Given, Pending DEF At
    <3> QED BY <3>1, TicksAssumption
  <2>5. \A q, t : At(r, q, t) => t \in Int
    BY <2>2, Pending DEF At
  <2>6. ASSUME NEW q \in Proc
        PROVE  /\ LeftOf(q)' = IF LeftOf(q) > 0 THEN LeftOf(q) - 1 ELSE 0
               /\ LeftOf(q) = 1 <=> q \in due
    <3>1. CASE ~ Linked(timer_list, q)
      <4>1. ~ \E t : At(timer_list, q, t)
        BY <2>3, <3>1, LinkedAt
      <4>2. ~ \E t : At(r, q, t)
        BY <2>2, <2>5, <4>1
      <4>3. ~ Linked(r, q)
        BY <2>3, <4>2, LinkedAt
      <4>4. LeftOf(q) = 0 /\ LeftOf(q)' = 0
        BY <2>1, <3>1, <4>3, Lefts DEF LeftIn
      <4>5. q \notin due
        BY <2>2, <4>1
      <4> QED BY <4>4, <4>5
    <3>2. CASE Linked(timer_list, q)
      <4>1. PICK t : At(timer_list, q, t)
        BY <2>3, <3>2, LinkedAt
      <4>2. t \in Int /\ t >= 1 /\ LeftOf(q) = t
        BY <2>3, <2>4, <4>1, LeftAt, Lefts
      <4>3. \A u : At(timer_list, q, u) <=> u = t
        BY <2>3, <4>1, LeftAt
      <4>4. CASE t = 1
        <5>1. ~ \E u : At(r, q, u)
          <6> SUFFICES ASSUME NEW u, At(r, q, u) PROVE FALSE
            OBVIOUS
          <6>1. u \in Int /\ u + 1 = t /\ u >= 1
            BY <2>2, <2>5, <4>3
          <6> QED BY <4>4, <6>1
        <5>2. LeftOf(q)' = 0
          BY <2>1, <2>3, <5>1, LinkedAt, Lefts DEF LeftIn
        <5> QED BY <2>2, <4>1, <4>2, <4>4, <5>2
      <4>5. CASE t > 1
        <5>1. t - 1 \in Int /\ (t - 1) + 1 = t /\ t - 1 >= 1
          BY <4>2, <4>5
        <5>2. At(r, q, t - 1)
          BY <2>2, <4>1, <5>1
        <5>3. LeftOf(q)' = t - 1
          BY <2>1, <2>3, <5>2, LeftAt, Lefts
        <5>4. q \notin due
          BY <2>2, <4>3, <4>5
        <5> QED BY <4>2, <4>5, <5>3, <5>4
      <4> QED BY <4>2, <4>4, <4>5
    <3> QED BY <3>1, <3>2
  <2>7. due = {q \in Proc : LeftOf(q) = 1}
    BY <2>2, <2>6
  <2> QED BY <2>1, <2>6, <2>7 DEF Absolute!Tick
<1> QED BY <1>1, <1>2

\* A kill, or a step of the keyboard, leaves all countdowns alone.
LEMMA NothingRuns ==
    ASSUME TimerInv, timer_list' = timer_list, fired' = {}
    PROVE  Absolute!Next \/ UNCHANGED <<[p \in Proc |-> LeftOf(p)], fired>>
<1>1. \A q : LeftOf(q)' = LeftOf(q)
  BY Lefts
<1>2. CASE fired = {}
  BY <1>1, <1>2
<1>3. CASE fired # {}
  <2>1. PICK p \in fired : ~ Linked(timer_list, p) /\ p \in Proc
    BY <1>3, Given
  <2>2. LeftOf(p) = 0
    BY <2>1, Lefts DEF LeftIn
  <2>3. Absolute!Del(p)
    BY <1>1, <2>1, <2>2 DEF Absolute!Del
  <2> QED BY <2>1, <2>3 DEF Absolute!Next
<1> QED BY <1>2, <1>3

-------------------------------------------------------------------------------

(* The wait queue of the readers *)

\* A reader that leaves the wait queue leaves the others in it.
LEMMA LeavesQueue ==
    ASSUME NEW P, NEW q \in Seq(P), NEW p,
           \A j, k \in DOMAIN q : q[j] = q[k] => j = k
    PROVE  LET r == Input!RemoveFirst(q, p)
           IN  /\ r \in Seq(P)
               /\ \A j, k \in DOMAIN r : r[j] = r[k] => j = k
               /\ Input!ToSet(r) = Input!ToSet(q) \ {p}
<1> DEFINE r == RemoveFirst(q, p)
<1>1. Input!RemoveFirst(q, p) = r
  BY DEF Input!RemoveFirst, Input!SelectInSeq, Input!Min, Input!RemoveAt,
         RemoveFirst, SelectInSeq, Min, RemoveAt
<1>2. \A s : Input!ToSet(s) = ToSet(s)
  BY DEF Input!ToSet, ToSet
<1>3. /\ r \in Seq(P)
      /\ \A j, k \in DOMAIN r : r[j] = r[k] => j = k
      /\ ToSet(r) = ToSet(q) \ {p}
  BY LeavesList
<1> QED BY <1>1, <1>2, <1>3, Zenon

-------------------------------------------------------------------------------
(* Readers and keys *)

KeyTypes ==
    /\ cons \in Seq(Keys) /\ stdin_buffer \in Seq(Keys)
    /\ wait_queue \in Seq(Proc)
    /\ wanted \in [Proc -> Nat]
    /\ wakeup_flags \in [Proc -> {"WT_INTERRUPTED", "WT_KBD"}]

KeyInv == KeyTypes /\ NobodyMissesKey

\* The first k keys of a buffer are taken out of it.
LEMMA TakeKeys ==
    ASSUME NEW q \in Seq(Keys), NEW want \in Nat \ {0},
           NEW k, k = Input!Min({want, Len(q)})
    PROVE  /\ k \in 0..want /\ k \in 0..Len(q)
           /\ SubSeq(q, k + 1, Len(q)) \in Seq(Keys)
           /\ k < want => SubSeq(q, k + 1, Len(q)) = <<>>
           /\ q = <<>> => k < want
<1>1. Len(q) \in Nat
  BY LenProperties
<1>2. PICK m \in {want, Len(q)} : \A n \in {want, Len(q)} : m <= n
  BY <1>1
<1>3. k \in {want, Len(q)} /\ \A n \in {want, Len(q)} : k <= n
  BY <1>2, Zenon DEF Input!Min
<1>4. k \in 0..want /\ k \in 0..Len(q) /\ (k < want => k = Len(q))
  BY <1>1, <1>3
<1>5. SubSeq(q, k + 1, Len(q)) \in Seq(Keys)
  <2>1. k + 1 \in 1..(Len(q) + 1) /\ Len(q) \in ((k + 1) - 1)..Len(q)
    BY <1>1, <1>4
  <2> QED BY <2>1, Piece, Zenon
<1>6. ASSUME k = Len(q) PROVE SubSeq(q, k + 1, Len(q)) = <<>>
  BY <1>1, <1>6, SubSeqEmpty
<1>7. q = <<>> => k < want
  BY <1>1, <1>4
<1> QED BY <1>4, <1>5, <1>6, <1>7

\* The loop of dev_stdin_read ends with all characters, or with an empty buffer
\* and the reader asleep.
LEMMA LoopKeeps ==
    ASSUME KeyInv, NEW p \in Proc, NEW want \in Nat \ {0}, NEW queue \in Seq(Proc),
           \A i, j \in DOMAIN queue : queue[i] = queue[j] => i = j,
           Input!ToSet(queue) = Input!ToSet(wait_queue) \ {p},
           p \notin drowsy, Input!Loop(p, want, queue)
    PROVE  KeyInv'
<1> DEFINE k == Input!Min({want, Len(stdin_buffer)})
<1>1. KeyTypes /\ Input!QueueExact /\ (drowsy # {} => stdin_buffer = <<>>)
  BY DEF KeyInv, NobodyMissesKey, Input!NobodyMissesKey
<1>2. /\ k \in 0..want /\ stdin_buffer' \in Seq(Keys)
      /\ k < want => stdin_buffer' = <<>>
      /\ stdin_buffer = <<>> => k < want
  BY <1>1, TakeKeys, Zenon DEF KeyTypes, Input!Loop
<1>3. /\ wanted' = [wanted EXCEPT ![p] = want - k]
      /\ wakeup_flags' = [wakeup_flags EXCEPT ![p] = "WT_INTERRUPTED"]
      /\ IF k < want
         THEN wait_queue' = Append(queue, p) /\ drowsy' = drowsy \cup {p}
         ELSE wait_queue' = queue /\ UNCHANGED drowsy
      /\ UNCHANGED cons
  BY DEF Input!Loop
<1> HIDE DEF k
<1>4. ~ \E i \in DOMAIN queue : queue[i] = p
  BY Zenon DEF Input!ToSet
<1>5. /\ wait_queue' \in Seq(Proc)
      /\ \A i, j \in DOMAIN wait_queue' : wait_queue'[i] = wait_queue'[j] => i = j
      /\ Input!ToSet(wait_queue)' = Input!ToSet(queue) \cup (IF k < want THEN {p} ELSE {})
  <2>1. CASE k < want
    <3> DEFINE n == Append(queue, p)
    <3>1. /\ n \in Seq(Proc)
          /\ \A i, j \in DOMAIN n : n[i] = n[j] => i = j
          /\ \A s : (\E i \in DOMAIN n : n[i] = s)
                    <=> (\E i \in DOMAIN queue : queue[i] = s) \/ s = p
      BY <1>4, AppendToQueue
    <3> HIDE DEF n
    <3>2. wait_queue' = n
      BY <1>3, <2>1 DEF n
    <3>3. \A s : s \in Input!ToSet(n) <=> s \in Input!ToSet(queue) \/ s = p
      <4>1. \A s : s \in Input!ToSet(n) <=> \E i \in DOMAIN n : n[i] = s
        BY Zenon DEF Input!ToSet
      <4>2. \A s : s \in Input!ToSet(queue) <=> \E i \in DOMAIN queue : queue[i] = s
        BY Zenon DEF Input!ToSet
      <4> QED BY <3>1, <4>1, <4>2, Zenon
    <3>4. Input!ToSet(wait_queue)' = Input!ToSet(n)
      BY <3>2, Zenon DEF Input!ToSet
    <3>5. Input!ToSet(wait_queue)' = Input!ToSet(queue) \cup {p}
      BY <3>3, <3>4, Zenon
    <3> QED BY <2>1, <3>1, <3>2, <3>5
  <2>2. CASE ~ (k < want)
    <3>1. wait_queue' = queue
      BY <1>3, <2>2
    <3>2. Input!ToSet(wait_queue)' = Input!ToSet(queue)
      BY <3>1, Zenon DEF Input!ToSet
    <3> QED BY <2>2, <3>1, <3>2
  <2> QED BY <2>1, <2>2
<1>6. KeyTypes'
  BY <1>1, <1>2, <1>3, <1>5 DEF KeyTypes
<1>7. Input!QueueExact'
  <2> DEFINE S == Input!ToSet(wait_queue)
             T == Input!ToSet(queue)
  <2>1. /\ S = {r \in Proc : wanted[r] > 0 /\ wakeup_flags[r] = "WT_INTERRUPTED"}
        /\ drowsy \subseteq S
    BY <1>1 DEF Input!QueueExact, Input!Reading
  <2>2. T = S \ {p} /\ S' = T \cup (IF k < want THEN {p} ELSE {})
    BY <1>5
  <2> HIDE DEF S, T
  <2>3. S' = {r \in Proc : wanted'[r] > 0 /\ wakeup_flags'[r] = "WT_INTERRUPTED"}
    BY <1>1, <1>2, <1>3, <2>1, <2>2 DEF KeyTypes
  <2>4. drowsy' \subseteq S'
    BY <1>3, <2>1, <2>2
  <2> QED BY <1>5, <2>3, <2>4 DEF Input!QueueExact, Input!Reading, S
<1>8. drowsy' # {} => stdin_buffer' = <<>>
  BY <1>1, <1>2, <1>3
<1> QED BY <1>6, <1>7, <1>8 DEF KeyInv, NobodyMissesKey, Input!NobodyMissesKey

LEMMA Remainder ==
    ASSUME NEW n \in Nat, NEW c \in Nat \ {0}
    PROVE  n % c \in 0..n
<1>1. n % c \in 0..(c - 1)
  OBVIOUS
<1>2. CASE n < c
  <2>1. n \div c = 0 
    BY <1>2
  <2> QED BY <1>2, <2>1
<1> QED BY <1>1, <1>2

\* The console ring holds keys after keys were typed.
LEMMA RingOfKeys ==
    ASSUME NEW ring \in Seq(Keys), NEW keys \in BoundedSeq(Keys, MaxArrivals)
    PROVE  /\ keys \in Seq(Keys) /\ ring \o keys \in Seq(Keys)
           /\ Input!ConsHolds(ring \o keys) \in Seq(Keys)
<1>1. keys \in Seq(Keys)
  BY BuffersAssumption, SeqDef DEF BoundedSeq, SeqOf
<1>2. ring \o keys \in Seq(Keys)
  BY <1>1, Joined
<1> DEFINE s == ring \o keys
           n == Len(s)
           m == n - (n % CONSBUFSIZE) + 1
<1>3. s \in Seq(Keys) /\ n \in Nat
  BY <1>2, LenProperties
<1>4. Input!ConsHolds(ring \o keys) = SubSeq(s, m, n)
  BY DEF Input!ConsHolds
<1> HIDE DEF s
<1>5. m \in 1..(Len(s) + 1) /\ n \in (m - 1)..Len(s)
  <2> DEFINE r == n % CONSBUFSIZE
  <2>1. r \in 0..n
    BY <1>3, BuffersAssumption, Remainder
  <2> HIDE DEF r
  <2>2. m = n - r + 1
    BY DEF r
  <2> HIDE DEF m
  <2> QED BY <1>3, <2>1, <2>2
<1> HIDE DEF m, n
<1>6. SubSeq(s, m, n) \in Seq(Keys)
  BY <1>3, <1>5, Piece, Zenon
<1> QED BY <1>1, <1>2, <1>4, <1>6

\* A key wakes every reader, and moves to the buffer.
LEMMA InterruptKeeps ==
    ASSUME KeyInv, NEW keys \in BoundedSeq(Keys, MaxArrivals), Input!Interrupt(keys)
    PROVE  KeyInv'
<1> DEFINE ring == Input!ConsHolds(cons \o keys)
<1>1. KeyTypes /\ Input!QueueExact /\ (drowsy # {} => stdin_buffer = <<>>)
  BY DEF KeyInv, NobodyMissesKey, Input!NobodyMissesKey
<1>2. ring \in Seq(Keys)
  BY <1>1, RingOfKeys DEF KeyTypes
<1>3. /\ IF ring = <<>>
         THEN cons' = <<>> /\ UNCHANGED <<stdin_buffer, wait_queue, drowsy, wakeup_flags>>
         ELSE /\ cons' = Tail(ring)
              /\ stdin_buffer' = Input!Put(Head(ring))
              /\ Input!WakeReaders
      /\ UNCHANGED wanted
  BY DEF Input!Interrupt
<1> HIDE DEF ring
<1>4. CASE ring = <<>>
  <2>1. KeyTypes'
    BY <1>1, <1>3, <1>4 DEF KeyTypes
  <2>2. Input!QueueExact'
    BY <1>1, <1>3, <1>4 DEF Input!QueueExact, Input!Reading, Input!ToSet
  <2> QED BY <1>1, <1>3, <1>4, <2>1, <2>2
          DEF KeyInv, NobodyMissesKey, Input!NobodyMissesKey
<1>5. CASE ring # <<>>
  <2> DEFINE woken == Input!ToSet(wait_queue)
  <2>1. woken = {r \in Proc : wanted[r] > 0 /\ wakeup_flags[r] = "WT_INTERRUPTED"}
        /\ drowsy \subseteq woken
    BY <1>1 DEF Input!QueueExact, Input!Reading
  <2>2. /\ wait_queue' = <<>> /\ drowsy' = drowsy \ woken
        /\ wakeup_flags' = [r \in Proc |-> IF r \in woken THEN "WT_KBD" ELSE wakeup_flags[r]]
        /\ wanted' = wanted /\ cons' = Tail(ring) /\ stdin_buffer' = Input!Put(Head(ring))
    BY <1>3, <1>5 DEF Input!WakeReaders
  <2> HIDE DEF woken
  <2>3. Tail(ring) \in Seq(Keys) /\ Head(ring) \in Keys
    BY <1>2, <1>5, HeadTailProperties
  <2>4. Input!Put(Head(ring)) \in Seq(Keys)
    <3>1. Len(stdin_buffer) \in Nat /\ stdin_buffer \in Seq(Keys)
      BY <1>1, LenProperties DEF KeyTypes
    <3>2. CASE Len(stdin_buffer) < STDIN_BUFSIZE
      BY <2>3, <3>1, <3>2 DEF Input!Put
    <3>3. CASE ~ (Len(stdin_buffer) < STDIN_BUFSIZE)
      <4>1. 1 \in 1..Len(stdin_buffer)
        BY <3>1, <3>3, BuffersAssumption
      <4> QED BY <2>3, <3>1, <3>3, <4>1, ExceptSeq DEF Input!Put
    <3> QED BY <3>2, <3>3
  <2>5. KeyTypes'
    <3>1. <<>> \in Seq(Proc)
      BY EmptySeq
    <3> QED BY <1>1, <2>2, <2>3, <2>4, <3>1 DEF KeyTypes
  <2>6. drowsy' = {}
    BY <2>1, <2>2
  <2>7. Input!ToSet(wait_queue)' = {}
    BY <2>2 DEF Input!ToSet
  <2>8. {r \in Proc : wanted'[r] > 0 /\ wakeup_flags'[r] = "WT_INTERRUPTED"} = {}
    BY <1>1, <2>1, <2>2 DEF KeyTypes
  <2>9. \A i, j \in DOMAIN wait_queue' : wait_queue'[i] = wait_queue'[j] => i = j
    BY <2>2
  <2>10. Input!QueueExact'
    BY <2>6, <2>7, <2>8, <2>9 DEF Input!QueueExact, Input!Reading
  <2> QED BY <2>5, <2>6, <2>10 DEF KeyInv, NobodyMissesKey, Input!NobodyMissesKey
<1> QED BY <1>4, <1>5

\* A read that starts: the caller does not stand in the queue.
LEMMA ReadKeeps ==
    ASSUME KeyInv, NEW p \in Proc, NEW len \in 1..MaxLen, Input!dev_stdin_read(p, len)
    PROVE  KeyInv'
<1>1. KeyTypes /\ Input!QueueExact
  BY DEF KeyInv, NobodyMissesKey, Input!NobodyMissesKey
<1>2. p \notin Input!ToSet(wait_queue) /\ p \notin drowsy
  BY <1>1 DEF Input!dev_stdin_read, Input!QueueExact
<1>3. /\ \A i, j \in DOMAIN wait_queue : wait_queue[i] = wait_queue[j] => i = j
      /\ Input!ToSet(wait_queue) = Input!ToSet(wait_queue) \ {p}
      /\ wait_queue \in Seq(Proc) /\ len \in Nat \ {0}
  BY <1>1, <1>2 DEF Input!QueueExact, KeyTypes
<1>4. Input!Loop(p, len, wait_queue)
  BY DEF Input!dev_stdin_read
<1> QED BY <1>2, <1>3, <1>4, LoopKeeps

\* A reader that runs again leaves the queue, to read on or to return.
LEMMA ResumeKeeps ==
    ASSUME KeyInv, NEW p \in Proc, Input!Resume(p)
    PROVE  KeyInv'
<1> DEFINE queue == Input!RemoveFirst(wait_queue, p)
<1>1. KeyTypes /\ Input!QueueExact /\ (drowsy # {} => stdin_buffer = <<>>)
  BY DEF KeyInv, NobodyMissesKey, Input!NobodyMissesKey
<1>2. wait_queue \in Seq(Proc)
      /\ \A i, j \in DOMAIN wait_queue : wait_queue[i] = wait_queue[j] => i = j
  BY <1>1 DEF KeyTypes, Input!QueueExact
<1>3. /\ queue \in Seq(Proc)
      /\ \A i, j \in DOMAIN queue : queue[i] = queue[j] => i = j
      /\ Input!ToSet(queue) = Input!ToSet(wait_queue) \ {p}
  BY <1>2, LeavesQueue
<1>4. /\ Input!Reading(p) /\ p \notin drowsy
      /\ IF wakeup_flags[p] = "WT_KBD"
         THEN Input!Loop(p, wanted[p], queue)
         ELSE /\ wait_queue' = queue
              /\ wanted' = [wanted EXCEPT ![p] = 0]
              /\ UNCHANGED <<cons, stdin_buffer, drowsy, wakeup_flags>>
  BY DEF Input!Resume
<1> HIDE DEF queue
<1>5. CASE wakeup_flags[p] = "WT_KBD"
  <2>1. Input!Loop(p, wanted[p], queue)
    BY <1>4, <1>5
  <2>2. wanted[p] \in Nat \ {0}
    BY <1>1, <1>4 DEF KeyTypes, Input!Reading
  <2> QED BY <1>3, <1>4, <2>1, <2>2, LoopKeeps
<1>6. CASE wakeup_flags[p] # "WT_KBD"
  <2>1. /\ wait_queue' = queue /\ wanted' = [wanted EXCEPT ![p] = 0]
        /\ UNCHANGED <<cons, stdin_buffer, drowsy, wakeup_flags>>
    BY <1>4, <1>6
  <2>2. KeyTypes'
    BY <1>1, <1>3, <2>1 DEF KeyTypes
  <2> DEFINE S == Input!ToSet(wait_queue)
  <2>3. /\ S = {r \in Proc : wanted[r] > 0 /\ wakeup_flags[r] = "WT_INTERRUPTED"}
        /\ drowsy \subseteq S
    BY <1>1 DEF Input!QueueExact, Input!Reading
  <2>4. S' = S \ {p}
    <3>1. S' = Input!ToSet(queue)
      BY <2>1, Zenon DEF Input!ToSet
    <3> QED BY <1>3, <3>1
  <2> HIDE DEF S
  <2>5. S' = {r \in Proc : wanted'[r] > 0 /\ wakeup_flags'[r] = "WT_INTERRUPTED"}
    BY <1>1, <2>1, <2>3, <2>4 DEF KeyTypes
  <2>6. drowsy' \subseteq S'
    BY <1>4, <2>1, <2>3, <2>4
  <2>7. Input!QueueExact'
    BY <1>3, <2>1, <2>5, <2>6 DEF Input!QueueExact, Input!Reading, S
  <2> QED BY <1>1, <2>1, <2>2, <2>7 DEF KeyInv, NobodyMissesKey, Input!NobodyMissesKey
<1> QED BY <1>5, <1>6

\* do_kill changes nothing but who sleeps.
LEMMA KillKeeps ==
    ASSUME KeyInv, NEW p \in Proc, Input!Kill(p)
    PROVE  KeyInv'
<1>1. /\ drowsy' = drowsy \ {p} /\ drowsy # {}
      /\ UNCHANGED <<cons, stdin_buffer, wait_queue, wakeup_flags, wanted>>
  BY DEF Input!Kill
<1>2. KeyTypes'
  BY <1>1 DEF KeyInv, KeyTypes
<1>3. Input!QueueExact'
  BY <1>1 DEF KeyInv, NobodyMissesKey, Input!NobodyMissesKey, Input!QueueExact,
              Input!Reading, Input!ToSet
<1> QED BY <1>1, <1>2, <1>3 DEF KeyInv, NobodyMissesKey, Input!NobodyMissesKey

LEMMA IdleKeeps ==
    ASSUME KeyInv, UNCHANGED <<cons, stdin_buffer, wait_queue, drowsy, wakeup_flags, wanted>>
    PROVE  KeyInv'
BY DEF KeyInv, KeyTypes, NobodyMissesKey, Input!NobodyMissesKey, Input!QueueExact,
       Input!Reading, Input!ToSet

LEMMA KeysStart == ClockInit => KeyInv
<1> SUFFICES ASSUME ClockInit PROVE KeyInv
  OBVIOUS
<1>1. /\ cons = <<>> /\ stdin_buffer = <<>> /\ wait_queue = <<>> /\ drowsy = {}
      /\ wakeup_flags = [p \in Proc |-> "WT_INTERRUPTED"]
      /\ wanted = [p \in Proc |-> 0]
  BY DEF ClockInit, Input!Init
<1>2. <<>> \in Seq(Keys) /\ <<>> \in Seq(Proc)
  BY EmptySeq
<1>3. KeyTypes
  BY <1>1, <1>2 DEF KeyTypes
<1>4. Input!ToSet(wait_queue) = {}
  BY <1>1 DEF Input!ToSet
<1>5. {p \in Proc : wanted[p] > 0 /\ wakeup_flags[p] = "WT_INTERRUPTED"} = {}
  BY <1>1
<1>6. Input!QueueExact
  BY <1>1, <1>4, <1>5 DEF Input!QueueExact, Input!Reading
<1> QED BY <1>1, <1>3, <1>6 DEF KeyInv, NobodyMissesKey, Input!NobodyMissesKey

LEMMA KeysKept == KeyInv /\ [ClockNext]_clock_vars => KeyInv'
<1> SUFFICES ASSUME KeyInv, [ClockNext]_clock_vars PROVE KeyInv'
  OBVIOUS
<1>1. CASE TimerInterrupt
  BY <1>1, InterruptKeeps DEF TimerInterrupt
<1>2. ASSUME NEW p \in Proc, do_sleep(p) PROVE KeyInv'
  BY <1>2, IdleKeeps DEF do_sleep, Input!InputIdle
<1>3. ASSUME NEW p \in Proc, stdin_read(p) PROVE KeyInv'
  BY <1>3, ReadKeeps, ResumeKeeps DEF stdin_read
<1>4. ASSUME NEW p \in Proc, do_kill(p) PROVE KeyInv'
  BY <1>4, KillKeeps, IdleKeeps DEF do_kill, Input!InputIdle
<1>5. CASE UNCHANGED clock_vars
  BY <1>5, IdleKeeps DEF clock_vars, input_vars
<1> QED BY <1>1, <1>2, <1>3, <1>4, <1>5 DEF ClockNext

\* No reader sleeps while a key is there for it, and the wait queue holds exactly
\* the readers that no key has woken, for any number of processes, any keys and
\* buffers of any size (wakeup_queue in dev_stdin_write, the loop of
\* dev_stdin_read with the wait queue of wait.c, and the wake-up of do_kill).
THEOREM KeysWakeReaders == ClockSpec => []NobodyMissesKey
<1>1. ClockInit => KeyInv
  BY KeysStart
<1>2. KeyInv /\ [ClockNext]_clock_vars => KeyInv'
  BY KeysKept
<1>3. KeyInv => NobodyMissesKey
  BY DEF KeyInv
<1> QED BY <1>1, <1>2, <1>3, PTL DEF ClockSpec

-------------------------------------------------------------------------------
(* Timers *)

LEMMA TimersInit ==
    ASSUME ClockInit
    PROVE  TimerInv /\ Absolute!Init
<1>1. timer_list = <<>> /\ asleep = {} /\ inside = {} /\ fired = {}
  BY DEF ClockInit, Init
<1>2. <<>> \in Seq([proc : Proc, expires : 0..MaxTicks])
  BY EmptySeq
<1>3. \A q : ~ Linked(timer_list, q)
  BY <1>1 DEF Linked
<1>4. TimerInv
  BY <1>1, <1>2 DEF TimerInv, ListSound, TimerTypes, HeadPositive, LinkedOnce,
                    SleepersLinked, TicksBounded, FiredUnlinked
<1>5. \A q : LeftOf(q) = 0
  BY <1>3 DEF LeftOf
<1> QED BY <1>1, <1>4, <1>5 DEF Absolute!Init

LEMMA TimersStep ==
    ASSUME TimerInv, [ClockNext]_clock_vars
    PROVE  /\ TimerInv'
           /\ Absolute!Next \/ UNCHANGED <<[p \in Proc |-> LeftOf(p)], fired>>
<1>1. CASE TimerInterrupt
  <2>1. TimerInv' /\ Absolute!Tick
    BY <1>1, TickKeeps, TicksPass DEF TimerInterrupt
  <2> QED BY <2>1 DEF Absolute!Next
<1>2. ASSUME NEW p \in Proc, do_sleep(p)
      PROVE  TimerInv' /\ Absolute!Next
  <2>1. CASE \E ticks \in 1..MaxTicks : Sleep(p, ticks)
    <3>1. PICK ticks \in 1..MaxTicks : Sleep(p, ticks)
      BY <2>1
    <3>2. TimerInv' /\ Absolute!Add(p, ticks)
      BY <3>1, SleepKeeps, SleepAdds
    <3> QED BY <3>2 DEF Absolute!Next
  <2>2. CASE Resume(p)
    <3>1. TimerInv' /\ Absolute!Del(p)
      BY <2>2, ResumeKeepsTimers, ResumeDeletes
    <3> QED BY <3>1 DEF Absolute!Next
  <2> QED BY <1>2, <2>1, <2>2 DEF do_sleep
<1>3. CASE TimersIdle
  <2>1. fired' = {} /\ UNCHANGED <<timer_list, asleep, inside>>
    BY <1>3 DEF TimersIdle
  <2>2. TimerInv'
    BY <2>1, Given, Kept
  <2> QED BY <2>1, <2>2, NothingRuns
<1>4. ASSUME NEW p \in Proc, Kill(p)
      PROVE  /\ TimerInv'
             /\ Absolute!Next \/ UNCHANGED <<[q \in Proc |-> LeftOf(q)], fired>>
  <2>1. fired' = {} /\ timer_list' = timer_list
    BY <1>4 DEF Kill
  <2>2. TimerInv'
    BY <1>4, KillKeepsTimers
  <2> QED BY <2>1, <2>2, NothingRuns
<1>5. CASE UNCHANGED clock_vars
  <2>1. UNCHANGED <<timer_list, asleep, inside, fired>>
    BY <1>5 DEF clock_vars, vars
  <2>2. \A q : LeftOf(q)' = LeftOf(q)
    BY <2>1, Lefts
  <2>3. TimerInv'
    BY <2>1, Given, Kept
  <2> QED BY <2>1, <2>2, <2>3
<1> QED BY <1>1, <1>2, <1>3, <1>4, <1>5 DEF ClockNext, stdin_read, do_kill

\* The timer list is what its assertions demand, for any number of processes and
\* ticks: the first timer never stands at 0 when the interrupt counts it down
\* (sched.c:157), no process is linked twice and only while it is in do_sleep
\* (sched.c:107), and who sleeps is linked, whoever is killed meanwhile.
THEOREM TimersLinked == ClockSpec => []ListSound
<1>1. ClockInit => TimerInv
  BY TimersInit
<1>2. TimerInv /\ [ClockNext]_clock_vars => TimerInv'
  BY TimersStep
<1>3. TimerInv => ListSound
  BY DEF TimerInv
<1> QED BY <1>1, <1>2, <1>3, PTL DEF ClockSpec

\* The list of deltas implements one countdown per process: add_timer, del_timer
\* and run_timer_list (sched.c:104-176) wake each sleeper at exactly the tick it
\* asked for, whatever timers come and go in front of its own.
THEOREM TimersCountDown == ClockSpec => ImplementsTimers
<1>1. ClockInit => TimerInv /\ Absolute!Init
  BY TimersInit
<1>2. TimerInv /\ [ClockNext]_clock_vars
      => /\ TimerInv'
         /\ [Absolute!Next]_<<[p \in Proc |-> LeftOf(p)], fired>>
  BY TimersStep
<1> QED BY <1>1, <1>2, PTL DEF ClockSpec, ImplementsTimers, Absolute!Spec

-------------------------------------------------------------------------------
(* The stream of keys *)

KeysLeft == stdin_buffer \o cons
KeyLimit == Input!Min({STDIN_BUFSIZE + 1, CONSBUFSIZE})

LEMMA FewestKeys ==
    KeyLimit <= STDIN_BUFSIZE + 1 /\ KeyLimit <= CONSBUFSIZE /\ KeyLimit \in Nat
<1> DEFINE S == {STDIN_BUFSIZE + 1, CONSBUFSIZE}
<1>1. STDIN_BUFSIZE \in Nat /\ CONSBUFSIZE \in Nat
  BY BuffersAssumption
<1>2. PICK m \in S : \A n \in S : m <= n
  BY <1>1
<1>3. KeyLimit \in S /\ \A n \in S : KeyLimit <= n
  BY <1>2, Zenon DEF KeyLimit, Input!Min
<1> QED BY <1>1, <1>3

LEMMA SameCounts == \A s : Input!Stream!Cardinality(s) = Cardinality(s)
BY DEF Input!Stream!Cardinality, Cardinality

\* Where the keys of a are found in b, each at a place of its own.
FoundAt(a, b, f) ==
    /\ f \in [1..Len(a) -> 1..Len(b)]
    /\ \A i, j \in 1..Len(a) : f[i] = f[j] => i = j
    /\ \A i \in 1..Len(a) : b[f[i]] = a[i]

Doubled(a, b) == \E c : ~ (Input!Stream!Count(a, c) <= Input!Stream!Count(b, c))

LEMMA NoneDoubled ==
    ASSUME NEW a \in Seq(Keys), NEW b \in Seq(Keys), NEW f, FoundAt(a, b, f)
    PROVE  ~ Doubled(a, b)
<1> SUFFICES ASSUME NEW c PROVE Input!Stream!Count(a, c) <= Input!Stream!Count(b, c)
  BY DEF Doubled
<1> DEFINE S == {i \in DOMAIN a : a[i] = c}
           T == {i \in DOMAIN b : b[i] = c}
           g == [i \in S |-> f[i]]
<1>1. DOMAIN a = 1..Len(a) /\ DOMAIN b = 1..Len(b) /\ Len(b) \in Nat
  OBVIOUS
<1>2. IsFiniteSet(T)
  <2>1. IsFiniteSet(1..Len(b))
    BY <1>1, FS_Interval
  <2>2. T \in SUBSET (1..Len(b))
    BY <1>1
  <2> QED BY <2>1, <2>2, FS_Subset
<1>3. g \in [S -> T] /\ \A i, j \in S : g[i] = g[j] => i = j
  BY <1>1 DEF FoundAt
<1> HIDE DEF S, T, g
<1>4. g \in Injection(S, T)
  BY <1>3 DEF Injection, IsInjective
<1>5. Cardinality(S) <= Cardinality(T)
  BY <1>2, <1>4, FS_Injection
<1>6. Input!Stream!Count(a, c) = Cardinality(S) /\ Input!Stream!Count(b, c) = Cardinality(T)
  BY SameCounts, Zenon DEF Input!Stream!Count, S, T
<1> QED BY <1>5, <1>6

LEMMA TypedKeys ==
    ASSUME NEW keys \in BoundedSeq(Keys, MaxArrivals)
    PROVE  keys \in Input!Stream!BoundedSeq(Keys, MaxArrivals)
BY Zenon DEF Input!Stream!BoundedSeq, Input!Stream!SeqOf, BoundedSeq, SeqOf

\* A step of the stream, for primed values given as they are.
Arrives(p, q, s) == q = p \o s
Overruns(p, q, s) == Len(p \o s) >= KeyLimit /\ ~ Doubled(q, p \o s)

LEMMA StreamOfKeys ==
    ASSUME KeyInv, NEW keys \in BoundedSeq(Keys, MaxArrivals), copied' = <<>>,
           Arrives(KeysLeft, KeysLeft', keys) \/ Overruns(KeysLeft, KeysLeft', keys)
    PROVE  Input!Stream!Next
<1>1. keys \in Input!Stream!BoundedSeq(Keys, MaxArrivals)
  BY TypedKeys
<1>2. CASE Arrives(KeysLeft, KeysLeft', keys)
  <2>1. Input!Stream!Arrive(keys)
    BY <1>2, Zenon DEF Arrives, KeysLeft, Input!Stream!Arrive
  <2> QED BY <1>1, <2>1, Zenon DEF Input!Stream!Next
<1>3. CASE Overruns(KeysLeft, KeysLeft', keys)
  <2>1. Input!Stream!Overrun(keys)
    BY <1>3, Zenon DEF Overruns, Doubled, KeysLeft, KeyLimit, Input!Stream!Overrun
  <2> QED BY <1>1, <2>1, Zenon DEF Input!Stream!Next
<1> QED BY <1>2, <1>3

LEMMA KeysTaken ==
    ASSUME KeyInv, NEW p \in Proc, NEW want \in Nat \ {0}, NEW queue, Input!Loop(p, want, queue)
    PROVE  Input!Stream!Next
<1> DEFINE k == Input!Min({want, Len(stdin_buffer)})
           w == KeysLeft
<1>1. stdin_buffer \in Seq(Keys) /\ cons \in Seq(Keys)
  BY DEF KeyInv, KeyTypes
<1>2. k \in 0..Len(stdin_buffer)
  BY <1>1, TakeKeys
<1>3. /\ copied' = SubSeq(stdin_buffer, 1, k) /\ cons' = cons
      /\ stdin_buffer' = SubSeq(stdin_buffer, k + 1, Len(stdin_buffer))
  BY DEF Input!Loop
<1> HIDE DEF k
<1>4. /\ w \in Seq(Keys) /\ Len(w) = Len(stdin_buffer) + Len(cons)
      /\ Len(stdin_buffer) \in Nat /\ Len(cons) \in Nat
      /\ \A i \in 1..(Len(stdin_buffer) + Len(cons)) :
            w[i] = IF i <= Len(stdin_buffer) THEN stdin_buffer[i] ELSE cons[i - Len(stdin_buffer)]
  BY <1>1, Joined DEF KeysLeft
<1>5. copied' = SubSeq(w, 1, k)
  <2> DEFINE a == SubSeq(stdin_buffer, 1, k)
             b == SubSeq(w, 1, k)
  <2>1. 1 \in 1..(Len(stdin_buffer) + 1) /\ k \in (1 - 1)..Len(stdin_buffer)
        /\ 1 \in 1..(Len(w) + 1) /\ k \in (1 - 1)..Len(w)
    BY <1>2, <1>4
  <2>2. a \in Seq(Keys) /\ Len(a) = k - 1 + 1 /\ \A i \in 1..(k - 1 + 1) : a[i] = stdin_buffer[1 + i - 1]
    BY <1>1, <2>1, Piece
  <2>3. b \in Seq(Keys) /\ Len(b) = k - 1 + 1 /\ \A i \in 1..(k - 1 + 1) : b[i] = w[1 + i - 1]
    BY <1>4, <2>1, Piece
  <2> HIDE DEF a, b, w
  <2>4. \A i \in 1..k : a[i] = b[i]
    BY <1>2, <1>4, <2>2, <2>3
  <2>5. Len(a) = k /\ Len(b) = k
    BY <1>2, <2>2, <2>3
  <2>6. a = b
    BY <2>2, <2>3, <2>4, <2>5, SeqEqual
  <2> QED BY <1>3, <2>6 DEF a, b
<1>6. KeysLeft' = SubSeq(w, k + 1, Len(w))
  <2> DEFINE a == SubSeq(stdin_buffer, k + 1, Len(stdin_buffer))
             d == a \o cons
             b == SubSeq(w, k + 1, Len(w))
             n == Len(stdin_buffer)
  <2>1. k + 1 \in 1..(n + 1) /\ n \in ((k + 1) - 1)..n
        /\ k + 1 \in 1..(Len(w) + 1) /\ Len(w) \in ((k + 1) - 1)..Len(w)
    BY <1>2, <1>4
  <2>2. a \in Seq(Keys) /\ Len(a) = n - (k + 1) + 1
        /\ \A i \in 1..(n - (k + 1) + 1) : a[i] = stdin_buffer[(k + 1) + i - 1]
    BY <1>1, <2>1, Piece
  <2>3. b \in Seq(Keys) /\ Len(b) = Len(w) - (k + 1) + 1
        /\ \A i \in 1..(Len(w) - (k + 1) + 1) : b[i] = w[(k + 1) + i - 1]
    BY <1>4, <2>1, Piece
  <2>4. /\ d \in Seq(Keys) /\ Len(d) = Len(a) + Len(cons)
        /\ \A i \in 1..(Len(a) + Len(cons)) : d[i] = IF i <= Len(a) THEN a[i] ELSE cons[i - Len(a)]
    BY <1>1, <2>2, Joined
  <2>5. KeysLeft' = d
    BY <1>3 DEF KeysLeft
  <2> HIDE DEF a, b, w, d, n
  <2>6. Len(a) = n - k /\ Len(b) = Len(w) - k /\ Len(d) = Len(w) - k /\ n \in Nat /\ k \in 0..n
    BY <1>2, <1>4, <2>2, <2>3, <2>4 DEF n
  <2>7. ASSUME NEW i \in 1..(Len(w) - k) PROVE d[i] = b[i]
    <3>1. b[i] = w[k + i] /\ k + i \in 1..Len(w)
      <4>1. (k + 1) + i - 1 = k + i /\ i \in 1..(Len(w) - (k + 1) + 1)
        BY <1>4, <2>6
      <4> QED BY <1>4, <2>3, <2>6, <4>1
    <3>2. CASE i <= n - k
      <4>1. d[i] = a[i]
        BY <1>4, <2>4, <2>6, <3>2
      <4>2. i \in 1..(n - (k + 1) + 1) /\ (k + 1) + i - 1 = k + i
        BY <2>6, <3>2
      <4>3. a[i] = stdin_buffer[k + i]
        BY <2>2, <4>2
      <4>4. w[k + i] = stdin_buffer[k + i]
        BY <1>4, <2>6, <3>1, <3>2 DEF n
      <4> QED BY <3>1, <4>1, <4>3, <4>4
    <3>3. CASE ~ (i <= n - k)
      <4>1. d[i] = cons[i - (n - k)]
        BY <1>4, <2>4, <2>6, <3>3
      <4>2. w[k + i] = cons[(k + i) - n]
        BY <1>4, <2>6, <3>1, <3>3 DEF n
      <4>3. i - (n - k) = (k + i) - n
        BY <2>6
      <4> QED BY <3>1, <4>1, <4>2, <4>3
    <3> QED BY <3>2, <3>3
  <2>8. d = b
    BY <2>3, <2>4, <2>6, <2>7, SeqEqual
  <2> QED BY <2>5, <2>8 DEF b
<1>7. k \in 0..Len(w)
  BY <1>2, <1>4
<1>8. Input!Stream!Take(k)
  BY <1>5, <1>6 DEF Input!Stream!Take, KeysLeft
<1>9. k \in 0..Len(stdin_buffer \o cons)
  BY <1>7 DEF KeysLeft
<1> QED BY <1>8, <1>9, Zenon DEF Input!Stream!Next

\* What is left in the console ring: the last keys.
LEMMA RingEnds ==
    ASSUME NEW s \in Seq(Keys)
    PROVE  LET ring == Input!ConsHolds(s)
           IN  /\ ring \in Seq(Keys) /\ Len(ring) \in 0..Len(s) /\ Len(s) \in Nat
               /\ \A i \in 1..Len(ring) : ring[i] = s[(Len(s) - Len(ring)) + i]
               /\ Len(s) < CONSBUFSIZE => ring = s
<1> DEFINE n == Len(s)
           r == n % CONSBUFSIZE
           m == n - r + 1
           ring == SubSeq(s, m, n)
<1>1. n \in Nat /\ CONSBUFSIZE \in Nat \ {0}
  BY BuffersAssumption
<1>2. r \in 0..n
  BY <1>1, Remainder
<1>3. n < CONSBUFSIZE => r = n
  <2> SUFFICES ASSUME n < CONSBUFSIZE PROVE r = n
    OBVIOUS
  <2>1. n \div CONSBUFSIZE = 0
    BY <1>1
  <2> QED BY <1>1, <2>1
<1>4. Input!ConsHolds(s) = ring
  BY DEF Input!ConsHolds
<1> HIDE DEF r
<1>5. m \in 1..(n + 1) /\ n \in (m - 1)..n /\ n - m + 1 = r
  BY <1>1, <1>2
<1> HIDE DEF m
<1>6. ring \in Seq(Keys) /\ Len(ring) = r /\ \A i \in 1..r : ring[i] = s[m + i - 1]
  <2>1. /\ ring \in Seq(Keys) /\ Len(ring) = n - m + 1
        /\ \A i \in 1..(n - m + 1) : ring[i] = s[m + i - 1]
    BY <1>5, Piece
  <2> HIDE DEF ring, n
  <2> QED BY <1>5, <2>1
<1> HIDE DEF ring
<1>7. \A i \in 1..r : m + i - 1 = (n - r) + i
  BY <1>1, <1>2 DEF m
<1>8. ASSUME n < CONSBUFSIZE PROVE ring = s
  <2>1. Len(ring) = Len(s)
    BY <1>3, <1>6, <1>8
  <2>2. \A i \in 1..Len(ring) : ring[i] = s[i]
    <3>1. \A i \in 1..r : (n - r) + i = i
      BY <1>1, <1>3, <1>8
    <3> QED BY <1>6, <1>7, <3>1
  <2> QED BY <1>6, <2>1, <2>2, SeqEqual
<1> QED BY <1>1, <1>2, <1>4, <1>6, <1>7, <1>8

\* The oldest key of the ring moves to the end of the buffer.
LEMMA KeyMoved ==
    ASSUME NEW buf \in Seq(Keys), NEW ring \in Seq(Keys), ring # <<>>
    PROVE  Append(buf, Head(ring)) \o Tail(ring) = buf \o ring
<1> DEFINE a == Append(buf, Head(ring))
           c == Tail(ring)
           d == a \o c
           e == buf \o ring
           b == Len(buf)
<1>1. Len(ring) \in Nat \ {0} /\ b \in Nat
  BY EmptySeq
<1>2. Head(ring) = ring[1] /\ ring[1] \in Keys
  BY <1>1
<1>3. /\ a \in Seq(Keys) /\ Len(a) = b + 1 /\ a[b + 1] = ring[1]
      /\ \A i \in 1..b : a[i] = buf[i]
  BY <1>1, <1>2, AppendProperties
<1>4. c \in Seq(Keys) /\ Len(c) = Len(ring) - 1 /\ \A i \in 1..(Len(ring) - 1) : c[i] = ring[i + 1]
  BY <1>1, HeadTailProperties
<1> HIDE DEF a, c
<1>5. /\ d \in Seq(Keys) /\ Len(d) = Len(a) + Len(c)
      /\ \A i \in 1..(Len(a) + Len(c)) : d[i] = IF i <= Len(a) THEN a[i] ELSE c[i - Len(a)]
  BY <1>3, <1>4, Joined
<1>6. /\ e \in Seq(Keys) /\ Len(e) = b + Len(ring)
      /\ \A i \in 1..(b + Len(ring)) : e[i] = IF i <= b THEN buf[i] ELSE ring[i - b]
  BY Joined
<1> HIDE DEF d, e, b
<1>7. Len(d) = Len(e) /\ Len(d) = b + Len(ring)
  BY <1>1, <1>3, <1>4, <1>5, <1>6
<1>8. ASSUME NEW i \in 1..(b + Len(ring)) PROVE d[i] = e[i]
  <2>1. d[i] = IF i <= b + 1 THEN a[i] ELSE c[i - (b + 1)]
    BY <1>1, <1>3, <1>4, <1>5
  <2>2. e[i] = IF i <= b THEN buf[i] ELSE ring[i - b]
    BY <1>6
  <2>3. CASE i <= b
    BY <1>1, <1>3, <2>1, <2>2, <2>3
  <2>4. CASE i = b + 1
    BY <1>1, <1>3, <2>1, <2>2, <2>4
  <2>5. CASE i > b + 1
    <3>1. i - (b + 1) \in 1..(Len(ring) - 1) /\ (i - (b + 1)) + 1 = i - b
      BY <1>1, <2>5
    <3>2. c[i - (b + 1)] = ring[i - b]
      BY <1>4, <3>1
    <3> QED BY <1>1, <2>1, <2>2, <2>5, <3>2
  <2> QED BY <1>1, <2>3, <2>4, <2>5
<1>9. d = e
  BY <1>5, <1>6, <1>7, <1>8, SeqEqual
<1> QED BY <1>9 DEF d, e, a, c

LEMMA Regrouped ==
    ASSUME NEW a \in Seq(Keys), NEW b \in Seq(Keys), NEW c \in Seq(Keys)
    PROVE  /\ (a \o b) \o c = a \o (b \o c) /\ b \o c \in Seq(Keys)
           /\ a \o (b \o c) \in Seq(Keys)
           /\ Len(a \o (b \o c)) = Len(a) + Len(b \o c)
           /\ \A i \in 1..(Len(a) + Len(b \o c)) :
                 (a \o (b \o c))[i] = IF i <= Len(a) THEN a[i] ELSE (b \o c)[i - Len(a)]
<1>1. b \o c \in Seq(Keys)
  BY Joined
<1>2. (a \o b) \o c = a \o (b \o c)
  BY ConcatAssociative
<1> QED BY <1>1, <1>2, Joined

LEMMA BehindBuffer ==
    ASSUME NEW b \in Nat, NEW d \in Nat, NEW i \in Nat, NEW j \in Nat,
           (IF i <= b THEN i ELSE i + d) = (IF j <= b THEN j ELSE j + d)
    PROVE  i = j
OBVIOUS

LEMMA OldestBehind ==
    ASSUME NEW b \in Nat \ {0}, NEW d \in Nat, NEW i \in Nat \ {0}, NEW j \in Nat \ {0},
           (IF i = 1 THEN b + d + 1 ELSE IF i <= b THEN i ELSE i + d + 1)
             = (IF j = 1 THEN b + d + 1 ELSE IF j <= b THEN j ELSE j + d + 1)
    PROVE  i = j
OBVIOUS

\* The keys of the ring are keys that came in.
LEMMA RingFound ==
    ASSUME NEW buf \in Seq(Keys), NEW s \in Seq(Keys)
    PROVE  ~ Doubled(buf \o Input!ConsHolds(s), buf \o s)
<1> DEFINE ring == Input!ConsHolds(s)
           a == buf \o ring
           t == buf \o s
           b == Len(buf)
           n == Len(s)
           r == Len(ring)
           f == [i \in 1..(b + r) |-> IF i <= b THEN i ELSE i + (n - r)]
<1>1. /\ ring \in Seq(Keys) /\ r \in 0..n /\ n \in Nat
      /\ \A i \in 1..r : ring[i] = s[(n - r) + i]
  BY RingEnds
<1> HIDE DEF ring
<1>2. /\ a \in Seq(Keys) /\ Len(a) = b + r /\ b \in Nat
      /\ \A i \in 1..(b + r) : a[i] = IF i <= b THEN buf[i] ELSE ring[i - b]
  BY <1>1, Joined
<1>3. /\ t \in Seq(Keys) /\ Len(t) = b + n
      /\ \A i \in 1..(b + n) : t[i] = IF i <= b THEN buf[i] ELSE s[i - b]
  BY <1>1, Joined
<1> HIDE DEF a, t, b, n, r
<1>4. f \in [1..Len(a) -> 1..Len(t)]
  BY <1>1, <1>2, <1>3
<1>5. ASSUME NEW i \in 1..Len(a), NEW j \in 1..Len(a), f[i] = f[j] PROVE i = j
  <2>1. f[i] = (IF i <= b THEN i ELSE i + (n - r)) /\ f[j] = (IF j <= b THEN j ELSE j + (n - r))
    BY <1>2
  <2>2. n - r \in Nat /\ b \in Nat /\ i \in Nat /\ j \in Nat
    BY <1>1, <1>2
  <2> HIDE DEF f
  <2> QED BY <1>5, <2>1, <2>2, BehindBuffer
<1>6. ASSUME NEW i \in 1..Len(a) PROVE t[f[i]] = a[i]
  <2>1. CASE i <= b
    BY <1>1, <1>2, <1>3, <2>1
  <2>2. CASE ~ (i <= b)
    <3>1. f[i] = i + (n - r) /\ i + (n - r) \in 1..(b + n) /\ ~ (i + (n - r) <= b)
      BY <1>1, <1>2, <2>2
    <3>2. t[f[i]] = s[(i + (n - r)) - b]
      BY <1>3, <3>1
    <3>3. i - b \in 1..r /\ (i + (n - r)) - b = (n - r) + (i - b)
      BY <1>1, <1>2, <2>2
    <3> HIDE DEF f
    <3> QED BY <1>1, <1>2, <2>2, <3>2, <3>3
  <2> QED BY <2>1, <2>2
<1> HIDE DEF f
<1>7. FoundAt(a, t, f)
  BY <1>4, <1>5, <1>6 DEF FoundAt
<1> QED BY <1>2, <1>3, <1>7, NoneDoubled DEF a, t, ring

\* A key written over the oldest one of a full buffer doubles none.
LEMMA KeyReplaced ==
    ASSUME NEW buf \in Seq(Keys), NEW s \in Seq(Keys),
           Input!ConsHolds(s) # <<>>, Len(buf) >= 1
    PROVE  ~ Doubled([buf EXCEPT ![1] = Head(Input!ConsHolds(s))] \o Tail(Input!ConsHolds(s)),
                     buf \o s)
<1> DEFINE ring == Input!ConsHolds(s)
           p == [buf EXCEPT ![1] = Head(ring)]
           c == Tail(ring)
           a == p \o c
           t == buf \o s
           b == Len(buf)
           n == Len(s)
           r == Len(ring)
           f == [i \in 1..(b + r - 1) |-> IF i = 1 THEN b + (n - r) + 1
                                          ELSE IF i <= b THEN i ELSE i + (n - r) + 1]
<1>1. /\ ring \in Seq(Keys) /\ r \in 0..n /\ n \in Nat /\ ring # <<>>
      /\ \A i \in 1..r : ring[i] = s[(n - r) + i]
  BY RingEnds
<1> HIDE DEF ring
<1>2. /\ r \in 1..n /\ n \in Nat /\ r \in Nat /\ Head(ring) = ring[1] /\ ring[1] \in Keys
      /\ b \in Nat /\ b >= 1
  BY <1>1, EmptySeq
<1>3. c \in Seq(Keys) /\ Len(c) = r - 1 /\ \A i \in 1..(r - 1) : c[i] = ring[i + 1]
  BY <1>1, HeadTailProperties
<1>4. p \in Seq(Keys) /\ Len(p) = b /\ p[1] = ring[1] /\ \A i \in 2..b : p[i] = buf[i]
  BY <1>2, ExceptSeq
<1> HIDE DEF p, c
<1>5. /\ a \in Seq(Keys) /\ Len(a) = b + (r - 1)
      /\ \A i \in 1..(b + (r - 1)) : a[i] = IF i <= b THEN p[i] ELSE c[i - b]
  <2>1. /\ a \in Seq(Keys) /\ Len(a) = Len(p) + Len(c)
        /\ \A i \in 1..(Len(p) + Len(c)) : a[i] = IF i <= Len(p) THEN p[i] ELSE c[i - Len(p)]
    <3>1. p \in Seq(Keys) /\ c \in Seq(Keys)
      BY <1>3, <1>4
    <3> QED BY <3>1, Joined
  <2> HIDE DEF a, b, r
  <2> QED BY <1>3, <1>4, <2>1
<1>6. /\ t \in Seq(Keys) /\ Len(t) = b + n
      /\ \A i \in 1..(b + n) : t[i] = IF i <= b THEN buf[i] ELSE s[i - b]
  BY <1>1, Joined
<1> HIDE DEF a, t, b, n, r
<1>7. f \in [1..Len(a) -> 1..Len(t)]
  BY <1>2, <1>5, <1>6
<1>8. ASSUME NEW i \in 1..Len(a), NEW j \in 1..Len(a), f[i] = f[j] PROVE i = j
  <2>1. /\ f[i] = (IF i = 1 THEN b + (n - r) + 1 ELSE IF i <= b THEN i ELSE i + (n - r) + 1)
        /\ f[j] = (IF j = 1 THEN b + (n - r) + 1 ELSE IF j <= b THEN j ELSE j + (n - r) + 1)
    BY <1>2, <1>5
  <2>2. /\ n - r \in Nat /\ b \in Nat \ {0} /\ i \in Nat \ {0} /\ j \in Nat \ {0}
    BY <1>2
  <2> HIDE DEF f
  <2>3. (IF i = 1 THEN b + (n - r) + 1 ELSE IF i <= b THEN i ELSE i + (n - r) + 1)
          = (IF j = 1 THEN b + (n - r) + 1 ELSE IF j <= b THEN j ELSE j + (n - r) + 1)
    BY <1>8, <2>1
  <2> QED BY <2>2, <2>3, OldestBehind, Zenon
<1>9. ASSUME NEW i \in 1..Len(a) PROVE t[f[i]] = a[i]
  <2>1. CASE i = 1
    <3>1. f[i] = b + (n - r) + 1 /\ b + (n - r) + 1 \in 1..(b + n) /\ ~ (b + (n - r) + 1 <= b)
      BY <1>2, <1>5, <2>1
    <3>2. t[f[i]] = s[(b + (n - r) + 1) - b]
      BY <1>6, <3>1
    <3>3. (b + (n - r) + 1) - b = (n - r) + 1 /\ 1 \in 1..r
      BY <1>2
    <3>4. a[i] = p[1]
      BY <1>2, <1>5, <2>1
    <3> HIDE DEF f
    <3> QED BY <1>1, <1>4, <3>2, <3>3, <3>4
  <2>2. CASE i # 1 /\ i <= b
    <3>1. f[i] = i /\ i \in 1..(b + n)
      BY <1>2, <1>5, <2>2
    <3>2. a[i] = buf[i]
      BY <1>2, <1>4, <1>5, <2>2
    <3> HIDE DEF f
    <3> QED BY <1>6, <2>2, <3>1, <3>2
  <2>3. CASE ~ (i <= b)
    <3>1. f[i] = i + (n - r) + 1 /\ i + (n - r) + 1 \in 1..(b + n) /\ ~ (i + (n - r) + 1 <= b)
      BY <1>2, <1>5, <2>3
    <3>2. t[f[i]] = s[(i + (n - r) + 1) - b]
      BY <1>6, <3>1
    <3>3. /\ i - b \in 1..(r - 1) /\ (i - b) + 1 \in 1..r
          /\ (i + (n - r) + 1) - b = (n - r) + ((i - b) + 1)
      BY <1>2, <1>5, <2>3
    <3>4. a[i] = c[i - b]
      BY <1>5, <2>3
    <3>5. c[i - b] = ring[(i - b) + 1]
      BY <1>3, <3>3
    <3> HIDE DEF f
    <3> QED BY <1>1, <3>2, <3>3, <3>4, <3>5
  <2> QED BY <2>1, <2>2, <2>3
<1> HIDE DEF f
<1>10. FoundAt(a, t, f)
  BY <1>7, <1>8, <1>9 DEF FoundAt
<1> QED BY <1>5, <1>6, <1>10, NoneDoubled DEF a, t, p, c, ring

\* A tick of the clock moves keys, or loses some of too many.
LEMMA KeysArrive ==
    ASSUME KeyInv, NEW keys \in BoundedSeq(Keys, MaxArrivals), Input!Interrupt(keys)
    PROVE  Input!Stream!Next
<1> DEFINE s == cons \o keys
           ring == Input!ConsHolds(s)
           t == KeysLeft \o keys
<1>1. stdin_buffer \in Seq(Keys) /\ cons \in Seq(Keys) /\ keys \in Seq(Keys) /\ s \in Seq(Keys)
  BY RingOfKeys DEF KeyInv, KeyTypes
<1>2. /\ t = stdin_buffer \o s /\ Len(t) = Len(stdin_buffer) + Len(s)
  BY <1>1, Regrouped DEF KeysLeft
<1>3. /\ IF ring = <<>>
         THEN cons' = <<>> /\ stdin_buffer' = stdin_buffer
         ELSE cons' = Tail(ring) /\ stdin_buffer' = Input!Put(Head(ring))
      /\ copied' = <<>>
  BY DEF Input!Interrupt
<1> HIDE DEF s
<1>4. /\ ring \in Seq(Keys) /\ Len(ring) \in 0..Len(s) /\ Len(s) \in Nat
      /\ Len(s) < CONSBUFSIZE => ring = s
  BY <1>1, RingEnds
<1>5. Len(stdin_buffer) \in Nat
  BY <1>1
<1>6. CASE ring = <<>> \/ Len(stdin_buffer) < STDIN_BUFSIZE
  <2>1. KeysLeft' = stdin_buffer \o ring
    <3>1. CASE ring = <<>>
      BY <1>3, <3>1 DEF KeysLeft
    <3>2. CASE ring # <<>>
      <4>1. stdin_buffer' = Append(stdin_buffer, Head(ring)) /\ cons' = Tail(ring)
        BY <1>3, <1>6, <3>2 DEF Input!Put
      <4>2. Append(stdin_buffer, Head(ring)) \o Tail(ring) = stdin_buffer \o ring
        BY <1>1, <1>4, <3>2, KeyMoved
      <4> HIDE DEF ring
      <4> QED BY <4>1, <4>2 DEF KeysLeft
    <3> QED BY <3>1, <3>2
  <2>2. CASE Len(s) < CONSBUFSIZE
    <3>1. KeysLeft' = t
      BY <1>2, <1>4, <2>1, <2>2
    <3> QED BY <1>3, <3>1, StreamOfKeys DEF Arrives
  <2>3. CASE ~ (Len(s) < CONSBUFSIZE)
    <3>1. Len(t) >= KeyLimit
      BY <1>2, <1>4, <1>5, <2>3, FewestKeys, BuffersAssumption
    <3>2. ~ Doubled(KeysLeft', t)
      BY <1>1, <1>2, <2>1, RingFound
    <3> QED BY <1>3, <3>1, <3>2, StreamOfKeys DEF Overruns
  <2> QED BY <2>2, <2>3
<1>7. CASE ring # <<>> /\ ~ (Len(stdin_buffer) < STDIN_BUFSIZE)
  <2>1. Len(ring) >= 1
    BY <1>4, <1>7, EmptySeq
  <2>2. Len(t) >= KeyLimit /\ Len(stdin_buffer) >= 1
    BY <1>2, <1>4, <1>5, <1>7, <2>1, FewestKeys, BuffersAssumption
  <2>3. stdin_buffer' = [stdin_buffer EXCEPT ![1] = Head(ring)] /\ cons' = Tail(ring)
    BY <1>3, <1>7 DEF Input!Put
  <2>4. ~ Doubled(KeysLeft', t)
    BY <1>1, <1>2, <1>7, <2>2, <2>3, KeyReplaced DEF KeysLeft
  <2> QED BY <1>3, <2>2, <2>4, StreamOfKeys DEF Overruns
<1> QED BY <1>6, <1>7

\* Whoever reads nothing takes nothing.
LEMMA NothingTaken ==
    ASSUME KeyInv, copied' = <<>>, cons' = cons, stdin_buffer' = stdin_buffer
    PROVE  Input!Stream!Next
<1> DEFINE w == stdin_buffer \o cons
<1>1. w \in Seq(Keys) /\ Len(w) \in Nat
  BY Joined DEF KeyInv, KeyTypes
<1> HIDE DEF w
<1>2. SubSeq(w, 1, 0) = <<>> /\ SubSeq(w, 0 + 1, Len(w)) = w
  BY <1>1
<1>3. w' = w
  BY DEF w
<1>4. Input!Stream!Take(0) /\ 0 \in 0..Len(w)
  BY <1>1, <1>2, <1>3 DEF Input!Stream!Take, w
<1> QED BY <1>4, Zenon DEF Input!Stream!Next, w

LEMMA KeysFlow ==
    ASSUME KeyInv, [ClockNext]_clock_vars
    PROVE  Input!Stream!Next \/ UNCHANGED <<stdin_buffer \o cons, copied>>
<1>1. CASE TimerInterrupt
  BY <1>1, KeysArrive DEF TimerInterrupt
<1>2. ASSUME NEW p \in Proc, do_sleep(p) PROVE Input!Stream!Next
  BY <1>2, NothingTaken DEF do_sleep, Input!InputIdle
<1>3. ASSUME NEW p \in Proc, stdin_read(p) PROVE Input!Stream!Next
  <2>1. CASE \E len \in 1..MaxLen : Input!dev_stdin_read(p, len)
    BY <2>1, KeysTaken DEF Input!dev_stdin_read
  <2>2. CASE Input!Resume(p)
    <3>1. CASE wakeup_flags[p] = "WT_KBD"
      <4>1. wanted[p] \in Nat \ {0}
        BY <2>2 DEF KeyInv, KeyTypes, Input!Resume, Input!Reading
      <4> QED BY <2>2, <3>1, <4>1, KeysTaken DEF Input!Resume
    <3>2. CASE wakeup_flags[p] # "WT_KBD"
      BY <2>2, <3>2, NothingTaken DEF Input!Resume
    <3> QED BY <3>1, <3>2
  <2> QED BY <1>3, <2>1, <2>2 DEF stdin_read
<1>4. ASSUME NEW p \in Proc, do_kill(p) PROVE Input!Stream!Next
  BY <1>4, NothingTaken DEF do_kill, Input!InputIdle, Input!Kill
<1>5. CASE UNCHANGED clock_vars
  BY <1>5 DEF clock_vars, input_vars
<1> QED BY <1>1, <1>2, <1>3, <1>4, <1>5 DEF ClockNext

\* The keyboard implements KeyStream: keys come out in the order in which they were
\* typed, each to one reader, and none is lost before the ring or the buffer is full;
\* even then none is read twice.
THEOREM KeysInOrder == ClockSpec => ImplementsKeyStream
<1>1. ClockInit => KeyInv /\ Input!Stream!Init
  <2>1. ClockInit => Input!Stream!Init
    BY DEF ClockInit, Input!Init, Input!Stream!Init
  <2> QED BY <2>1, KeysStart
<1>2. KeyInv /\ [ClockNext]_clock_vars => KeyInv'
  BY KeysKept
<1>3. KeyInv /\ [ClockNext]_clock_vars
        => [Input!Stream!Next]_<<stdin_buffer \o cons, copied>>
  BY KeysFlow
<1> QED BY <1>1, <1>2, <1>3, PTL DEF ClockSpec, ImplementsKeyStream, Input!Stream!Spec
===============================================================================
