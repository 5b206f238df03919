------------------------------ MODULE QueueLemmas ------------------------------
(***************************************************************************)
(* Wait queues in which nobody stands twice: what wait_queue_add and the   *)
(* removal of the first waiter do to those who stand in them, and with it  *)
(* down and up of a semaphore whose value is 0 or 1.  The proofs about     *)
(* sums, walks along lists and other loops use induction in the form of    *)
(* SetInduction, LoopEnds and LoopResult.                                  *)
(***************************************************************************)
EXTENDS Semaphores, SequencesExt, SequenceTheorems, NaturalsInduction, WellFoundedInduction, TLAPS

\* __up takes the head off the queue and leaves the other waiters in it.
LEMMA TailOfQueue ==
    ASSUME NEW P, NEW q \in Seq(P), q # <<>>,
           \A i, j \in DOMAIN q : q[i] = q[j] => i = j
    PROVE  /\ Tail(q) \in Seq(P) /\ Head(q) \in P
           /\ \A i, j \in DOMAIN Tail(q) : Tail(q)[i] = Tail(q)[j] => i = j
           /\ \A p : (\E i \in DOMAIN Tail(q) : Tail(q)[i] = p)
                     <=> (\E i \in DOMAIN q : q[i] = p) /\ p # Head(q)
<1>1. /\ Tail(q) \in Seq(P) /\ Head(q) \in P /\ Head(q) = q[1]
      /\ Len(q) \in Nat \ {0} /\ DOMAIN q = 1..Len(q)
      /\ DOMAIN Tail(q) = 1..(Len(q) - 1)
      /\ \A i \in 1..(Len(q) - 1) : Tail(q)[i] = q[i + 1]
  OBVIOUS
<1>2. \A i, j \in DOMAIN Tail(q) : Tail(q)[i] = Tail(q)[j] => i = j
  BY <1>1
<1>3. ASSUME NEW p, NEW i \in DOMAIN q, q[i] = p, p # Head(q)
      PROVE  \E j \in DOMAIN Tail(q) : Tail(q)[j] = p
  <2>1. i - 1 \in 1..(Len(q) - 1) /\ (i - 1) + 1 = i
    BY <1>1, <1>3
  <2>2. Tail(q)[i - 1] = q[i]
    BY <1>1, <2>1
  <2> QED BY <1>1, <1>3, <2>1, <2>2
<1>4. ASSUME NEW p, NEW j \in DOMAIN Tail(q), Tail(q)[j] = p
      PROVE  (\E i \in DOMAIN q : q[i] = p) /\ p # Head(q)
  <2>1. j + 1 \in DOMAIN q /\ q[j + 1] = p /\ j + 1 # 1 /\ 1 \in DOMAIN q
    BY <1>1, <1>4
  <2> QED BY <1>1, <2>1
<1> QED BY <1>1, <1>2, <1>3, <1>4

\* wait_queue_add puts a newcomer into the queue and disturbs nobody.
LEMMA AppendToQueue ==
    ASSUME NEW P, NEW q \in Seq(P), NEW n \in P,
           \A i, j \in DOMAIN q : q[i] = q[j] => i = j,
           ~ \E i \in DOMAIN q : q[i] = n
    PROVE  /\ Append(q, n) \in Seq(P)
           /\ \A i, j \in DOMAIN Append(q, n) :
                 Append(q, n)[i] = Append(q, n)[j] => i = j
           /\ \A p : (\E i \in DOMAIN Append(q, n) : Append(q, n)[i] = p)
                     <=> (\E i \in DOMAIN q : q[i] = p) \/ p = n
<1>1. /\ Append(q, n) \in Seq(P) /\ Len(q) \in Nat
      /\ DOMAIN q = 1..Len(q) /\ DOMAIN Append(q, n) = 1..(Len(q) + 1)
      /\ \A i \in 1..Len(q) : Append(q, n)[i] = q[i]
      /\ Append(q, n)[Len(q) + 1] = n
  OBVIOUS
<1>2. \A i \in 1..(Len(q) + 1) : i \in 1..Len(q) \/ i = Len(q) + 1
  BY <1>1
<1>3. Len(q) + 1 \in 1..(Len(q) + 1) /\ 1..Len(q) \subseteq 1..(Len(q) + 1)
  BY <1>1
<1> QED BY <1>1, <1>2, <1>3, Zenon
-----------------------------------------------------------------------------
(* Pieces of lists *)

\* A piece of a list, and two lists joined.
LEMMA Piece ==
    ASSUME NEW P, NEW q \in Seq(P), NEW m \in 1..(Len(q) + 1), NEW n \in (m - 1)..Len(q)
    PROVE  /\ SubSeq(q, m, n) \in Seq(P) /\ Len(SubSeq(q, m, n)) = n - m + 1
           /\ \A i \in 1..(n - m + 1) : SubSeq(q, m, n)[i] = q[m + i - 1]
<1>1. Len(q) \in Nat /\ m \in Int /\ n \in Int /\ m <= n + 1 /\ m..n \subseteq 1..Len(q)
  BY LenProperties
<1>2. \A i \in m..n : q[i] \in P
  BY <1>1, ElementOfSeq
<1> DEFINE r == SubSeq(q, m, n)
<1>3. /\ r \in Seq(P) /\ Len(r) = IF m <= n THEN n - m + 1 ELSE 0
      /\ \A i \in 1..(n - m + 1) : r[i] = q[m + i - 1]
  BY <1>1, <1>2, SubSeqProperties
<1> HIDE DEF r
<1>4. Len(r) = n - m + 1
  BY <1>1, <1>3
<1>5. QED BY <1>3, <1>4 DEF r

LEMMA Joined ==
    ASSUME NEW P, NEW q \in Seq(P), NEW t \in Seq(P)
    PROVE  /\ q \o t \in Seq(P) /\ Len(q \o t) = Len(q) + Len(t)
           /\ \A i \in 1..(Len(q) + Len(t)) :
                 (q \o t)[i] = IF i <= Len(q) THEN q[i] ELSE t[i - Len(q)]
  BY ConcatProperties


\* A list with x put in behind its first k elements and t behind that.
Inserted(q, k, x, t) == SubSeq(q, 1, k) \o <<x>> \o t

LEMMA InsertedProperties ==
    ASSUME NEW P, NEW q \in Seq(P), NEW k \in 0..Len(q), NEW x \in P, NEW t \in Seq(P)
    PROVE  LET r == Inserted(q, k, x, t)
           IN  /\ r \in Seq(P) /\ Len(r) = k + 1 + Len(t)
               /\ \A j \in 1..k : r[j] = q[j]
               /\ r[k + 1] = x
               /\ \A j \in 1..Len(t) : r[k + 1 + j] = t[j]
<1> DEFINE a == SubSeq(q, 1, k)
           b == a \o <<x>>
           r == b \o t
<1>1. Len(q) \in Nat /\ Len(t) \in Nat /\ k \in Nat
  BY LenProperties
<1>2. 1 \in 1..(Len(q) + 1) /\ k \in (1 - 1)..Len(q)
  BY <1>1
<1>3. /\ a \in Seq(P) /\ Len(a) = k - 1 + 1
      /\ \A j \in 1..(k - 1 + 1) : a[j] = q[1 + j - 1]
  BY <1>2, Piece, Zenon
<1>4. a \in Seq(P) /\ Len(a) = k /\ \A j \in 1..k : a[j] = q[j]
  BY <1>1, <1>3
<1> HIDE DEF a
<1>5. <<x>> \in Seq(P) /\ Len(<<x>>) = 1 /\ <<x>>[1] = x
  OBVIOUS
<1>6. /\ b \in Seq(P) /\ Len(b) = Len(a) + Len(<<x>>)
      /\ \A j \in 1..(Len(a) + Len(<<x>>)) :
            b[j] = IF j <= Len(a) THEN a[j] ELSE <<x>>[j - Len(a)]
  BY <1>4, <1>5, Joined, Zenon
<1>7. /\ b \in Seq(P) /\ Len(b) = k + 1
      /\ \A j \in 1..k : b[j] = q[j]
      /\ b[k + 1] = x
  <2>1. /\ b \in Seq(P) /\ Len(b) = k + 1
        /\ \A j \in 1..(k + 1) : b[j] = IF j <= k THEN a[j] ELSE <<x>>[j - k]
    BY <1>4, <1>5, <1>6
  <2>2. \A j \in 1..k : j \in 1..(k + 1) /\ j <= k
    BY <1>1
  <2>3. k + 1 \in 1..(k + 1) /\ ~ (k + 1 <= k) /\ (k + 1) - k = 1
    BY <1>1
  <2>4. b[k + 1] = <<x>>[(k + 1) - k]
    BY <2>1, <2>3
  <2>5. b[k + 1] = x
    BY <1>5, <2>3, <2>4
  <2>6. \A j \in 1..k : b[j] = q[j]
    BY <1>4, <2>1, <2>2
  <2> QED BY <2>1, <2>5, <2>6
<1> HIDE DEF b
<1>8. /\ r \in Seq(P) /\ Len(r) = Len(b) + Len(t)
      /\ \A j \in 1..(Len(b) + Len(t)) : r[j] = IF j <= Len(b) THEN b[j] ELSE t[j - Len(b)]
  BY <1>7, Joined, Zenon
<1> HIDE DEF r
<1>9. \A j \in 1..k : r[j] = q[j]
  BY <1>1, <1>7, <1>8
<1>10. r[k + 1] = x
  BY <1>1, <1>7, <1>8
<1>11. ASSUME NEW j \in 1..Len(t) PROVE r[k + 1 + j] = t[j]
  <2>1. /\ k + 1 + j \in 1..(Len(b) + Len(t)) /\ ~ (k + 1 + j <= Len(b))
        /\ (k + 1 + j) - Len(b) = j
    BY <1>1, <1>7
  <2>2. r[k + 1 + j] = t[(k + 1 + j) - Len(b)]
    BY <1>8, <2>1
  <2> QED BY <2>1, <2>2
<1>12. r \in Seq(P) /\ Len(r) = k + 1 + Len(t)
  BY <1>7, <1>8
<1> QED BY <1>9, <1>10, <1>11, <1>12 DEF r, b, a, Inserted

\* A list of its first k elements and t behind them.
Rejoined(q, k, t) == SubSeq(q, 1, k) \o t

LEMMA RejoinedProperties ==
    ASSUME NEW P, NEW q \in Seq(P), NEW k \in 0..Len(q), NEW t \in Seq(P)
    PROVE  LET r == Rejoined(q, k, t)
           IN  /\ r \in Seq(P) /\ Len(r) = k + Len(t)
               /\ \A j \in 1..k : r[j] = q[j]
               /\ \A j \in 1..Len(t) : r[k + j] = t[j]
<1> DEFINE a == SubSeq(q, 1, k)
           r == a \o t
<1>1. Len(q) \in Nat /\ Len(t) \in Nat /\ k \in Nat
  BY LenProperties
<1>2. 1 \in 1..(Len(q) + 1) /\ k \in (1 - 1)..Len(q)
  BY <1>1
<1>3. /\ a \in Seq(P) /\ Len(a) = k - 1 + 1
      /\ \A j \in 1..(k - 1 + 1) : a[j] = q[1 + j - 1]
  BY <1>2, Piece, Zenon
<1>4. a \in Seq(P) /\ Len(a) = k /\ \A j \in 1..k : a[j] = q[j]
  BY <1>1, <1>3
<1> HIDE DEF a
<1>5. /\ r \in Seq(P) /\ Len(r) = Len(a) + Len(t)
      /\ \A j \in 1..(Len(a) + Len(t)) : r[j] = IF j <= Len(a) THEN a[j] ELSE t[j - Len(a)]
  BY <1>4, Joined, Zenon
<1> HIDE DEF r
<1>6. \A j \in 1..k : r[j] = q[j]
  BY <1>1, <1>4, <1>5
<1>7. ASSUME NEW j \in 1..Len(t) PROVE r[k + j] = t[j]
  <2>1. k + j \in 1..(Len(a) + Len(t)) /\ ~ (k + j <= Len(a)) /\ (k + j) - Len(a) = j
    BY <1>1, <1>4
  <2>2. r[k + j] = t[(k + j) - Len(a)]
    BY <1>5, <2>1
  <2> QED BY <2>1, <2>2
<1>8. r \in Seq(P) /\ Len(r) = k + Len(t)
  BY <1>4, <1>5
<1> QED BY <1>6, <1>7, <1>8 DEF r, a, Rejoined

\* What follows the first k elements of a list.
RestOf(q, k) == SubSeq(q, k + 1, Len(q))

LEMMA RestProperties ==
    ASSUME NEW P, NEW q \in Seq(P), NEW k \in 0..Len(q)
    PROVE  LET t == RestOf(q, k)
           IN  /\ t \in Seq(P) /\ Len(t) = Len(q) - k
               /\ \A j \in 1..(Len(q) - k) : t[j] = q[k + j]
<1> DEFINE t == SubSeq(q, k + 1, Len(q))
<1>1. Len(q) \in Nat /\ k \in Nat
  BY LenProperties
<1>2. k + 1 \in 1..(Len(q) + 1) /\ Len(q) \in ((k + 1) - 1)..Len(q)
  BY <1>1
<1>3. /\ t \in Seq(P) /\ Len(t) = Len(q) - (k + 1) + 1
      /\ \A j \in 1..(Len(q) - (k + 1) + 1) : t[j] = q[(k + 1) + j - 1]
  BY <1>2, Piece, Zenon
<1> HIDE DEF t
<1>4. \A j \in 1..(Len(q) - k) : t[j] = q[k + j]
  BY <1>1, <1>3
<1> QED BY <1>1, <1>3, <1>4 DEF t, RestOf

\* What list_del leaves of a list when it takes out the element at i.
TakenOut(q, i) == SubSeq(q, 1, i - 1) \o SubSeq(q, i + 1, Len(q))

LEMMA TakenOutProperties ==
    ASSUME NEW P, NEW q \in Seq(P), NEW i \in 1..Len(q)
    PROVE  /\ TakenOut(q, i) \in Seq(P) /\ Len(TakenOut(q, i)) = Len(q) - 1
           /\ \A j \in 1..(Len(q) - 1) :
                 TakenOut(q, i)[j] = IF j < i THEN q[j] ELSE q[j + 1]
<1> DEFINE n == Len(q)
           t == RestOf(q, i)
           m == i - 1
           r == Rejoined(q, m, t)
<1>1. n \in Nat /\ m \in 0..n /\ i \in 0..n /\ m + 1 = i
  BY LenProperties
<1>2. t \in Seq(P) /\ Len(t) = n - i /\ \A j \in 1..(n - i) : t[j] = q[i + j]
  BY <1>1, RestProperties
<1>3. TakenOut(q, i) = r
  BY DEF TakenOut, Rejoined, RestOf
<1> HIDE DEF t, m
<1>4. /\ r \in Seq(P) /\ Len(r) = m + Len(t)
      /\ \A j \in 1..m : r[j] = q[j]
      /\ \A j \in 1..Len(t) : r[m + j] = t[j]
  <2>1. t \in Seq(P) /\ m \in 0..n
    BY <1>1, <1>2
  <2>2. r \in Seq(P)
    BY <2>1, RejoinedProperties
  <2>3. Len(r) = m + Len(t)
    BY <2>1, RejoinedProperties
  <2>4. \A j \in 1..m : r[j] = q[j]
    BY <2>1, RejoinedProperties
  <2>5. \A j \in 1..Len(t) : r[m + j] = t[j]
    BY <2>1, RejoinedProperties
  <2> QED BY <2>2, <2>3, <2>4, <2>5
<1> HIDE DEF r, n
<1>5. ASSUME NEW j \in 1..(n - 1) PROVE r[j] = IF j < i THEN q[j] ELSE q[j + 1]
  <2>1. CASE j < i
    <3>1. j \in 1..m
      BY <1>1, <2>1
    <3>2. r[j] = q[j]
      BY <1>4, <3>1
    <3> QED BY <2>1, <3>2
  <2>2. CASE j >= i
    <3> DEFINE l == j - m
    <3>1. l \in 1..(n - i) /\ m + l = j /\ i + l = j + 1 /\ ~ (j < i)
      BY <1>1, <2>2
    <3> HIDE DEF l
    <3>2. r[m + l] = t[l] /\ t[l] = q[i + l]
      BY <1>2, <1>4, <3>1
    <3> QED BY <3>1, <3>2
  <2> QED BY <1>1, <2>1, <2>2
<1>6. Len(r) = n - 1
  BY <1>1, <1>2, <1>4
<1> QED BY <1>3, <1>4, <1>5, <1>6 DEF n

\* Those who stood in the queue and were not taken out still do.
LEMMA OthersStay ==
    ASSUME NEW P, NEW q \in Seq(P), NEW i \in 1..Len(q),
           \A j, k \in DOMAIN q : q[j] = q[k] => j = k
    PROVE  LET r == TakenOut(q, i)
           IN  /\ r \in Seq(P)
               /\ \A j, k \in DOMAIN r : r[j] = r[k] => j = k
               /\ \A p : (\E j \in DOMAIN r : r[j] = p)
                         <=> (\E j \in DOMAIN q : q[j] = p) /\ p # q[i]
<1> DEFINE r == TakenOut(q, i)
           n == Len(q)
           F(j) == IF j < i THEN j ELSE j + 1
<1>1. /\ n \in Nat /\ DOMAIN q = 1..n /\ i \in 1..n
      /\ \A j, k \in 1..n : q[j] = q[k] => j = k
  BY LenProperties
<1>2. /\ r \in Seq(P) /\ Len(r) = n - 1
      /\ \A j \in 1..(n - 1) : r[j] = IF j < i THEN q[j] ELSE q[j + 1]
  BY TakenOutProperties
<1>3. DOMAIN r = 1..(n - 1)
  BY <1>2, LenProperties
<1> HIDE DEF r, n
<1>4. \A j \in 1..(n - 1) : F(j) \in 1..n /\ F(j) # i /\ r[j] = q[F(j)]
  BY <1>1, <1>2
<1>5. \A j, k \in 1..(n - 1) : F(j) = F(k) => j = k
  BY <1>1
<1>6. \A k \in 1..n : k # i => \E j \in 1..(n - 1) : F(j) = k
  <2> SUFFICES ASSUME NEW k \in 1..n, k # i PROVE \E j \in 1..(n - 1) : F(j) = k
    OBVIOUS
  <2>1. CASE k < i
    <3>1. k \in 1..(n - 1) /\ F(k) = k
      BY <1>1, <2>1
    <3> QED BY <3>1
  <2>2. CASE k > i
    <3>1. k - 1 \in 1..(n - 1) /\ F(k - 1) = k
      BY <1>1, <2>2
    <3> QED BY <3>1
  <2> QED BY <1>1, <2>1, <2>2
<1> HIDE DEF F
<1>7. ASSUME NEW j \in 1..(n - 1), NEW k \in 1..(n - 1), r[j] = r[k] PROVE j = k
  BY <1>1, <1>4, <1>5, <1>7, Zenon
<1>8. ASSUME NEW p, NEW k \in 1..n, q[k] = p, p # q[i]
      PROVE  \E j \in 1..(n - 1) : r[j] = p
  BY <1>1, <1>4, <1>6, <1>8, Zenon
<1>9. ASSUME NEW p, NEW j \in 1..(n - 1), r[j] = p
      PROVE  (\E k \in 1..n : q[k] = p) /\ p # q[i]
  <2>1. F(j) \in 1..n /\ F(j) # i /\ p = q[F(j)]
    BY <1>4, <1>9
  <2>2. q[F(j)] # q[i]
    BY <1>1, <2>1
  <2> QED BY <2>1, <2>2
<1> QED BY <1>1, <1>2, <1>3, <1>7, <1>8, <1>9, Zenon DEF r

\* RemoveFirst takes out the only element of its kind.
LEMMA FirstTaken ==
    ASSUME NEW P, NEW q \in Seq(P), NEW i \in 1..Len(q),
           \A j, k \in 1..Len(q) : q[j] = q[k] => j = k
    PROVE  RemoveFirst(q, q[i]) = TakenOut(q, i)
<1> DEFINE I == {j \in 1..Len(q) : q[j] = q[i]}
<1>1. I = {i}
  OBVIOUS
<1>2. Min({i}) = i
  <2>1. i \in {i} /\ \A y \in {i} : i <= y
    BY LenProperties
  <2> QED BY <2>1 DEF Min
<1>3. RemoveFirst(q, q[i]) = RemoveAt(q, i)
  BY <1>1, <1>2 DEF RemoveFirst, SelectInSeq
<1> QED BY <1>3 DEF RemoveAt, TakenOut

\* RemoveFirst takes p out of a list in which it stands once, and nobody else.
LEMMA LeavesList ==
    ASSUME NEW P, NEW q \in Seq(P), NEW p,
           \A j, k \in DOMAIN q : q[j] = q[k] => j = k
    PROVE  LET r == RemoveFirst(q, p)
           IN  /\ r \in Seq(P)
               /\ \A j, k \in DOMAIN r : r[j] = r[k] => j = k
               /\ ToSet(r) = ToSet(q) \ {p}
<1> DEFINE r == RemoveFirst(q, p)
<1>1. Len(q) \in Nat /\ DOMAIN q = 1..Len(q)
  BY LenProperties
<1>2. CASE ~ \E i \in 1..Len(q) : q[i] = p
  <2>1. r = q
    BY <1>2 DEF RemoveFirst
  <2> QED BY <1>1, <1>2, <2>1 DEF ToSet
<1>3. CASE \E i \in 1..Len(q) : q[i] = p
  <2>1. PICK i \in 1..Len(q) : q[i] = p
    BY <1>3
  <2>5. r = TakenOut(q, i)
    BY <1>1, <2>1, FirstTaken
  <2> HIDE DEF r
  <2>6. /\ r \in Seq(P)
        /\ \A j, k \in DOMAIN r : r[j] = r[k] => j = k
        /\ \A s : (\E j \in DOMAIN r : r[j] = s)
                  <=> (\E j \in DOMAIN q : q[j] = s) /\ s # q[i]
    <3> DEFINE w == TakenOut(q, i)
    <3>1. /\ w \in Seq(P)
          /\ \A j, k \in DOMAIN w : w[j] = w[k] => j = k
          /\ \A s : (\E j \in DOMAIN w : w[j] = s)
                    <=> (\E j \in DOMAIN q : q[j] = s) /\ s # q[i]
      BY <2>1, OthersStay
    <3> HIDE DEF w
    <3>2. r = w
      BY <2>5 DEF w
    <3> QED BY <3>1, <3>2
  <2>7. ToSet(r) = ToSet(q) \ {p}
    <3>1. \A s : s \in ToSet(r) <=> \E j \in DOMAIN r : r[j] = s
      BY Zenon DEF ToSet
    <3>2. \A s : s \in ToSet(q) <=> \E j \in DOMAIN q : q[j] = s
      BY Zenon DEF ToSet
    <3>3. \A s : s \in ToSet(r) <=> s \in ToSet(q) /\ s # p
      BY <2>1, <2>6, <3>1, <3>2, Zenon
    <3> QED BY <3>3, Zenon
  <2> QED BY <2>6, <2>7, Zenon DEF r
<1> QED BY <1>2, <1>3

\* list_add puts a newcomer before the others.
LEMMA JoinsList ==
    ASSUME NEW P, NEW q \in Seq(P), NEW n \in P, n \notin ToSet(q),
           \A j, k \in DOMAIN q : q[j] = q[k] => j = k
    PROVE  LET r == <<n>> \o q
           IN  /\ r \in Seq(P) /\ Len(r) = Len(q) + 1
               /\ r[1] = n /\ \A i \in 1..Len(q) : r[i + 1] = q[i]
               /\ \A j, k \in DOMAIN r : r[j] = r[k] => j = k
               /\ ToSet(r) = ToSet(q) \cup {n}
<1> DEFINE r == <<n>> \o q
           len == Len(q)
<1>1. len \in Nat /\ DOMAIN q = 1..len
  BY LenProperties
<1>2. <<n>> \in Seq(P) /\ Len(<<n>>) = 1 /\ <<n>>[1] = n
  OBVIOUS
<1>3. /\ r \in Seq(P) /\ Len(r) = Len(<<n>>) + len
      /\ \A i \in 1..(Len(<<n>>) + len) :
            r[i] = IF i <= Len(<<n>>) THEN <<n>>[i] ELSE q[i - Len(<<n>>)]
  BY <1>2, Joined, Zenon
<1>4. \A i \in 1..(1 + len) : r[i] = IF i <= 1 THEN <<n>>[i] ELSE q[i - 1]
  BY <1>2, <1>3
<1>5. DOMAIN r = 1..(len + 1) /\ r \in Seq(P) /\ Len(r) = len + 1
  BY <1>1, <1>2, <1>3, LenProperties
<1> HIDE DEF r
<1>6. \A i \in 1..(len + 1) : i = 1 \/ (i - 1 \in 1..len /\ r[i] = q[i - 1])
  BY <1>1, <1>4
<1>7. r[1] = n /\ 1 \in 1..(len + 1)
  <2>1. r[1] = <<n>>[1]
    BY <1>1, <1>4
  <2> QED BY <1>1, <1>2, <2>1
<1>8. \A i \in 1..len : i + 1 \in 1..(len + 1) /\ r[i + 1] = q[i]
  BY <1>1, <1>4
<1> HIDE DEF len
<1>9. \A i \in 1..len : q[i] # n
  BY <1>1 DEF ToSet
<1>10. ASSUME NEW j \in 1..(len + 1), NEW k \in 1..(len + 1), r[j] = r[k] PROVE j = k
  <2>1. CASE j = 1
    BY <1>6, <1>7, <1>9, <1>10, <2>1
  <2>2. CASE k = 1
    BY <1>6, <1>7, <1>9, <1>10, <2>2
  <2>3. CASE j # 1 /\ k # 1
    <3>1. j - 1 \in 1..len /\ k - 1 \in 1..len /\ q[j - 1] = q[k - 1]
      BY <1>6, <1>10, <2>3
    <3>2. j - 1 = k - 1
      BY <1>1, <3>1
    <3> QED BY <1>1, <3>2
  <2> QED BY <2>1, <2>2, <2>3
<1>11. \A s : (\E i \in 1..(len + 1) : r[i] = s) <=> (\E i \in 1..len : q[i] = s) \/ s = n
  BY <1>6, <1>7, <1>8
<1>12. ToSet(r) = ToSet(q) \cup {n}
  <2>1. \A s : s \in ToSet(r) <=> \E i \in 1..(len + 1) : r[i] = s
    BY <1>5, Zenon DEF ToSet
  <2>2. \A s : s \in ToSet(q) <=> \E i \in 1..len : q[i] = s
    BY <1>1, Zenon DEF ToSet
  <2>3. \A s : s \in ToSet(r) <=> s \in ToSet(q) \/ s = n
    BY <1>11, <2>1, <2>2, Zenon
  <2> QED BY <2>3
<1>13. \A j, k \in DOMAIN r : r[j] = r[k] => j = k
  BY <1>5, <1>10
<1> QED BY <1>5, <1>7, <1>8, <1>12, <1>13 DEF r, len

-----------------------------------------------------------------------------
(* Induction over a set of numbers *)

LEMMA LeastNatural ==
    ASSUME NEW S, S \subseteq Nat, S # {}
    PROVE  \E least \in S : \A n \in S : least <= n
<1>1. IsWellFoundedOn(OpToRel(<, Nat), Nat)
  BY NatLessThanWellFounded
<1>2. PICK least \in S : \A n \in S : ~ (<<n, least>> \in OpToRel(<, Nat))
  BY <1>1, WFMin, Zenon
<1>3. \A n \in S : ~ (n < least)
  BY <1>2 DEF OpToRel
<1> QED BY <1>3

LEMMA SetInduction ==
    ASSUME NEW S, 0 \in S, \A n \in Nat : n \in S => n + 1 \in S
    PROVE  Nat \subseteq S
<1> DEFINE missing == Nat \ S
<1> SUFFICES ASSUME missing # {} PROVE FALSE
  OBVIOUS
<1>1. PICK least \in missing : \A n \in missing : least <= n
  BY LeastNatural, Zenon
<1>2. least - 1 \in Nat /\ ~ (least - 1 \in missing)
  BY <1>1
<1> QED BY <1>1, <1>2

-----------------------------------------------------------------------------
(* Loops *)

\* A loop over the places D that goes from a place to next of it until it comes to
\* one that has a result in val.
Terminates(D, next, val, rank, B) ==
    /\ rank \in [D -> Nat] /\ B \in Nat
    /\ \A x \in D : /\ rank[x] < B
                    /\ x \notin DOMAIN val => next[x] \in D /\ rank[next[x]] < rank[x]

\* f is what the loop comes to from each place.
Outcome(D, next, val, f) ==
    /\ f = [x \in D |-> f[x]]
    /\ \A x \in D : f[x] = IF x \in DOMAIN val THEN val[x] ELSE f[next[x]]

\* The loop keeps the invariant I and has results in G.
Keeps(next, val, I, G) ==
    \A x \in I : IF x \in DOMAIN val THEN val[x] \in G ELSE next[x] \in I

\* A recursive function exists if the loop it describes ends, that is if a rank
\* goes down in each round.
LEMMA LoopEnds ==
    ASSUME NEW D, NEW next, NEW val, NEW rank, NEW B, Terminates(D, next, val, rank, B)
    PROVE  \E f : Outcome(D, next, val, f)
<1> DEFINE E(n) == {x \in D : rank[x] < n}
           Good(n, f) ==
               f = [x \in E(n) |-> IF x \in DOMAIN val THEN val[x] ELSE f[next[x]]]
           S == {n \in Nat : \E f : Good(n, f)}
<1> USE DEF Terminates
<1>1. 0 \in S
  <2> DEFINE f == [x \in {} |-> {}]
  <2>1. E(0) = {}
    OBVIOUS
  <2>2. Good(0, f)
    BY <2>1
  <2> QED BY <2>2
<1>2. ASSUME NEW n \in Nat, n \in S PROVE n + 1 \in S
  <2>1. PICK f : Good(n, f)
    BY <1>2
  <2> DEFINE g == [x \in E(n + 1) |-> IF x \in DOMAIN val THEN val[x] ELSE f[next[x]]]
  <2>2. ASSUME NEW x \in E(n + 1), x \notin DOMAIN val PROVE g[next[x]] = f[next[x]]
    <3>1. next[x] \in E(n) /\ next[x] \in E(n + 1)
      BY <2>2
    <3>2. g[next[x]] = IF next[x] \in DOMAIN val THEN val[next[x]] ELSE f[next[next[x]]]
      BY <3>1
    <3>3. f[next[x]] = IF next[x] \in DOMAIN val THEN val[next[x]] ELSE f[next[next[x]]]
      BY <2>1, <3>1
    <3> QED BY <3>2, <3>3
  <2>3. Good(n + 1, g)
    BY <2>2
  <2>4. \E h : Good(n + 1, h)
    <3> HIDE DEF Good
    <3> QED BY <2>3, Zenon
  <2> QED BY <2>4
<1> HIDE DEF S
<1>3. B \in S
  BY <1>1, <1>2, SetInduction
<1>4. E(B) = D
  OBVIOUS
<1>5. PICK f : Good(B, f)
  BY <1>3 DEF S
<1>6. Outcome(D, next, val, f)
  BY <1>4, <1>5 DEF Outcome
<1> QED BY <1>6, Zenon

\* What every round keeps of an invariant of the loop, its result has.
LEMMA LoopResult ==
    ASSUME NEW D, NEW next, NEW val, NEW rank, NEW B, Terminates(D, next, val, rank, B),
           NEW f, Outcome(D, next, val, f),
           NEW I \in SUBSET D, NEW G, Keeps(next, val, I, G)
    PROVE  \A x \in I : f[x] \in G
<1> USE DEF Terminates, Outcome, Keeps
<1> DEFINE S == {n \in Nat : \A x \in I : rank[x] < n => f[x] \in G}
<1>1. 0 \in S
  OBVIOUS
<1>2. ASSUME NEW n \in Nat, n \in S PROVE n + 1 \in S
  <2>1. ASSUME NEW x \in I, rank[x] < n + 1 PROVE f[x] \in G
    <3>1. f[x] = IF x \in DOMAIN val THEN val[x] ELSE f[next[x]]
      OBVIOUS
    <3>2. CASE x \in DOMAIN val
      BY <3>1, <3>2
    <3>3. CASE x \notin DOMAIN val
      <4>1. next[x] \in I /\ rank[next[x]] < n
        BY <2>1, <3>3
      <4> QED BY <1>2, <3>1, <3>3, <4>1
    <3> QED BY <3>2, <3>3
  <2>2. n + 1 \in Nat
    OBVIOUS
  <2> QED BY <2>1, <2>2, Zenon
<1> HIDE DEF S
<1>3. Nat \subseteq S
  BY <1>1, <1>2, SetInduction
<1> SUFFICES ASSUME NEW x \in I PROVE f[x] \in G
  OBVIOUS
<1>4. rank[x] + 1 \in S /\ rank[x] < rank[x] + 1
  BY <1>3
<1> QED BY <1>4 DEF S

\* f takes m steps from x.
Repeats(f, K, x, step, m) ==
    f \in [0..m -> K] /\ \A n \in 0..m : f[n] = IF n = 0 THEN x ELSE step[n][f[n - 1]]

LEMMA Repeated ==
    ASSUME NEW K, NEW x \in K, NEW m \in Nat, NEW step \in [1..m -> [K -> K]]
    PROVE  \E f : Repeats(f, K, x, step, m)
<1> DEFINE Good(j, f) == Repeats(f, K, x, step, j)
           S == {j \in Nat : j <= m => \E f : Good(j, f)}
<1>1. 0 \in S
  <2> DEFINE f == [n \in 0..0 |-> x]
  <2>1. Good(0, f)
    BY DEF Repeats
  <2> QED BY <2>1
<1>2. ASSUME NEW j \in Nat, j \in S, j + 1 <= m PROVE j + 1 \in S
  <2>1. PICK f : Good(j, f)
    BY <1>2
  <2> DEFINE g == [n \in 0..(j + 1) |-> IF n = 0 THEN x ELSE step[n][f[n - 1]]]
  <2>2. \A n \in 0..j : g[n] = f[n]
    BY <2>1 DEF Repeats
  <2>3. \A n \in 0..(j + 1) : n # 0 => n - 1 \in 0..j /\ f[n - 1] \in K /\ step[n] \in [K -> K]
    BY <1>2, <2>1 DEF Repeats
  <2>4. Good(j + 1, g)
    BY <2>2, <2>3 DEF Repeats
  <2> HIDE DEF Good
  <2> QED BY <2>4
<1>3. \A j \in Nat : j \in S => j + 1 \in S
  <2> HIDE DEF Good
  <2> QED BY <1>2
<1> HIDE DEF S
<1>4. m \in S
  BY <1>1, <1>3, SetInduction
<1> QED BY <1>4 DEF S

-----------------------------------------------------------------------------
(* Folds: FoldLeft chooses a function over the sets of places of the list.  *)

LEMMA GreatestPlace ==
    ASSUME NEW n \in Nat, NEW s \in SUBSET (1..n), s # {}
    PROVE  Max(s) \in s /\ \A k \in s : k <= Max(s)
<1> DEFINE T == {n - k : k \in s}
<1>1. T \subseteq Nat /\ T # {}
  OBVIOUS
<1>2. PICK least \in T : \A t \in T : least <= t
  <2> HIDE DEF T
  <2> QED BY <1>1, LeastNatural
<1>3. PICK k \in s : least = n - k
  BY <1>2
<1>4. \A j \in s : k >= j
  <2> SUFFICES ASSUME NEW j \in s PROVE k >= j
    OBVIOUS
  <2>1. n - j \in T
    OBVIOUS
  <2> QED BY <1>2, <1>3, <2>1
<1>5. \E x \in s : \A y \in s : x >= y
  BY <1>4
<1> QED BY <1>5 DEF Max

LEMMA FirstPlaces ==
    ASSUME NEW n \in Nat, NEW j \in 1..n
    PROVE  /\ Max(1..j) = j /\ (1..j) \ {j} = 1..(j - 1)
           /\ 1..j \in SUBSET (1..n) /\ 1..j # {}
<1>1. 1..j \in SUBSET (1..n) /\ j \in 1..j
  OBVIOUS
<1>2. Max(1..j) \in 1..j /\ \A k \in 1..j : k <= Max(1..j)
  BY <1>1, GreatestPlace
<1>3. Max(1..j) = j
  BY <1>1, <1>2
<1>4. (1..j) \ {j} = 1..(j - 1)
  OBVIOUS
<1> QED BY <1>1, <1>3, <1>4

\* g gives each set of places what the steps for them make of x, in their order.
Steps(g, K, n, x, step) ==
    /\ g \in [SUBSET (1..n) -> K]
    /\ \A s \in SUBSET (1..n) :
          g[s] = IF s = {} THEN x ELSE step[Max(s)][g[s \ {Max(s)}]]

LEMMA StepsExist ==
    ASSUME NEW K, NEW x \in K, NEW n \in Nat, NEW step \in [1..n -> [K -> K]]
    PROVE  \E g : Steps(g, K, n, x, step)
<1> DEFINE S == {m \in Nat : m <= n => \E g : Steps(g, K, m, x, step)}
<1>1. 0 \in S
  <2> DEFINE g == [s \in SUBSET (1..0) |-> x]
  <2>1. \A s \in SUBSET (1..0) : s = {}
    OBVIOUS
  <2>2. Steps(g, K, 0, x, step)
    BY <2>1 DEF Steps
  <2> QED BY <2>2
<1>2. ASSUME NEW m \in Nat, m \in S, m + 1 <= n PROVE m + 1 \in S
  <2>1. PICK g : Steps(g, K, m, x, step)
    BY <1>2
  <2>2. g \in [SUBSET (1..m) -> K] /\ step[m + 1] \in [K -> K]
    BY <1>2, <2>1 DEF Steps
  <2> DEFINE Top(s) == step[m + 1][g[s \ {m + 1}]]
             h == [s \in SUBSET (1..(m + 1)) |-> IF m + 1 \in s THEN Top(s) ELSE g[s]]
  <2>3. ASSUME NEW s \in SUBSET (1..(m + 1))
        PROVE  /\ m + 1 \in s => Top(s) \in K
               /\ m + 1 \notin s => s \in SUBSET (1..m) /\ g[s] \in K
    <3>1. s \ {m + 1} \in SUBSET (1..m)
      OBVIOUS
    <3>2. g[s \ {m + 1}] \in K
      BY <2>2, <3>1
    <3>3. m + 1 \notin s => s \in SUBSET (1..m)
      OBVIOUS
    <3> QED BY <2>2, <3>2, <3>3
  <2>4. ASSUME NEW s \in SUBSET (1..(m + 1)), m + 1 \in s
        PROVE  s # {} /\ h[s] = step[Max(s)][h[s \ {Max(s)}]]
    <3>1. Max(s) = m + 1
      <4>1. m + 1 \in Nat /\ s # {}
        BY <2>4
      <4>2. Max(s) \in s /\ \A k \in s : k <= Max(s)
        BY <4>1, GreatestPlace
      <4>3. Max(s) \in 1..(m + 1) /\ m + 1 <= Max(s)
        BY <2>4, <4>2
      <4> QED BY <4>3
    <3>2. s \ {m + 1} \in SUBSET (1..(m + 1)) /\ m + 1 \notin s \ {m + 1}
      OBVIOUS
    <3>3. h[s \ {m + 1}] = g[s \ {m + 1}]
      BY <3>2
    <3>4. h[s] = Top(s)
      BY <2>4
    <3> HIDE DEF h
    <3> QED BY <2>4, <3>1, <3>3, <3>4
  <2>5. ASSUME NEW s \in SUBSET (1..(m + 1)), m + 1 \notin s
        PROVE  h[s] = IF s = {} THEN x ELSE step[Max(s)][h[s \ {Max(s)}]]
    <3>1. s \in SUBSET (1..m) /\ h[s] = g[s]
      BY <2>5
    <3>2. s \ {Max(s)} \in SUBSET (1..(m + 1)) /\ m + 1 \notin s \ {Max(s)}
      BY <2>5
    <3>3. h[s \ {Max(s)}] = g[s \ {Max(s)}]
      BY <3>2
    <3> HIDE DEF h
    <3> QED BY <2>1, <3>1, <3>3 DEF Steps
  <2>6. h \in [SUBSET (1..(m + 1)) -> K]
    <3> HIDE DEF Top
    <3> QED BY <2>3
  <2> HIDE DEF h
  <2>7. Steps(h, K, m + 1, x, step)
    BY <2>4, <2>5, <2>6 DEF Steps
  <2> QED BY <2>7
<1>3. \A m \in Nat : m \in S => m + 1 \in S
  <2> SUFFICES ASSUME NEW m \in Nat, m \in S PROVE m + 1 \in S
    OBVIOUS
  <2>1. CASE m + 1 <= n
    BY <1>2, <2>1
  <2>2. CASE ~ (m + 1 <= n)
    BY <2>2
  <2> QED BY <2>1, <2>2
<1> HIDE DEF S
<1>4. n \in S
  BY <1>1, <1>3, SetInduction
<1> QED BY <1>4 DEF S

\* f goes by the steps from x, and what it has for the first places goes on by them.
RunOf(f, K, x, n, step) ==
    f \in [0..n -> K] /\ f[0] = x /\ \A j \in 1..n : f[j] = step[j][f[j - 1]]

GoesOn(it, K, n, step) ==
    \A j \in 1..n : it[1..(j - 1)] \in K => it[1..j] = step[j][it[1..(j - 1)]]

\* What a fold chooses comes by the steps of the list one after another.
LEMMA StepsInOrder ==
    ASSUME NEW K, NEW x \in K, NEW n \in Nat, NEW step \in [1..n -> [K -> K]],
           NEW it, it[1..0] = x, GoesOn(it, K, n, step)
    PROVE  \E f : RunOf(f, K, x, n, step) /\ it[1..n] = f[n]
<1>1. PICK f : Repeats(f, K, x, step, n)
  BY Repeated
<1> DEFINE S == {j \in Nat : j <= n => it[1..j] = f[j]}
<1>2. 0 \in S
  BY <1>1 DEF Repeats
<1>3. ASSUME NEW j \in Nat, j \in S PROVE j + 1 \in S
  <2> SUFFICES ASSUME j + 1 <= n PROVE it[1..(j + 1)] = f[j + 1]
    OBVIOUS
  <2>1. it[1..j] = f[j] /\ j + 1 \in 1..n /\ (j + 1) - 1 = j /\ j \in 0..n /\ j + 1 \in 0..n
    BY <1>3
  <2>2. f[j] \in K /\ f[j + 1] = step[j + 1][f[j]]
    BY <1>1, <2>1 DEF Repeats
  <2> QED BY <2>1, <2>2 DEF GoesOn
<1> HIDE DEF S
<1>4. n \in S
  BY <1>2, <1>3, SetInduction
<1>5. it[1..n] = f[n]
  BY <1>4 DEF S
<1>6. RunOf(f, K, x, n, step)
  <2>1. 0 \in 0..n /\ \A j \in 1..n : j \in 0..n /\ j # 0
    OBVIOUS
  <2> QED BY <1>1, <2>1 DEF Repeats, RunOf
<1> QED BY <1>5, <1>6

-----------------------------------------------------------------------------
(* Binary semaphores *)

Distinct(sem) ==
    \A i, j \in DOMAIN sem.wait_queue : sem.wait_queue[i] = sem.wait_queue[j] => i = j

\* down takes the unit, or leaves p at the end of those who wait.
LEMMA DownWaits ==
    ASSUME NEW P, NEW sem \in [value : 0..1, wait_queue : Seq(P)], NEW p \in P,
           Distinct(sem), ~ Waiting(sem, p)
    PROVE  /\ down(sem, p) \in [value : 0..1, wait_queue : Seq(P)]
           /\ Distinct(down(sem, p))
           /\ down(sem, p).value = 0
           /\ \A r : Waiting(down(sem, p), r) <=> Waiting(sem, r) \/ (sem.value = 0 /\ r = p)
<1> DEFINE q == sem.wait_queue
           n == Append(q, p)
<1>1. q \in Seq(P) /\ sem.value \in 0..1
  OBVIOUS
<1>2. CASE sem.value = 0
  <2>1. down(sem, p) = [value |-> 0, wait_queue |-> n]
    BY <1>2 DEF down, MustWait, Queued
  <2>2. /\ n \in Seq(P)
        /\ \A i, j \in DOMAIN n : n[i] = n[j] => i = j
        /\ \A r : (\E i \in DOMAIN n : n[i] = r) <=> (\E i \in DOMAIN q : q[i] = r) \/ r = p
    BY <1>1, AppendToQueue DEF Distinct, Waiting
  <2>3. \A r : Waiting(sem, r) <=> \E i \in DOMAIN q : q[i] = r
    BY DEF Waiting
  <2> HIDE DEF n, q
  <2>4. down(sem, p).wait_queue = n /\ down(sem, p).value = 0
    BY <2>1
  <2>5. \A r : Waiting(down(sem, p), r) <=> \E i \in DOMAIN n : n[i] = r
    BY <2>4 DEF Waiting
  <2>6. \A r : Waiting(down(sem, p), r) <=> Waiting(sem, r) \/ r = p
    BY <2>2, <2>3, <2>5, Zenon
  <2> QED BY <1>2, <2>1, <2>2, <2>4, <2>6 DEF Distinct
<1>3. CASE sem.value = 1
  <2>1. down(sem, p) = [value |-> 0, wait_queue |-> q]
    BY <1>3 DEF down, MustWait, Counted
  <2>2. down(sem, p).wait_queue = q /\ down(sem, p).value = 0
    BY <2>1
  <2> QED BY <1>1, <1>3, <2>1, <2>2 DEF Distinct, Waiting
<1> QED BY <1>1, <1>2, <1>3

\* up wakes one waiter, or leaves a unit if nobody waits.
LEMMA UpWakes ==
    ASSUME NEW P, NEW sem \in [value : 0..1, wait_queue : Seq(P)],
           Distinct(sem), sem.value = 0
    PROVE  /\ up(sem) \in [value : 0..1, wait_queue : Seq(P)]
           /\ Distinct(up(sem))
           /\ \/ /\ up(sem).value = 1
                 /\ \A r : ~ Waiting(sem, r) /\ ~ Waiting(up(sem), r)
              \/ /\ up(sem).value = 0
                 /\ \E h \in P : /\ Waiting(sem, h)
                                /\ \A r : Waiting(up(sem), r) <=> Waiting(sem, r) /\ r # h
<1> DEFINE q == sem.wait_queue
           h == Head(q)
           t == Tail(q)
<1>1. q \in Seq(P)
  OBVIOUS
<1>2. CASE q = <<>>
  <2>1. up(sem) = [value |-> 1, wait_queue |-> <<>>]
    BY <1>2 DEF up, Counted
  <2>2. up(sem).wait_queue = <<>> /\ up(sem).value = 1
    BY <2>1
  <2>3. \A r : ~ Waiting(sem, r) /\ ~ Waiting(up(sem), r)
    BY <1>2, <2>2 DEF Waiting
  <2>4. <<>> \in Seq(P) /\ Distinct(up(sem))
    BY <2>2 DEF Distinct
  <2> QED BY <2>1, <2>2, <2>3, <2>4
<1>3. CASE q # <<>>
  <2>1. up(sem) = [value |-> 0, wait_queue |-> t]
    BY <1>3 DEF up, Queued
  <2>2. /\ t \in Seq(P) /\ h \in P
        /\ \A i, j \in DOMAIN t : t[i] = t[j] => i = j
        /\ \A r : (\E i \in DOMAIN t : t[i] = r) <=> (\E i \in DOMAIN q : q[i] = r) /\ r # h
    BY <1>1, <1>3, TailOfQueue DEF Distinct
  <2>3. \A r : Waiting(sem, r) <=> \E i \in DOMAIN q : q[i] = r
    BY DEF Waiting
  <2>4. 1 \in DOMAIN q /\ q[1] = h
    BY <1>1, <1>3
  <2> HIDE DEF h, q, t
  <2>5. up(sem).wait_queue = t /\ up(sem).value = 0
    BY <2>1
  <2>6. \A r : Waiting(up(sem), r) <=> \E i \in DOMAIN t : t[i] = r
    BY <2>5 DEF Waiting
  <2>7. \A r : Waiting(up(sem), r) <=> Waiting(sem, r) /\ r # h
    BY <2>2, <2>3, <2>6, Zenon
  <2>8. Waiting(sem, h)
    BY <2>3, <2>4
  <2>9. Distinct(up(sem))
    BY <2>2, <2>5 DEF Distinct
  <2> QED BY <2>1, <2>2, <2>5, <2>7, <2>8, <2>9
<1> QED BY <1>2, <1>3
==============================================================================
