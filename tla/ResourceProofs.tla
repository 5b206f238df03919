---------------------------- MODULE ResourceProofs ----------------------------
(***************************************************************************)
(* The list of free blocks of default and best_fit, for any number of      *)
(* pages; the blocks of kmalloc, for any pages and sizes; and the pages of *)
(* one address space that lab3 swaps over fewer frames.                    *)
(***************************************************************************)
EXTENDS Resources, QueueLemmas, FiniteSetTheorems

(* The list of free blocks *)

Links == [next : [FreeList!Entry -> FreeList!Entry], prev : [FreeList!Entry -> FreeList!Entry]]

\* next leads from the head, which is NPages, to the lowest of S, from each to the
\* one above it, and from the highest back to the head.
Chained(S, next) ==
    /\ S \in SUBSET FreeList!Page
    /\ \A e \in S : /\ next[e] \in S \cup {NPages} /\ e < next[e]
                    /\ \A d \in S : d <= e \/ next[e] <= d
    /\ next[NPages] \in S \cup {NPages} /\ \A d \in S : next[NPages] <= d

\* prev leads back, but for blocks that are linked to themselves.
LeadsBack(S, L) ==
    \A e \in S : L.prev[e] \in S \cup {NPages} /\ (L.prev[e] = e \/ L.next[L.prev[e]] = e)

LEMMA EntryIs ==
    /\ NPages \in Nat \ {0} /\ FreeList!free_list = NPages
    /\ FreeList!Page = 0..(NPages - 1) /\ FreeList!Entry = FreeList!Page \cup {NPages}
    /\ \A e : e \in FreeList!Entry <=> e \in Nat /\ e <= NPages
    /\ \A e : e \in FreeList!Page <=> e \in Nat /\ e < NPages
<1>1. NPages \in Nat \ {0}
  BY ListAssumption
<1>2. /\ FreeList!free_list = NPages /\ FreeList!Page = 0..(NPages - 1)
      /\ FreeList!Entry = FreeList!Page \cup {NPages}
  BY DEF FreeList!free_list, FreeList!Page, FreeList!Entry
<1>3. \A e : e \in FreeList!Page <=> e \in Nat /\ e < NPages
  BY <1>1, <1>2
<1>4. \A e : e \in FreeList!Entry <=> e \in Nat /\ e <= NPages
  BY <1>1, <1>2, <1>3
<1> QED BY <1>1, <1>2, <1>3, <1>4

LEMMA WalkSteps ==
    ASSUME NEW L \in Links
    PROVE  LET w == FreeList!Walk(L)
           IN  /\ w \in [0..(NPages + 1) -> FreeList!Entry] /\ w[0] = NPages
               /\ \A k \in 1..(NPages + 1) : w[k] = L.next[w[k - 1]]
<1> DEFINE K == FreeList!Entry
           m == NPages + 1
           go == [k \in 1..m |-> L.next]
<1>1. /\ m \in Nat /\ NPages \in K /\ FreeList!free_list = NPages /\ L.next \in [K -> K]
  BY EntryIs DEF Links
<1>2. go \in [1..m -> [K -> K]] /\ \A k \in 1..m : go[k] = L.next
  BY <1>1
<1> HIDE DEF K, m, go
<1>3. PICK f : Repeats(f, K, NPages, go, m)
  BY <1>1, <1>2, Repeated
<1>4. f \in [0..m -> K] /\ \A n \in 0..m : f[n] = IF n = 0 THEN NPages ELSE go[n][f[n - 1]]
  BY <1>3 DEF Repeats
<1>5. \A n \in 0..m : f[n] = IF n = 0 THEN NPages ELSE L.next[f[n - 1]]
  <2>1. \A n \in 0..m : n # 0 => n \in 1..m
    BY <1>1
  <2> QED BY <1>2, <1>4, <2>1
<1>6. f = [k \in 0..m |-> IF k = 0 THEN NPages ELSE L.next[f[k - 1]]]
  BY <1>4, <1>5
<1> DEFINE w == CHOOSE g : g = [k \in 0..m |-> IF k = 0 THEN NPages ELSE L.next[g[k - 1]]]
<1>7. w = [k \in 0..m |-> IF k = 0 THEN NPages ELSE L.next[w[k - 1]]]
  BY <1>6
<1>8. FreeList!Walk(L) = w
  BY <1>1, Zenon DEF FreeList!Walk, m
<1> HIDE DEF w
<1>9. \A n \in 0..m : w[n] = IF n = 0 THEN NPages ELSE L.next[w[n - 1]]
  BY <1>7
<1>10. \A n \in Nat : n <= m => w[n] \in K
  <2> DEFINE S == {n \in Nat : n <= m => w[n] \in K}
  <2>1. 0 \in S
    BY <1>1, <1>9
  <2>2. ASSUME NEW n \in Nat, n \in S PROVE n + 1 \in S
    <3> SUFFICES ASSUME n + 1 <= m PROVE w[n + 1] \in K
      OBVIOUS
    <3>1. n + 1 \in 0..m /\ n + 1 # 0 /\ (n + 1) - 1 = n /\ n <= m
      BY <1>1
    <3>2. w[n] \in K
      BY <2>2, <3>1
    <3>3. w[n + 1] = L.next[w[n]]
      BY <1>9, <3>1
    <3> QED BY <1>1, <3>2, <3>3
  <2> HIDE DEF S
  <2>3. Nat \subseteq S
    BY <2>1, <2>2, SetInduction
  <2> QED BY <2>3 DEF S
<1>11. w \in [0..m -> K]
  <2>1. \A n \in 0..m : w[n] \in K
    BY <1>1, <1>10
  <2>2. w = [n \in 0..m |-> w[n]]
    BY <1>7
  <2> QED BY <2>1, <2>2
<1>12. \A k \in 1..m : k \in 0..m /\ k # 0
  BY <1>1
<1>13. \A k \in 1..m : w[k] = L.next[w[k - 1]]
  BY <1>9, <1>12
<1>14. w[0] = NPages
  <2>1. 0 \in 0..m
    BY <1>1
  <2> QED BY <1>9, <2>1
<1> QED BY <1>8, <1>11, <1>13, <1>14 DEF K, m

\* The walk comes to the members of S in their order, and then to the head.
WalksTo(S, w, m) ==
    /\ m \in 1..(NPages + 1) /\ w[m] = NPages
    /\ \A k \in 1..(m - 1) : w[k] \in S
    /\ \A d \in S : \E k \in 1..(m - 1) : w[k] = d
    /\ \A j, k \in 1..m : j < k => w[j] < w[k]

LEMMA WalkInOrder ==
    ASSUME NEW L \in Links, NEW S, Chained(S, L.next)
    PROVE  /\ \E m : WalksTo(S, FreeList!Walk(L), m)
           /\ \A k \in 0..(NPages + 1) : FreeList!Walk(L)[k] \in S \cup {NPages}
<1> DEFINE w == FreeList!Walk(L)
           N == NPages
           Unmet(k) == \A j \in 1..(k - 1) : w[j] # N
           At(k) == /\ w[k] \in S \cup {N} /\ w[k] >= k - 1
                    /\ \A d \in S : d < w[k] => \E j \in 1..(k - 1) : w[j] = d
                    /\ \A j \in 1..(k - 1) : w[j] < w[k]
<1>1. /\ w[0] = N /\ \A k \in 1..(N + 1) : w[k] = L.next[w[k - 1]]
  BY WalkSteps
<1>2. /\ N \in Nat \ {0} /\ S \subseteq Nat /\ (\A d \in S : d < N) /\ N \notin S
  BY EntryIs DEF Chained
<1>3. /\ \A e \in S : /\ L.next[e] \in S \cup {N} /\ e < L.next[e]
                      /\ \A d \in S : d <= e \/ L.next[e] <= d
      /\ L.next[N] \in S \cup {N} /\ \A d \in S : L.next[N] <= d
  BY DEF Chained
<1> HIDE DEF w, N
<1>4. \A k \in Nat : k \in 1..(N + 1) /\ Unmet(k) => At(k)
  <2> DEFINE T == {k \in Nat : k + 1 \in 1..(N + 1) /\ Unmet(k + 1) => At(k + 1)}
  <2>1. 0 \in T
    <3>1. 1 \in 1..(N + 1) /\ 1 - 1 = 0 /\ 0 + 1 = 1 /\ 1..0 = {}
      BY <1>2
    <3>2. w[1] = L.next[N]
      BY <1>1, <3>1
    <3> DEFINE n == w[1]
    <3>6. n \in S \cup {N} /\ \A d \in S : n <= d
      BY <1>3, <3>2
    <3> HIDE DEF n
    <3>7. n \in Nat
      BY <1>2, <3>6
    <3>8. \A d \in S : ~ (d < n)
      BY <1>2, <3>6, <3>7
    <3>9. n >= 0
      BY <3>7
    <3>3. w[1] \in S \cup {N} /\ w[1] >= 0
      BY <3>6, <3>9 DEF n
    <3>4. \A d \in S : ~ (d < w[1])
      BY <3>8 DEF n
    <3>5. At(1)
      BY <3>1, <3>3, <3>4
    <3> HIDE DEF At, Unmet
    <3> QED BY <3>1, <3>5
  <2>2. ASSUME NEW k \in Nat, k \in T PROVE k + 1 \in T
    <3> SUFFICES ASSUME (k + 1) + 1 \in 1..(N + 1), Unmet((k + 1) + 1) PROVE At((k + 1) + 1)
      OBVIOUS
    <3>1. /\ k + 1 \in 1..(N + 1) /\ ((k + 1) + 1) - 1 = k + 1 /\ (k + 1) - 1 = k
          /\ k + 1 \in 1..(k + 1) /\ \A j \in 1..k : j \in 1..(k + 1)
      BY <1>2
    <3>2. Unmet(k + 1)
      BY <3>1
    <3>3. At(k + 1) /\ w[k + 1] # N
      <4>1. At(k + 1)
        <5> HIDE DEF At, Unmet
        <5> QED BY <2>2, <3>1, <3>2
      <4>2. w[k + 1] # N
        BY <3>1
      <4> QED BY <4>1, <4>2
    <3>4. w[(k + 1) + 1] = L.next[w[k + 1]]
      BY <1>1, <3>1
    <3> DEFINE e == w[k + 1]
               n == w[(k + 1) + 1]
    <3>5. /\ e \in S /\ e \in Nat /\ e >= k
          /\ \A d \in S : d < e => \E j \in 1..k : w[j] = d
          /\ \A j \in 1..k : w[j] < e
      BY <1>2, <3>1, <3>3
    <3>6. n \in S \cup {N} /\ n \in Nat /\ e < n /\ \A d \in S : d <= e \/ n <= d
      BY <1>2, <1>3, <3>4, <3>5
    <3>7. e = w[k + 1] /\ n = w[(k + 1) + 1]
      OBVIOUS
    <3> HIDE DEF e, n
    <3>8. n >= k + 1
      BY <3>5, <3>6
    <3>9. ASSUME NEW d \in S, d < n PROVE \E j \in 1..(k + 1) : w[j] = d
      <4>1. d \in Nat /\ d <= e
        BY <1>2, <3>6, <3>9
      <4>2. CASE d = e
        BY <3>1, <3>7, <4>2
      <4>3. CASE d < e
        BY <3>1, <3>5, <4>3
      <4> QED BY <3>5, <4>1, <4>2, <4>3
    <3>10. ASSUME NEW j \in 1..(k + 1) PROVE w[j] < n
      <4>1. CASE j = k + 1
        BY <3>6, <3>7, <4>1
      <4>2. CASE j # k + 1
        <5>1. j \in 1..k
          BY <4>2
        <5>2. w[j] < e
          BY <3>5, <5>1
        <5>3. w[j] \in Nat
          <6>1. j \in 1..(N + 1) /\ j \in 0..(N + 1)
            BY <1>2, <3>1, <5>1
          <6>2. w[j] \in FreeList!Entry
            BY <6>1, WalkSteps DEF w, N
          <6> QED BY <6>2, EntryIs
        <5> QED BY <3>5, <3>6, <5>2, <5>3
      <4> QED BY <4>1, <4>2
    <3> QED BY <3>1, <3>6, <3>7, <3>8, <3>9, <3>10
  <2> HIDE DEF T
  <2>3. Nat \subseteq T
    BY <2>1, <2>2, SetInduction
  <2> SUFFICES ASSUME NEW k \in Nat, k \in 1..(N + 1), Unmet(k) PROVE At(k)
    OBVIOUS
  <2>4. k - 1 \in Nat /\ (k - 1) + 1 = k
    BY <1>2
  <2>5. k - 1 \in T
    BY <2>3, <2>4
  <2> HIDE DEF At, Unmet
  <2> QED BY <2>4, <2>5 DEF T
<1>5. \E k \in 1..(N + 1) : w[k] = N
  <2> SUFFICES ASSUME \A k \in 1..(N + 1) : w[k] # N PROVE FALSE
    OBVIOUS
  <2>1. N + 1 \in Nat /\ N + 1 \in 1..(N + 1) /\ Unmet(N + 1)
    BY <1>2
  <2>2. At(N + 1)
    <3> HIDE DEF At, Unmet
    <3> QED BY <1>4, <2>1
  <2>3. w[N + 1] \in S /\ w[N + 1] >= (N + 1) - 1
    BY <2>1, <2>2
  <2>4. w[N + 1] < N /\ w[N + 1] \in Nat
    BY <1>2, <2>3
  <2>5. \A x \in Nat : ~ (x < N /\ x >= (N + 1) - 1)
    BY <1>2
  <2> QED BY <2>3, <2>4, <2>5
<1>6. PICK m \in 1..(N + 1) : w[m] = N /\ Unmet(m)
  <2> DEFINE Z == {k \in 1..(N + 1) : w[k] = N}
  <2>1. Z \subseteq Nat /\ Z # {}
    BY <1>2, <1>5
  <2>2. PICK m \in Z : \A k \in Z : m <= k
    <3> HIDE DEF Z
    <3> QED BY <2>1, LeastNatural
  <2>3. \A j \in 1..(m - 1) : j \in 1..(N + 1) /\ ~ (m <= j)
    BY <1>2
  <2> QED BY <2>2, <2>3
<1>7. /\ \A k \in 1..m : k \in Nat /\ k \in 1..(N + 1)
      /\ \A k \in 1..m : \A j \in 1..(k - 1) : j \in 1..(m - 1)
      /\ m \in 1..m
  BY <1>2, <1>6
<1>8. \A k \in 1..m : At(k)
  <2> SUFFICES ASSUME NEW k \in 1..m PROVE At(k)
    OBVIOUS
  <2>1. Unmet(k)
    BY <1>6, <1>7
  <2> HIDE DEF At, Unmet
  <2> QED BY <1>4, <1>7, <2>1
<1>9. \A k \in 1..(m - 1) : w[k] \in S
  <2> SUFFICES ASSUME NEW k \in 1..(m - 1) PROVE w[k] \in S
    OBVIOUS
  <2>1. k \in 1..m
    BY <1>2
  <2>2. w[k] \in S \cup {N} /\ w[k] # N
    BY <1>6, <1>8, <2>1
  <2> QED BY <2>2
<1>10. \A d \in S : \E k \in 1..(m - 1) : w[k] = d
  BY <1>2, <1>6, <1>7, <1>8
<1>11. \A j, k \in 1..m : j < k => w[j] < w[k]
  <2> SUFFICES ASSUME NEW j \in 1..m, NEW k \in 1..m, j < k PROVE w[j] < w[k]
    OBVIOUS
  <2>1. j \in 1..(k - 1)
    OBVIOUS
  <2> QED BY <1>8, <2>1
<1>12. \E q : WalksTo(S, w, q)
  BY <1>6, <1>9, <1>10, <1>11 DEF WalksTo, N
<1>13. \A k \in Nat : k <= N + 1 => w[k] \in S \cup {N}
  <2> DEFINE T == {k \in Nat : k <= N + 1 => w[k] \in S \cup {N}}
  <2>1. 0 \in T
    BY <1>1
  <2>2. ASSUME NEW k \in Nat, k \in T PROVE k + 1 \in T
    <3> SUFFICES ASSUME k + 1 <= N + 1 PROVE w[k + 1] \in S \cup {N}
      OBVIOUS
    <3>1. k + 1 \in 1..(N + 1) /\ (k + 1) - 1 = k /\ k <= N + 1
      BY <1>2
    <3>2. w[k] \in S \cup {N} /\ w[k + 1] = L.next[w[k]]
      BY <1>1, <2>2, <3>1
    <3> QED BY <1>3, <3>2
  <2> HIDE DEF T
  <2>3. Nat \subseteq T
    BY <2>1, <2>2, SetInduction
  <2> QED BY <2>3 DEF T
<1>14. \A k \in 0..(N + 1) : w[k] \in S \cup {N}
  BY <1>2, <1>13
<1> QED BY <1>12, <1>14 DEF w, N

LEMMA LeastOf ==
    ASSUME NEW T, T \subseteq Nat, T # {}
    PROVE  FreeList!Min(T) \in T /\ \A n \in T : FreeList!Min(T) <= n
<1>1. \E least \in T : \A n \in T : least <= n
  BY LeastNatural
<1> QED BY <1>1, Zenon DEF FreeList!Min

\* A walk ends at a member of stops in any case,
LEMMA EndsAmong ==
    ASSUME NEW L \in Links, NEW stops, FreeList!WalkEnds(L, stops) # {}
    PROVE  FreeList!WalkEnd(L, stops) \in FreeList!Entry \cap stops
<1> DEFINE Z == FreeList!WalkEnds(L, stops)
           w == FreeList!Walk(L)
<1>1. Z = {k \in 1..(NPages + 1) : w[k] \in stops}
  BY DEF FreeList!WalkEnds
<1>2. Z \subseteq Nat /\ \A k \in Z : w[k] \in stops /\ k \in 1..(NPages + 1)
  BY <1>1, EntryIs
<1>3. \A k \in 1..(NPages + 1) : w[k] \in FreeList!Entry
  <2>1. w \in [0..(NPages + 1) -> FreeList!Entry]
    BY WalkSteps
  <2>2. \A k \in 1..(NPages + 1) : k \in 0..(NPages + 1)
    BY EntryIs
  <2> HIDE DEF w
  <2> QED BY <2>1, <2>2
<1>4. FreeList!WalkEnd(L, stops) = w[FreeList!Min(Z)]
  BY DEF FreeList!WalkEnd
<1> HIDE DEF Z, w
<1>5. FreeList!Min(Z) \in Z
  BY <1>2, LeastOf DEF Z
<1> QED BY <1>2, <1>3, <1>4, <1>5

\* of the list, if it is in order, and at the first of them if the head is one.
LEMMA EndsInList ==
    ASSUME NEW L \in Links, NEW S, Chained(S, L.next), NEW stops
    PROVE  /\ FreeList!WalkEnds(L, stops) # {} => FreeList!WalkEnd(L, stops) \in (S \cup {NPages}) \cap stops
           /\ \A e \in S : e \in stops => FreeList!WalkEnds(L, stops) # {}
           /\ NPages \in stops =>
                 /\ FreeList!WalkEnds(L, stops) # {}
                 /\ \A d \in S : d \in stops => FreeList!WalkEnd(L, stops) <= d
<1> DEFINE Z == FreeList!WalkEnds(L, stops)
           w == FreeList!Walk(L)
           least == FreeList!Min(Z)
<1>1. Z = {k \in 1..(NPages + 1) : w[k] \in stops}
  BY DEF FreeList!WalkEnds
<1>2. Z \subseteq Nat /\ \A k \in Z : w[k] \in stops /\ k \in 1..(NPages + 1)
  BY <1>1, EntryIs
<1>3. PICK m : WalksTo(S, w, m)
  BY WalkInOrder
<1>4. \A k \in 0..(NPages + 1) : w[k] \in S \cup {NPages}
  BY WalkInOrder
<1>5. FreeList!WalkEnd(L, stops) = w[least]
  BY DEF FreeList!WalkEnd
<1> HIDE DEF Z, w, least
<1>6. Z # {} => least \in Z /\ \A k \in Z : least <= k
  BY <1>2, LeastOf DEF least
<1>7. \A k \in 1..(NPages + 1) : k \in 0..(NPages + 1)
  BY EntryIs
<1>8. Z # {} => w[least] \in (S \cup {NPages}) \cap stops
  BY <1>2, <1>4, <1>6, <1>7
<1>9. ASSUME NEW e \in S, e \in stops PROVE \E k \in Z : w[k] = e /\ k \in 1..(m - 1)
  <2>1. PICK k \in 1..(m - 1) : w[k] = e
    BY <1>3 DEF WalksTo
  <2>2. m \in 1..(NPages + 1)
    BY <1>3 DEF WalksTo
  <2>3. k \in 1..(NPages + 1)
    BY <2>2, EntryIs
  <2> QED BY <1>1, <1>9, <2>1, <2>3
<1>10. NPages \in stops => m \in Z
  BY <1>1, <1>3 DEF WalksTo
<1>11. ASSUME NPages \in stops, NEW d \in S, d \in stops PROVE w[least] <= d
  <2>1. PICK k \in Z : w[k] = d /\ k \in 1..(m - 1)
    BY <1>9, <1>11
  <2>2. least \in Z /\ least <= k
    BY <1>6, <2>1
  <2>3. k \in 1..m /\ least \in 1..m
    BY <1>2, <1>3, <2>1, <2>2, EntryIs DEF WalksTo
  <2>4. least < k => w[least] < w[k]
    BY <1>3, <2>3 DEF WalksTo
  <2>5. w[least] \in Nat /\ d \in Nat
    BY <1>4, <1>7, <1>2, <2>2, EntryIs DEF Chained
  <2>6. least = k \/ least < k
    BY <1>2, <2>2
  <2> QED BY <2>1, <2>4, <2>5, <2>6
<1>12. \A e \in S : e \in stops => Z # {}
  BY <1>9
<1>13. NPages \in stops => Z # {} /\ \A d \in S : d \in stops => w[least] <= d
  BY <1>10, <1>11
<1> QED BY <1>5, <1>8, <1>12, <1>13 DEF Z

LEMMA LinkedIs ==
    ASSUME NEW L \in Links, NEW S, Chained(S, L.next)
    PROVE  FreeList!Linked(L) = S
<1> DEFINE Z == FreeList!WalkEnds(L, {NPages})
           w == FreeList!Walk(L)
           least == FreeList!Min(Z)
<1>1. Z = {k \in 1..(NPages + 1) : w[k] \in {NPages}}
  BY DEF FreeList!WalkEnds
<1>2. PICK m : WalksTo(S, w, m)
  BY WalkInOrder
<1>3. FreeList!Linked(L) = {w[k] : k \in 1..least} \ {NPages}
  BY EntryIs DEF FreeList!Linked
<1> HIDE DEF Z, w, least
<1>4. m \in 1..(NPages + 1) /\ w[m] = NPages /\ NPages \in Nat
  BY <1>2, EntryIs DEF WalksTo
<1>5. m \in Z /\ Z \subseteq Nat
  BY <1>1, <1>4
<1>6. least \in Z /\ \A k \in Z : least <= k
  BY <1>5, LeastOf DEF least
<1>7. least = m
  <2>1. least \in 1..(NPages + 1) /\ w[least] = NPages /\ least <= m
    BY <1>1, <1>5, <1>6
  <2> SUFFICES ASSUME least < m PROVE FALSE
    BY <1>4, <2>1
  <2>2. least \in 1..(m - 1)
    BY <1>4, <2>1
  <2>3. w[least] \in S
    BY <1>2, <2>2 DEF WalksTo
  <2> QED BY <2>1, <2>3, EntryIs DEF Chained
<1>8. 1..m = (1..(m - 1)) \cup {m}
  BY <1>4
<1>9. \A k \in 1..(m - 1) : w[k] \in S
  BY <1>2 DEF WalksTo
<1>10. \A d \in S : \E k \in 1..(m - 1) : w[k] = d
  BY <1>2 DEF WalksTo
<1>11. \A d \in S : d # NPages
  BY EntryIs DEF Chained
<1>12. \A x : x \in {w[k] : k \in 1..m} \ {NPages} <=> x \in S
  BY <1>4, <1>8, <1>9, <1>10, <1>11
<1> QED BY <1>3, <1>7, <1>12

LEMMA LastBlock ==
    ASSUME NEW S, NEW next, Chained(S, next), S # {}
    PROVE  \E e \in S : next[e] = NPages
<1> DEFINE T == {NPages - d : d \in S}
<1>1. NPages \in Nat /\ \A d \in S : d \in Nat /\ d < NPages
  BY EntryIs DEF Chained
<1>2. T \subseteq Nat /\ T # {}
  BY <1>1
<1>3. PICK t \in T : \A s \in T : t <= s
  <2> HIDE DEF T
  <2> QED BY <1>2, LeastNatural
<1>4. PICK e \in S : t = NPages - e
  BY <1>3
<1>5. \A d \in S : NPages - e <= NPages - d
  BY <1>3, <1>4
<1>6. \A d \in S : d <= e
  BY <1>1, <1>5
<1>7. next[e] \in S \cup {NPages} /\ e < next[e]
  BY DEF Chained
<1>8. next[e] \notin S
  <2> SUFFICES ASSUME next[e] \in S PROVE FALSE
    OBVIOUS
  <2>1. next[e] <= e /\ next[e] \in Nat
    BY <1>1, <1>6
  <2> QED BY <1>1, <1>7, <2>1
<1> QED BY <1>7, <1>8

\* All of prev leads back.
AllBack(S, L) == \A e \in S : L.next[L.prev[e]] = e

\* D is L with some links set.
LEMMA BetweenIs ==
    ASSUME NEW L \in Links, NEW e \in FreeList!Entry, NEW p \in FreeList!Entry,
           NEW n \in FreeList!Entry
    PROVE  LET D == FreeList!Between(L, e, p, n)
           IN  /\ D \in Links
               /\ \A x \in FreeList!Entry :
                     /\ D.next[x] = IF x = e THEN n ELSE IF x = p THEN e ELSE L.next[x]
                     /\ D.prev[x] = IF x = e THEN p ELSE IF x = n THEN e ELSE L.prev[x]
<1> DEFINE K == FreeList!Entry
           nx == [L.next EXCEPT ![p] = e, ![e] = n]
           pv == [L.prev EXCEPT ![n] = e, ![e] = p]
<1>1. L.next \in [K -> K] /\ L.prev \in [K -> K]
  BY DEF Links
<1>2. FreeList!Between(L, e, p, n) = [next |-> nx, prev |-> pv]
  BY DEF FreeList!Between
<1> HIDE DEF K
<1>3. e \in K /\ p \in K /\ n \in K
  BY DEF K
<1>4. nx \in [K -> K] /\ \A x \in K : nx[x] = IF x = e THEN n ELSE IF x = p THEN e ELSE L.next[x]
  BY <1>1, <1>3
<1>5. pv \in [K -> K] /\ \A x \in K : pv[x] = IF x = e THEN p ELSE IF x = n THEN e ELSE L.prev[x]
  BY <1>1, <1>3
<1> HIDE DEF nx, pv
<1>6. [next |-> nx, prev |-> pv] \in Links
  BY <1>4, <1>5 DEF Links, K
<1> QED BY <1>2, <1>4, <1>5, <1>6 DEF K

LEMMA DelIs ==
    ASSUME NEW L \in Links, NEW e \in FreeList!Entry
    PROVE  LET D == FreeList!list_del(L, e)
           IN  /\ D \in Links
               /\ \A x \in FreeList!Entry :
                     /\ D.next[x] = IF x = L.prev[e] THEN L.next[e] ELSE L.next[x]
                     /\ D.prev[x] = IF x = L.next[e] THEN L.prev[e] ELSE L.prev[x]
<1> DEFINE K == FreeList!Entry
           p == L.prev[e]
           n == L.next[e]
           nx == [L.next EXCEPT ![p] = n]
           pv == [L.prev EXCEPT ![n] = p]
<1>1. L.next \in [K -> K] /\ L.prev \in [K -> K]
  BY DEF Links
<1>2. FreeList!list_del(L, e) = [next |-> nx, prev |-> pv]
  BY DEF FreeList!list_del
<1>3. p \in K /\ n \in K
  BY <1>1
<1> HIDE DEF K, p, n
<1>4. nx \in [K -> K] /\ \A x \in K : nx[x] = IF x = p THEN n ELSE L.next[x]
  BY <1>1, <1>3
<1>5. pv \in [K -> K] /\ \A x \in K : pv[x] = IF x = n THEN p ELSE L.prev[x]
  BY <1>1, <1>3
<1> HIDE DEF nx, pv
<1>6. [next |-> nx, prev |-> pv] \in Links
  BY <1>4, <1>5 DEF Links, K
<1> QED BY <1>2, <1>4, <1>5, <1>6 DEF K, p, n

LEMMA TakenOff ==
    ASSUME NEW L \in Links, NEW S, Chained(S, L.next), LeadsBack(S, L),
           NEW e \in S, L.prev[e] # e
    PROVE  LET D == FreeList!list_del(L, e)
           IN  /\ D \in Links /\ Chained(S \ {e}, D.next) /\ LeadsBack(S \ {e}, D)
               /\ AllBack(S, L) => AllBack(S \ {e}, D)
               /\ L.prev[e] \in (S \cup {NPages}) \ {e} /\ L.next[L.prev[e]] = e
               /\ D.next[L.prev[e]] = L.next[e]
               /\ L.next[e] \in S => D.prev[L.next[e]] = L.prev[e]
               /\ \A x \in S \cup {NPages} : x # L.prev[e] => D.next[x] = L.next[x]
<1> DEFINE D == FreeList!list_del(L, e)
           p == L.prev[e]
           n == L.next[e]
           T == S \cup {NPages}
<1>1. /\ T \subseteq FreeList!Entry /\ (\A x \in T : x \in Nat) /\ NPages \notin S /\ NPages \in T
      /\ (\A x \in S : x < NPages)
  BY EntryIs DEF Chained
<1>2. /\ D \in Links
      /\ \A x \in T : /\ D.next[x] = IF x = p THEN n ELSE L.next[x]
                      /\ D.prev[x] = IF x = n THEN p ELSE L.prev[x]
  BY <1>1, DelIs
<1>3. p \in T /\ p # e /\ L.next[p] = e /\ n \in T
  BY DEF LeadsBack, Chained
<1>4. n # e
  <2>1. e < n
    BY DEF Chained
  <2> QED BY <1>1, <1>3, <2>1
<1> HIDE DEF D
<1>5. Chained(S \ {e}, D.next)
  <2>1. S \ {e} \in SUBSET FreeList!Page
    BY DEF Chained
  <2>2. ASSUME NEW x \in S \ {e}
        PROVE  /\ D.next[x] \in (S \ {e}) \cup {NPages} /\ x < D.next[x]
               /\ \A d \in S \ {e} : d <= x \/ D.next[x] <= d
    <3>1. /\ L.next[x] \in T /\ x < L.next[x] /\ \A d \in S : d <= x \/ L.next[x] <= d
          /\ e < n /\ \A d \in S : d <= e \/ n <= d
      BY DEF Chained
    <3>2. CASE x = p
      <4>1. D.next[x] = n /\ L.next[x] = e /\ n \in (S \ {e}) \cup {NPages}
        BY <1>2, <1>3, <1>4, <3>2
      <4>2. x < n
        BY <1>1, <1>3, <3>1, <4>1
      <4>3. ASSUME NEW d \in S \ {e} PROVE d <= x \/ n <= d
        <5>1. (d <= x \/ e <= d) /\ (d <= e \/ n <= d) /\ d # e /\ d \in Nat /\ e \in Nat
          BY <1>1, <3>1, <4>1
        <5> QED BY <5>1
      <4> QED BY <4>1, <4>2, <4>3
    <3>3. CASE x # p
      <4>1. D.next[x] = L.next[x]
        BY <1>2, <3>3
      <4>2. L.next[x] # e
        <5> SUFFICES ASSUME L.next[x] = e PROVE FALSE
          OBVIOUS
        <5>1. x < e /\ \A d \in S : d <= x \/ e <= d
          BY <3>1
        <5>2. CASE p = NPages
          <6>1. L.next[NPages] <= x
            BY DEF Chained
          <6> QED BY <1>1, <1>3, <5>1, <5>2, <6>1
        <5>3. CASE p \in S
          <6>1. p < e /\ \A d \in S : d <= p \/ e <= d
            BY <1>3, <5>3 DEF Chained
          <6>2. p <= x /\ x <= p
            BY <1>1, <5>1, <5>3, <6>1
          <6> QED BY <1>1, <3>3, <5>3, <6>2
        <5> QED BY <1>3, <5>2, <5>3
      <4> QED BY <3>1, <4>1, <4>2
    <3> QED BY <3>2, <3>3
  <2>3. D.next[NPages] \in (S \ {e}) \cup {NPages} /\ \A d \in S \ {e} : D.next[NPages] <= d
    <3>1. /\ L.next[NPages] \in T /\ \A d \in S : L.next[NPages] <= d
          /\ e < n /\ \A d \in S : d <= e \/ n <= d
      BY DEF Chained
    <3>2. CASE p = NPages
      <4>1. D.next[NPages] = n /\ L.next[NPages] = e /\ n \in (S \ {e}) \cup {NPages}
        BY <1>1, <1>2, <1>3, <1>4, <3>2
      <4>2. ASSUME NEW d \in S \ {e} PROVE n <= d
        <5>1. e <= d /\ (d <= e \/ n <= d) /\ d # e /\ d \in Nat /\ e \in Nat
          BY <1>1, <3>1, <4>1
        <5> QED BY <5>1
      <4> QED BY <4>1, <4>2
    <3>3. CASE p # NPages
      <4>1. D.next[NPages] = L.next[NPages]
        BY <1>1, <1>2, <3>3
      <4>2. L.next[NPages] # e
        <5>1. p \in S /\ L.next[NPages] <= p /\ p < e
          BY <1>3, <3>1, <3>3 DEF Chained
        <5> QED BY <1>1, <5>1
      <4> QED BY <3>1, <4>1, <4>2
    <3> QED BY <3>2, <3>3
  <2> QED BY <2>1, <2>2, <2>3 DEF Chained
<1>6. ASSUME NEW x \in S \ {e}
      PROVE  /\ D.prev[x] \in (S \ {e}) \cup {NPages}
             /\ D.prev[x] = x \/ D.next[D.prev[x]] = x
             /\ L.next[L.prev[x]] = x => D.next[D.prev[x]] = x
  <2>1. CASE x = n
    <3>1. D.prev[x] = p /\ D.next[p] = x
      BY <1>2, <1>3, <2>1
    <3> QED BY <1>3, <3>1
  <2>2. CASE x # n
    <3>1. D.prev[x] = L.prev[x] /\ L.prev[x] \in T /\ (L.prev[x] = x \/ L.next[L.prev[x]] = x)
      BY <1>2, <2>2 DEF LeadsBack
    <3>2. L.prev[x] # e
      BY <2>2, <3>1
    <3>3. L.next[L.prev[x]] = x => D.next[L.prev[x]] = x
      BY <1>2, <1>3, <3>1
    <3> QED BY <3>1, <3>2, <3>3
  <2> QED BY <2>1, <2>2
<1>7. LeadsBack(S \ {e}, D)
  BY <1>6 DEF LeadsBack
<1>8. AllBack(S, L) => AllBack(S \ {e}, D)
  BY <1>6 DEF AllBack
<1>9. D.next[p] = n /\ (n \in S => D.prev[n] = p)
  BY <1>2, <1>3
<1>10. \A x \in T : x # p => D.next[x] = L.next[x]
  BY <1>2
<1> QED BY <1>2, <1>3, <1>5, <1>7, <1>8, <1>9, <1>10 DEF D

\* A block that lies between le and what follows it is put between them.
LEMMA PutBehind ==
    ASSUME NEW L \in Links, NEW S, Chained(S, L.next), LeadsBack(S, L),
           NEW le \in S \cup {NPages}, NEW e \in FreeList!Page \ S,
           le = NPages \/ le < e, e < L.next[le]
    PROVE  LET D == FreeList!Between(L, e, le, L.next[le])
           IN  /\ D \in Links /\ Chained(S \cup {e}, D.next) /\ LeadsBack(S \cup {e}, D)
               /\ AllBack(S, L) => AllBack(S \cup {e}, D)
               /\ D.next[le] = e /\ D.next[e] = L.next[le]
               /\ D.prev[e] = le /\ D.prev[L.next[le]] = e
               /\ \A x \in S \cup {NPages} : x # le => D.next[x] = L.next[x]
<1> DEFINE n == L.next[le]
           D == FreeList!Between(L, e, le, n)
           T == S \cup {NPages}
<1>1. /\ T \subseteq FreeList!Entry /\ (\A x \in T : x \in Nat) /\ NPages \notin S /\ NPages \in T
      /\ (\A x \in S : x < NPages) /\ e \in Nat /\ e < NPages /\ e \notin T /\ e \in FreeList!Entry
  BY EntryIs DEF Chained
<1>2. n \in T /\ e < n /\ n # e
  BY <1>1 DEF Chained
<1>3. /\ D \in Links
      /\ \A x \in T \cup {e} :
            /\ D.next[x] = IF x = e THEN n ELSE IF x = le THEN e ELSE L.next[x]
            /\ D.prev[x] = IF x = e THEN le ELSE IF x = n THEN e ELSE L.prev[x]
  <2>1. le \in FreeList!Entry /\ n \in FreeList!Entry /\ e \in FreeList!Entry
    BY <1>1, <1>2
  <2> HIDE DEF n
  <2>2. /\ D \in Links
        /\ \A x \in FreeList!Entry :
              /\ D.next[x] = IF x = e THEN n ELSE IF x = le THEN e ELSE L.next[x]
              /\ D.prev[x] = IF x = e THEN le ELSE IF x = n THEN e ELSE L.prev[x]
    BY <2>1, BetweenIs
  <2>3. T \cup {e} \subseteq FreeList!Entry
    BY <1>1
  <2> HIDE DEF D, T
  <2> QED BY <2>2, <2>3
<1> HIDE DEF D
<1>4. n = L.next[le]
  OBVIOUS
<1> HIDE DEF n
<1>5. \A d \in S : (le # NPages /\ d <= le) \/ n <= d
  BY <1>4 DEF Chained
<1>6. Chained(S \cup {e}, D.next)
  <2>1. S \cup {e} \in SUBSET FreeList!Page
    BY DEF Chained
  <2>2. ASSUME NEW x \in S \cup {e}
        PROVE  /\ D.next[x] \in (S \cup {e}) \cup {NPages} /\ x < D.next[x]
               /\ \A d \in S \cup {e} : d <= x \/ D.next[x] <= d
    <3>1. CASE x = e
      <4>1. D.next[x] = n
        BY <1>3, <3>1
      <4>2. ASSUME NEW d \in S PROVE d <= e \/ n <= d
        BY <1>1, <1>5
      <4> QED BY <1>1, <1>2, <3>1, <4>1, <4>2
    <3>2. CASE x = le /\ x # e
      <4>1. D.next[x] = e /\ x < e
        BY <1>1, <1>3, <3>2
      <4>2. ASSUME NEW d \in S PROVE d <= x \/ e <= d
        <5>1. d <= le \/ n <= d
          BY <1>5
        <5> QED BY <1>1, <1>2, <3>2, <5>1
      <4> QED BY <1>1, <4>1, <4>2
    <3>3. CASE x # le /\ x # e
      <4>1. /\ x \in S /\ D.next[x] = L.next[x]
            /\ L.next[x] \in T /\ x < L.next[x] /\ \A d \in S : d <= x \/ L.next[x] <= d
        BY <1>3, <3>3 DEF Chained
      <4>2. e <= x \/ L.next[x] <= e
        <5>1. CASE n <= x
          BY <1>1, <1>2, <4>1, <5>1
        <5>2. CASE le # NPages /\ x <= le
          <6>1. le \in S /\ x < le
            BY <1>1, <3>3, <4>1, <5>2
          <6>2. L.next[x] <= le
            BY <1>1, <4>1, <6>1
          <6> QED BY <1>1, <4>1, <5>2, <6>1, <6>2
        <5> QED BY <1>5, <4>1, <5>1, <5>2
      <4> QED BY <4>1, <4>2
    <3> QED BY <3>1, <3>2, <3>3
  <2>3. /\ D.next[NPages] \in (S \cup {e}) \cup {NPages}
        /\ \A d \in S \cup {e} : D.next[NPages] <= d
    <3>1. CASE le = NPages
      <4>1. D.next[NPages] = e
        BY <1>1, <1>3, <3>1
      <4>2. ASSUME NEW d \in S PROVE e <= d
        BY <1>1, <1>2, <1>5, <3>1
      <4> QED BY <1>1, <4>1, <4>2
    <3>2. CASE le # NPages
      <4>1. /\ D.next[NPages] = L.next[NPages] /\ L.next[NPages] \in T
            /\ \A d \in S : L.next[NPages] <= d
        BY <1>1, <1>3, <3>2 DEF Chained
      <4>2. L.next[NPages] <= e
        BY <1>1, <3>2, <4>1
      <4> QED BY <4>1, <4>2
    <3> QED BY <3>1, <3>2
  <2> QED BY <2>1, <2>2, <2>3 DEF Chained
<1>7. D.next[le] = e /\ D.next[e] = n /\ D.prev[e] = le /\ D.prev[n] = e
  BY <1>1, <1>2, <1>3
<1>8. \A x \in T : x # le => D.next[x] = L.next[x]
  BY <1>1, <1>3
<1>9. ASSUME NEW x \in S \cup {e}
      PROVE  /\ D.prev[x] \in (S \cup {e}) \cup {NPages}
             /\ D.prev[x] = x \/ D.next[D.prev[x]] = x
             /\ x = e \/ L.next[L.prev[x]] = x => D.next[D.prev[x]] = x
  <2>1. CASE x = e \/ x = n
    BY <1>7, <2>1
  <2>2. CASE x # e /\ x # n
    <3>1. D.prev[x] = L.prev[x] /\ L.prev[x] \in T /\ (L.prev[x] = x \/ L.next[L.prev[x]] = x)
      BY <1>3, <2>2 DEF LeadsBack
    <3>2. L.next[L.prev[x]] = x => D.next[L.prev[x]] = x
      BY <1>4, <1>8, <2>2, <3>1
    <3> QED BY <2>2, <3>1, <3>2
  <2> QED BY <2>1, <2>2
<1>10. LeadsBack(S \cup {e}, D)
  BY <1>9 DEF LeadsBack
<1>11. AllBack(S, L) => AllBack(S \cup {e}, D)
  BY <1>9 DEF AllBack
<1> QED BY <1>3, <1>6, <1>7, <1>8, <1>10, <1>11 DEF D, n

\* The blocks of S have pages, do not overlap, and are what is not handed out.
Sized(S, len, out) ==
    /\ \A e \in S : len[e] >= 1
    /\ \A e, f \in S : e < f => e + len[e] <= f
    /\ \A u \in FreeList!Page : u \notin out <=> \E e \in S : e <= u /\ u < e + len[e]

\* No block of S but those of X touches the next.
Apart(S, next, len, X) == \A e \in S \ X : next[e] = NPages \/ next[e] # e + len[e]

\* What holds of sizes even when the list is torn.
Sizes == {s \in [FreeList!Page -> Nat] : \A p \in FreeList!Page : p + s[p] <= NPages}

ListGood(L, S, len, out) ==
    Chained(S, L.next) /\ LeadsBack(S, L) /\ Sized(S, len, out)

FreeListInv ==
    /\ links \in Links /\ property \in Sizes /\ held \in SUBSET FreeList!Page
    /\ damage # "torn" => /\ stopped = "no"
                          /\ ListGood(links, PageProperty, property, held)
                          /\ nr_free = NPages - Cardinality(held)
    /\ damage = "none" => /\ AllBack(PageProperty, links)
                          /\ Apart(PageProperty, links.next, property, {})

LEMMA RunIs ==
    ASSUME NEW b \in Nat, NEW n \in Nat
    PROVE  /\ \A u : u \in FreeList!Run(b, n) <=> u \in Nat /\ b <= u /\ u < b + n
           /\ IsFiniteSet(FreeList!Run(b, n)) /\ Cardinality(FreeList!Run(b, n)) = n
<1>1. FreeList!Run(b, n) = b..(b + n - 1)
  BY DEF FreeList!Run
<1>2. \A u : u \in b..(b + n - 1) <=> u \in Nat /\ b <= u /\ u < b + n
  OBVIOUS
<1>3. IsFiniteSet(b..(b + n - 1)) /\ Cardinality(b..(b + n - 1)) = n
  <2>1. b \in Int /\ b + n - 1 \in Int
    OBVIOUS
  <2>2. /\ IsFiniteSet(b..(b + n - 1))
        /\ Cardinality(b..(b + n - 1)) = IF b > b + n - 1 THEN 0 ELSE (b + n - 1) - b + 1
    BY <2>1, FS_Interval
  <2>3. (IF b > b + n - 1 THEN 0 ELSE (b + n - 1) - b + 1) = n
    OBVIOUS
  <2> QED BY <2>2, <2>3
<1> QED BY <1>1, <1>2, <1>3

LEMMA HeldCount ==
    ASSUME NEW out \in SUBSET FreeList!Page, NEW b \in Nat, NEW n \in Nat,
           FreeList!Run(b, n) \in SUBSET FreeList!Page
    PROVE  /\ Cardinality(out) \in Nat
           /\ FreeList!Run(b, n) \cap out = {}
                 => Cardinality(out \cup FreeList!Run(b, n)) = Cardinality(out) + n
           /\ FreeList!Run(b, n) \subseteq out
                 => Cardinality(out \ FreeList!Run(b, n)) = Cardinality(out) - n
<1> DEFINE r == FreeList!Run(b, n)
<1>1. IsFiniteSet(r) /\ Cardinality(r) = n
  BY RunIs
<1>2. IsFiniteSet(out)
  <2>1. IsFiniteSet(0..(NPages - 1))
    BY EntryIs, FS_Interval
  <2> QED BY <2>1, EntryIs, FS_Subset
<1> HIDE DEF r
<1>3. Cardinality(out) \in Nat
  BY <1>2, FS_CardinalityType
<1>4. ASSUME r \cap out = {} PROVE Cardinality(out \cup r) = Cardinality(out) + n
  <2>1. Cardinality(out \cup r) = Cardinality(out) + Cardinality(r) - Cardinality(out \cap r)
    BY <1>1, <1>2, FS_Union
  <2>2. Cardinality(out \cap r) = 0
    BY <1>4, FS_EmptySet
  <2> QED BY <1>1, <1>3, <2>1, <2>2
<1>5. ASSUME r \subseteq out PROVE Cardinality(out \ r) = Cardinality(out) - n
  <2>1. Cardinality(out \ r) = Cardinality(out) - Cardinality(out \cap r)
    BY <1>2, FS_Difference
  <2>2. out \cap r = r
    BY <1>5
  <2> QED BY <1>1, <2>1, <2>2
<1> QED BY <1>3, <1>4, <1>5 DEF r

\* The pages of S outside run b..(b + n - 1).
LEMMA WholeTaken ==
    ASSUME NEW S \in SUBSET FreeList!Page, NEW len \in Sizes, NEW out \in SUBSET FreeList!Page,
           Sized(S, len, out), NEW e \in S
    PROVE  /\ FreeList!Run(e, len[e]) \in SUBSET FreeList!Page
           /\ FreeList!Run(e, len[e]) \cap out = {}
           /\ Sized(S \ {e}, len, out \cup FreeList!Run(e, len[e]))
<1> DEFINE r == FreeList!Run(e, len[e])
<1>1. /\ \A x \in S : x \in Nat /\ len[x] \in Nat /\ x + len[x] <= NPages /\ len[x] >= 1
      /\ \A x, f \in S : x < f => x + len[x] <= f
      /\ \A u \in FreeList!Page : u \notin out <=> \E x \in S : x <= u /\ u < x + len[x]
  BY EntryIs DEF Sizes, Sized
<1>2. \A u : u \in r <=> u \in Nat /\ e <= u /\ u < e + len[e]
  BY <1>1, RunIs
<1> HIDE DEF r
<1>3. \A u \in r : u \in FreeList!Page /\ u \notin out
  <2> SUFFICES ASSUME NEW u \in r PROVE u \in FreeList!Page /\ u \notin out
    OBVIOUS
  <2>1. u \in Nat /\ e <= u /\ u < e + len[e] /\ e + len[e] <= NPages
    BY <1>1, <1>2
  <2>2. u \in FreeList!Page
    BY <1>1, <2>1, EntryIs
  <2> QED BY <1>1, <2>1, <2>2
<1>4. ASSUME NEW u \in FreeList!Page
      PROVE  u \notin out \cup r <=> \E x \in S \ {e} : x <= u /\ u < x + len[x]
  <2>1. u \in Nat
    BY EntryIs
  <2>2. ASSUME NEW x \in S \ {e}, x <= u, u < x + len[x] PROVE u \notin r
    <3>1. x \in Nat /\ e \in Nat /\ len[x] \in Nat /\ len[e] \in Nat
      BY <1>1
    <3>2. (x < e => x + len[x] <= e) /\ (e < x => e + len[e] <= x)
      BY <1>1
    <3>3. x < e \/ e < x
      BY <3>1
    <3> QED BY <1>2, <2>1, <2>2, <3>1, <3>2, <3>3
  <2>3. u \notin out <=> \E x \in S : x <= u /\ u < x + len[x]
    BY <1>1
  <2>4. u \in r <=> e <= u /\ u < e + len[e]
    BY <1>2, <2>1
  <2> QED BY <2>2, <2>3, <2>4
<1>5. \A x \in S \ {e} : len[x] >= 1
  BY <1>1
<1>6. \A x, f \in S \ {e} : x < f => x + len[x] <= f
  BY <1>1
<1>7. Sized(S \ {e}, len, out \cup r)
  BY <1>4, <1>5, <1>6 DEF Sized
<1> QED BY <1>3, <1>7 DEF r

\* A block of n free pages at b comes to S.
LEMMA BlockComes ==
    ASSUME NEW S \in SUBSET FreeList!Page, NEW len \in Sizes, NEW out \in SUBSET FreeList!Page,
           Sized(S, len, out), NEW b \in FreeList!Page, NEW n \in Nat, n >= 1, b + n <= NPages,
           FreeList!Run(b, n) \subseteq out,
           NEW next \in Sizes, next[b] = n, \A p \in S : next[p] = len[p]
    PROVE  Sized(S \cup {b}, next, out \ FreeList!Run(b, n)) /\ b \notin S
<1> DEFINE r == FreeList!Run(b, n)
<1>1. /\ \A x \in S : x \in Nat /\ len[x] \in Nat /\ x + len[x] <= NPages /\ len[x] >= 1
      /\ \A x, f \in S : x < f => x + len[x] <= f
      /\ \A u \in FreeList!Page : u \notin out <=> \E x \in S : x <= u /\ u < x + len[x]
      /\ b \in Nat
  BY EntryIs DEF Sizes, Sized
<1>2. \A u : u \in r <=> u \in Nat /\ b <= u /\ u < b + n
  BY <1>1, RunIs
<1>3. r \subseteq out
  OBVIOUS
<1> HIDE DEF r
<1>4. \A x \in S : x \notin r
  <2> SUFFICES ASSUME NEW x \in S, x \in r PROVE FALSE
    OBVIOUS
  <2>1. x \in FreeList!Page /\ x \in out
    BY <1>3
  <2>2. x <= x /\ x < x + len[x]
    BY <1>1
  <2> QED BY <1>1, <2>1, <2>2
<1>5. b \in r /\ b \notin S
  BY <1>1, <1>2, <1>4
<1>6. ASSUME NEW x \in S PROVE (x < b => x + len[x] <= b) /\ (b < x => b + n <= x)
  <2>1. x \in Nat /\ len[x] \in Nat
    BY <1>1
  <2>2. x < b => x + len[x] <= b
    <3> SUFFICES ASSUME x < b, ~ (x + len[x] <= b) PROVE FALSE
      OBVIOUS
    <3>1. x <= b /\ b < x + len[x]
      BY <1>1, <2>1
    <3>2. b \notin out
      BY <1>1, <3>1
    <3> QED BY <1>3, <1>5, <3>2
  <2>3. b < x => b + n <= x
    <3>1. ~ (b <= x /\ x < b + n)
      BY <1>2, <1>4, <2>1
    <3> QED BY <1>1, <2>1, <3>1
  <2> QED BY <2>2, <2>3
<1>7. \A x, f \in S \cup {b} : x < f => x + next[x] <= f
  <2> SUFFICES ASSUME NEW x \in S \cup {b}, NEW f \in S \cup {b}, x < f PROVE x + next[x] <= f
    OBVIOUS
  <2>1. CASE x = b /\ f = b
    BY <1>1, <2>1
  <2>2. CASE x = b /\ f # b
    BY <1>6, <2>2
  <2>3. CASE x # b /\ f = b
    BY <1>6, <2>3
  <2>4. CASE x # b /\ f # b
    BY <1>1, <2>4
  <2> QED BY <2>1, <2>2, <2>3, <2>4
<1>8. \A x \in S \cup {b} : next[x] >= 1
  BY <1>1
<1>9. ASSUME NEW u \in FreeList!Page
      PROVE  u \notin out \ r <=> \E x \in S \cup {b} : x <= u /\ u < x + next[x]
  <2>1. u \in r <=> b <= u /\ u < b + n
    BY <1>2, EntryIs
  <2>2. u \notin out <=> \E x \in S : x <= u /\ u < x + len[x]
    BY <1>1
  <2>3. u \notin out \ r <=> u \notin out \/ u \in r
    OBVIOUS
  <2> QED BY <2>1, <2>2, <2>3
<1>10. Sized(S \cup {b}, next, out \ r)
  BY <1>7, <1>8, <1>9 DEF Sized
<1> QED BY <1>5, <1>10 DEF r

\* The block alloc_pages chooses is one where a walk ends, and is large enough.
LEMMA ChosenIs ==
    ASSUME links \in Links, property \in Sizes, NEW n \in Nat, FreeList!Ends(n),
           FreeList!Chosen(n) # NPages
    PROVE  /\ FreeList!Chosen(n) \in FreeList!Page /\ property[FreeList!Chosen(n)] >= n
           /\ \E stops : /\ FreeList!WalkEnds(links, stops) # {}
                         /\ FreeList!Chosen(n) = FreeList!WalkEnd(links, stops)
<1> DEFINE page == FreeList!Chosen(n)
           enough == FreeList!Large(n)
           N == NPages
<1>1. /\ FreeList!free_list = N /\ FreeList!Entry = FreeList!Page \cup {N}
      /\ enough = {p \in FreeList!Page : property[p] >= n}
  BY EntryIs DEF FreeList!Large
<1>2. ASSUME NEW stops, FreeList!WalkEnds(links, stops) # {}, page = FreeList!WalkEnd(links, stops),
             \A p \in FreeList!Page : p \in stops => p \in enough
      PROVE  page \in FreeList!Page /\ property[page] >= n
  <2>1. page \in FreeList!Entry \cap stops
    BY <1>2, EndsAmong
  <2> HIDE DEF page, N, enough
  <2>2. page # N
    BY DEF page, N
  <2> QED BY <1>1, <1>2, <2>1, <2>2
<1>3. CASE fit = "first"
  <2> DEFINE stops == {N} \cup enough
  <2>1. FreeList!WalkEnds(links, stops) # {}
    BY <1>1, <1>3 DEF FreeList!Ends
  <2>2. page = FreeList!WalkEnd(links, stops)
    BY <1>1, <1>3 DEF FreeList!Chosen
  <2>3. \A p \in FreeList!Page : p \in stops => p \in enough
    BY EntryIs
  <2> HIDE DEF stops, page, enough
  <2>4. page \in FreeList!Page /\ property[page] >= n
    BY <1>2, <2>1, <2>2, <2>3
  <2> QED BY <2>1, <2>2, <2>4 DEF page
<1>4. CASE fit # "first"
  <2> DEFINE fits == FreeList!Fits(n)
             sizes == {property[e] : e \in fits}
             least == FreeList!Min(sizes)
             stops == {p \in FreeList!Page : property[p] = least}
             w == FreeList!Walk(links)
             Z == FreeList!WalkEnds(links, {N})
             m == FreeList!Min(Z)
  <2>1. fits = FreeList!Linked(links) \cap enough
    BY DEF FreeList!Fits
  <2>2. fits # {} /\ page = FreeList!WalkEnd(links, stops)
    BY <1>1, <1>4 DEF FreeList!Chosen
  <2>3. Z # {}
    BY <1>1, <1>4 DEF FreeList!Ends
  <2>4. Z = {k \in 1..(N + 1) : w[k] \in {N}}
    BY DEF FreeList!WalkEnds
  <2>5. FreeList!Linked(links) = {w[k] : k \in 1..m} \ {N}
    BY <1>1 DEF FreeList!Linked
  <2> HIDE DEF fits, w, Z, m, enough
  <2>6. m \in Z
    <3>1. Z \subseteq Nat
      BY <2>4, EntryIs
    <3> QED BY <2>3, <3>1, LeastOf DEF m
  <2>7. sizes \subseteq Nat /\ sizes # {}
    BY <1>1, <2>1, <2>2 DEF Sizes
  <2> HIDE DEF sizes
  <2>8. least \in sizes
    BY <2>7, LeastOf
  <2> HIDE DEF least, stops, page
  <2>9. PICK e \in fits : property[e] = least
    BY <2>8 DEF sizes
  <2>10. e \in FreeList!Page /\ property[e] >= n /\ e \in FreeList!Linked(links)
    BY <1>1, <2>1, <2>9
  <2>11. PICK k \in 1..m : w[k] = e
    BY <2>5, <2>10
  <2>12. k \in 1..(N + 1)
    BY <2>4, <2>6, <2>11, EntryIs
  <2>13. e \in stops
    BY <2>9, <2>10 DEF stops
  <2>14. FreeList!WalkEnds(links, stops) # {}
    BY <2>11, <2>12, <2>13 DEF FreeList!WalkEnds, w, N
  <2>15. \A p \in FreeList!Page : p \in stops => p \in enough
    BY <1>1, <2>9, <2>10 DEF stops
  <2>16. page \in FreeList!Page /\ property[page] >= n
    BY <1>2, <2>2, <2>14, <2>15
  <2> QED BY <2>2, <2>14, <2>16 DEF page
<1> QED BY <1>3, <1>4

LEMMA SplitSizes ==
    ASSUME NEW s \in Sizes, NEW page \in FreeList!Page, NEW n \in Nat, n >= 1, s[page] > n
    PROVE  /\ page + n \in FreeList!Page
           /\ [s EXCEPT ![page + n] = s[page] - n] \in Sizes
           /\ page + n + (s[page] - n) = page + s[page]
<1>1. /\ s \in [FreeList!Page -> Nat] /\ (\A p \in FreeList!Page : p + s[p] <= NPages)
      /\ page \in Nat /\ s[page] \in Nat /\ NPages \in Nat
  BY EntryIs DEF Sizes
<1>2. page + n \in FreeList!Page
  <2>1. page + n \in Nat /\ page + n < NPages
    BY <1>1
  <2> QED BY <2>1, EntryIs
<1> DEFINE t == [s EXCEPT ![page + n] = s[page] - n]
<1>3. t \in [FreeList!Page -> Nat]
  <2>1. s[page] - n \in Nat
    BY <1>1
  <2> QED BY <1>1, <2>1
<1>4. \A p \in FreeList!Page : t[p] = IF p = page + n THEN s[page] - n ELSE s[p]
  BY <1>1
<1> HIDE DEF t
<1>5. ASSUME NEW p \in FreeList!Page PROVE p + t[p] <= NPages
  <2>1. CASE p = page + n
    BY <1>1, <1>4, <2>1
  <2>2. CASE p # page + n
    BY <1>1, <1>4, <2>2
  <2> QED BY <2>1, <2>2
<1>6. t \in Sizes
  BY <1>3, <1>5 DEF Sizes
<1>7. page + n + (s[page] - n) = page + s[page]
  BY <1>1
<1> QED BY <1>2, <1>6, <1>7 DEF t

\* What alloc_pages does to a good list: a whole block goes,
LEMMA WholeGood ==
    ASSUME NEW L \in Links, NEW S, NEW s \in Sizes, NEW out \in SUBSET FreeList!Page,
           ListGood(L, S, s, out), NEW page \in S, L.prev[page] # page
    PROVE  LET D == FreeList!list_del(L, page)
           IN  /\ D \in Links
               /\ ListGood(D, S \ {page}, s, out \cup FreeList!Run(page, s[page]))
               /\ FreeList!Run(page, s[page]) \in SUBSET FreeList!Page
               /\ FreeList!Run(page, s[page]) \cap out = {}
               /\ AllBack(S, L) => AllBack(S \ {page}, D)
               /\ Apart(S, L.next, s, {}) => Apart(S \ {page}, D.next, s, {})
<1> DEFINE D == FreeList!list_del(L, page)
           p == L.prev[page]
           T == S \cup {NPages}
<1>1. Chained(S, L.next) /\ LeadsBack(S, L) /\ Sized(S, s, out) /\ S \in SUBSET FreeList!Page
  BY DEF ListGood, Chained
<1>2. /\ D \in Links /\ Chained(S \ {page}, D.next) /\ LeadsBack(S \ {page}, D)
      /\ AllBack(S, L) => AllBack(S \ {page}, D)
      /\ p \in T \ {page} /\ L.next[p] = page
      /\ D.next[p] = L.next[page]
      /\ \A x \in T : x # p => D.next[x] = L.next[x]
  BY <1>1, TakenOff
<1>3. /\ FreeList!Run(page, s[page]) \in SUBSET FreeList!Page
      /\ FreeList!Run(page, s[page]) \cap out = {}
      /\ Sized(S \ {page}, s, out \cup FreeList!Run(page, s[page]))
  BY <1>1, WholeTaken
<1> HIDE DEF D
<1>4. ASSUME Apart(S, L.next, s, {}), NEW e \in S \ {page}
      PROVE  D.next[e] = NPages \/ D.next[e] # e + s[e]
  <2>1. L.next[e] = NPages \/ L.next[e] # e + s[e]
    BY <1>4 DEF Apart
  <2>2. CASE e # p
    BY <1>2, <2>1, <2>2
  <2>3. CASE e = p
    <3>1. D.next[e] = L.next[page] /\ L.next[page] \in T /\ page < L.next[page]
      BY <1>1, <1>2, <2>3 DEF Chained
    <3>2. e + s[e] <= page
      <4>1. e < page
        <5>1. e < L.next[e] /\ L.next[e] = page
          BY <1>1, <1>2, <2>3 DEF Chained
        <5> QED BY <5>1
      <4> QED BY <1>1, <4>1 DEF Sized
    <3>3. /\ e \in Nat /\ s[e] \in Nat /\ page \in Nat
          /\ L.next[page] \in Nat
      BY <1>1, <3>1, EntryIs DEF Sizes
    <3> QED BY <3>1, <3>2, <3>3
  <2> QED BY <2>2, <2>3
<1>5. Apart(S, L.next, s, {}) => Apart(S \ {page}, D.next, s, {})
  BY <1>4 DEF Apart
<1>6. ListGood(D, S \ {page}, s, out \cup FreeList!Run(page, s[page]))
  BY <1>2, <1>3 DEF ListGood
<1> QED BY <1>2, <1>3, <1>5, <1>6 DEF D

\* or a block is split.
Rest(s, page, n) == [s EXCEPT ![page + n] = s[page] - n]
CutList(L, page, n) == FreeList!list_add(FreeList!list_del(L, page), L.prev[page], page + n)

LEMMA SplitGood ==
    ASSUME NEW L \in Links, NEW S, NEW s \in Sizes, NEW out \in SUBSET FreeList!Page,
           ListGood(L, S, s, out), NEW page \in S, L.prev[page] # page,
           NEW n \in Nat, n >= 1, s[page] > n
    PROVE  LET D == CutList(L, page, n)
               t == Rest(s, page, n)
               R == (S \cup {page + n}) \ {page}
           IN  /\ D \in Links /\ ListGood(D, R, t, out \cup FreeList!Run(page, n))
               /\ FreeList!Run(page, n) \in SUBSET FreeList!Page
               /\ FreeList!Run(page, n) \cap out = {}
               /\ AllBack(S, L) => AllBack(R, D)
               /\ Apart(S, L.next, s, {}) => Apart(R, D.next, t, {})
<1> DEFINE C == FreeList!list_del(L, page)
           p == L.prev[page]
           b == page + n
           D == FreeList!list_add(C, p, b)
           t == [s EXCEPT ![b] = s[page] - n]
           Q == S \ {page}
           R == (S \cup {b}) \ {page}
           all == out \cup FreeList!Run(page, s[page])
<1>1. Chained(S, L.next) /\ LeadsBack(S, L) /\ Sized(S, s, out) /\ S \in SUBSET FreeList!Page
  BY DEF ListGood, Chained
<1>2. /\ C \in Links /\ Chained(Q, C.next) /\ LeadsBack(Q, C)
      /\ AllBack(S, L) => AllBack(Q, C)
      /\ p \in (S \cup {NPages}) \ {page} /\ L.next[p] = page
      /\ C.next[p] = L.next[page]
      /\ \A x \in S \cup {NPages} : x # p => C.next[x] = L.next[x]
  BY <1>1, TakenOff
<1>3. /\ FreeList!Run(page, s[page]) \in SUBSET FreeList!Page
      /\ FreeList!Run(page, s[page]) \cap out = {}
      /\ Sized(Q, s, all)
  BY <1>1, WholeTaken
<1>4. b \in FreeList!Page /\ t \in Sizes /\ b + (s[page] - n) = page + s[page]
  BY <1>1, SplitSizes
<1>5. /\ page \in Nat /\ s[page] \in Nat /\ b \in Nat /\ page < b /\ b < page + s[page]
      /\ page + s[page] <= NPages /\ NPages \in Nat
      /\ \A x \in S : x \in Nat /\ s[x] \in Nat /\ x < NPages /\ x + s[x] <= NPages
  BY <1>1, EntryIs DEF Sizes
<1>6. t[b] = s[page] - n /\ \A x \in FreeList!Page : x # b => t[x] = s[x]
  BY <1>4 DEF Sizes
<1>7. \A x \in S : page < x => b < x /\ page + s[page] <= x
  BY <1>1, <1>5 DEF Sized
<1>8. b \notin S /\ b \notin Q /\ R = Q \cup {b}
  BY <1>5, <1>7
<1>9. b < L.next[page] /\ L.next[page] \in S \cup {NPages} /\ page < L.next[page]
  <2>1. L.next[page] \in S \cup {NPages} /\ page < L.next[page]
    BY <1>1 DEF Chained
  <2>2. CASE L.next[page] = NPages
    <3>1. b < NPages
      BY <1>5
    <3> QED BY <2>1, <2>2, <3>1
  <2>3. CASE L.next[page] \in S
    BY <1>7, <2>1, <2>3
  <2> QED BY <2>1, <2>2, <2>3
<1>10. p = NPages \/ (p \in S /\ p < page /\ p < b)
  <2>1. CASE p \in S
    <3>1. p < page
      BY <1>1, <1>2, <2>1 DEF Chained
    <3> QED BY <1>5, <2>1, <3>1
  <2> QED BY <1>2, <2>1
<1>11. p \in Q \cup {NPages} /\ b \in FreeList!Page \ Q /\ b < C.next[p]
  BY <1>2, <1>4, <1>8, <1>9
<1> HIDE DEF C, p, b, t, Q
<1>12. D = FreeList!Between(C, b, p, C.next[p])
  BY DEF FreeList!list_add
<1> HIDE DEF D
<1>13. /\ D \in Links /\ Chained(Q \cup {b}, D.next) /\ LeadsBack(Q \cup {b}, D)
       /\ AllBack(Q, C) => AllBack(Q \cup {b}, D)
       /\ D.next[p] = b /\ D.next[b] = C.next[p]
       /\ \A x \in Q \cup {NPages} : x # p => D.next[x] = C.next[x]
  BY <1>2, <1>10, <1>11, <1>12, PutBehind
<1>14. /\ \A u : u \in FreeList!Run(page, s[page]) <=> u \in Nat /\ page <= u /\ u < page + s[page]
       /\ \A u : u \in FreeList!Run(page, n) <=> u \in Nat /\ page <= u /\ u < page + n
       /\ \A u : u \in FreeList!Run(b, s[page] - n) <=> u \in Nat /\ b <= u /\ u < b + (s[page] - n)
  <2>1. s[page] - n \in Nat
    BY <1>5
  <2> QED BY <1>5, <2>1, RunIs
<1>15. b = page + n /\ page + n + (s[page] - n) = page + s[page]
  BY <1>4 DEF b
<1>16. /\ FreeList!Run(b, s[page] - n) \subseteq all
       /\ FreeList!Run(page, n) \subseteq FreeList!Run(page, s[page])
       /\ \A u : u \in all \ FreeList!Run(b, s[page] - n) <=> u \in out \cup FreeList!Run(page, n)
  <2>1. \A u \in FreeList!Run(b, s[page] - n) : u \in FreeList!Run(page, s[page])
    BY <1>5, <1>14, <1>15
  <2>2. \A u \in FreeList!Run(page, n) :
           u \in FreeList!Run(page, s[page]) /\ u \notin FreeList!Run(b, s[page] - n)
    BY <1>5, <1>14, <1>15
  <2>3. \A u \in FreeList!Run(page, s[page]) :
           u \in FreeList!Run(page, n) \/ u \in FreeList!Run(b, s[page] - n)
    BY <1>5, <1>14, <1>15
  <2> QED BY <1>3, <2>1, <2>2, <2>3
<1>17. Sized(Q \cup {b}, t, all \ FreeList!Run(b, s[page] - n))
  <2>1. Q \in SUBSET FreeList!Page /\ all \in SUBSET FreeList!Page
    BY <1>1, <1>3 DEF Q
  <2>2. s[page] - n \in Nat /\ s[page] - n >= 1
    BY <1>5, <1>15
  <2>3. b + (s[page] - n) <= NPages
    BY <1>4, <1>5
  <2>4. t[b] = s[page] - n
    BY <1>6
  <2>5. \A x \in Q : t[x] = s[x]
    <3>1. \A x \in Q : x \in FreeList!Page /\ x # b
      BY <1>8, <2>1
    <3> QED BY <1>6, <3>1
  <2> DEFINE m == s[page] - n
  <2>6. Sized(Q, s, all) /\ b \in FreeList!Page /\ t \in Sizes /\ FreeList!Run(b, m) \subseteq all
    BY <1>3, <1>4, <1>16
  <2>7. m \in Nat /\ m >= 1 /\ b + m <= NPages /\ t[b] = m
    BY <2>2, <2>3, <2>4
  <2> SUFFICES Sized(Q \cup {b}, t, all \ FreeList!Run(b, m))
    OBVIOUS
  <2> HIDE DEF all, m
  <2>8. ASSUME NEW X \in SUBSET FreeList!Page, NEW l \in Sizes, NEW o \in SUBSET FreeList!Page,
               Sized(X, l, o), FreeList!Run(b, m) \subseteq o, \A x \in X : t[x] = l[x]
        PROVE  Sized(X \cup {b}, t, o \ FreeList!Run(b, m))
    BY <2>6, <2>7, <2>8, BlockComes
  <2> QED BY <2>1, <2>5, <2>6, <2>7, <2>8
<1>18. all \ FreeList!Run(b, s[page] - n) = out \cup FreeList!Run(page, n)
  BY <1>16
<1>19. ListGood(D, R, t, out \cup FreeList!Run(page, n))
  BY <1>8, <1>13, <1>17, <1>18 DEF ListGood
<1>20. AllBack(S, L) => AllBack(R, D)
  BY <1>2, <1>8, <1>13
<1>21. ASSUME Apart(S, L.next, s, {}), NEW e \in R PROVE D.next[e] = NPages \/ D.next[e] # e + t[e]
  <2>1. \A x \in S : L.next[x] = NPages \/ L.next[x] # x + s[x]
    BY <1>21 DEF Apart
  <2>2. CASE e = b
    <3>1. D.next[e] = L.next[page] /\ e + t[e] = page + s[page]
      BY <1>2, <1>4, <1>6, <1>13, <2>2
    <3> QED BY <2>1, <3>1
  <2>3. CASE e # b /\ e = p
    <3>1. e \in S /\ e < page /\ e + s[e] <= page /\ t[e] = s[e] /\ D.next[e] = b
      BY <1>1, <1>5, <1>6, <1>8, <1>10, <1>13, <2>3 DEF Sized, Q
    <3> QED BY <1>5, <3>1
  <2>4. CASE e # b /\ e # p
    <3>1. e \in S /\ e \in Q /\ t[e] = s[e] /\ D.next[e] = L.next[e]
      BY <1>1, <1>2, <1>6, <1>8, <1>13, <2>4 DEF Q
    <3> QED BY <2>1, <3>1
  <2> QED BY <2>2, <2>3, <2>4
<1>22. Apart(S, L.next, s, {}) => Apart(R, D.next, t, {})
  BY <1>21 DEF Apart
<1>23. FreeList!Run(page, n) \in SUBSET FreeList!Page /\ FreeList!Run(page, n) \cap out = {}
  BY <1>3, <1>16
<1> QED BY <1>13, <1>19, <1>20, <1>22, <1>23, Zenon DEF CutList, Rest, D, C, p, b, t, R, Q

LEMMA InsertedIn ==
    ASSUME links \in Links, NEW base \in FreeList!Page,
           FreeList!WalkEnds(links, FreeList!Stops(base)) # {}
    PROVE  FreeList!Inserted(base) \in Links /\ FreeList!Place(base) \in FreeList!Entry
<1> DEFINE le == FreeList!Place(base)
           E == FreeList!Entry
<1>1. le \in E
  <2>1. le = FreeList!WalkEnd(links, FreeList!Stops(base))
    BY DEF FreeList!Place
  <2> QED BY <2>1, EndsAmong
<1>2. base \in E /\ FreeList!free_list \in E
  BY EntryIs
<1> HIDE DEF le, E
<1>3. \A L \in Links, e \in E : L.next[e] \in E /\ L.prev[e] \in E
  BY DEF Links, E
<1>4. \A L \in Links, x, y, z \in E : FreeList!Between(L, x, y, z) \in Links
  BY BetweenIs DEF E
<1>5. \A L \in Links, x, y \in E :
         FreeList!list_add(L, y, x) \in Links /\ FreeList!list_add_before(L, y, x) \in Links
  BY <1>3, <1>4, Zenon DEF FreeList!list_add, FreeList!list_add_before
<1>6. \/ FreeList!Inserted(base) = FreeList!list_add(links, FreeList!free_list, base)
      \/ FreeList!Inserted(base) = FreeList!list_add_before(links, le, base)
      \/ FreeList!Inserted(base) = FreeList!list_add(FreeList!list_add(links, le, base), base, base)
  BY DEF FreeList!Inserted, le
<1> QED BY <1>1, <1>2, <1>5, <1>6, Zenon DEF le, E

\* Wherever base is put in a good list, the list stays good; put behind the last
\* block, base is linked to itself.
LEMMA InsertedGood ==
    ASSUME links \in Links, NEW S, Chained(S, links.next), LeadsBack(S, links),
           NEW base \in FreeList!Page \ S,
           FreeList!Damaged(base) # "torn"
    PROVE  LET D == FreeList!Inserted(base)
           IN  /\ Chained(S \cup {base}, D.next) /\ LeadsBack(S \cup {base}, D)
               /\ \/ D.next[base] = NPages /\ D.prev[base] = base
                     /\ FreeList!Damaged(base) # "none"
                  \/ /\ AllBack(S, links) => AllBack(S \cup {base}, D)
                     /\ D.prev[base] # base
                     /\ D.next[base] \in S => D.prev[D.next[base]] = base
                     /\ \A x \in S : x # D.prev[base] => D.next[x] = links.next[x]
<1> DEFINE le == FreeList!Place(base)
           D == FreeList!Inserted(base)
           stops == FreeList!Stops(base)
           N == NPages
           Good(p) == /\ p \in S \cup {N} /\ (p = N \/ p < base) /\ base < links.next[p]
           B(p) == FreeList!Between(links, base, p, links.next[p])
<1>1. /\ FreeList!free_list = N /\ N \notin S /\ base # N /\ base \notin S /\ base < N
      /\ (\A x \in S \cup {N} : x \in Nat /\ x \in FreeList!Entry) /\ base \in Nat
      /\ \A x \in S : x \in FreeList!Page /\ x < N
  BY EntryIs DEF Chained
<1>2. stops = {N} \cup {e \in FreeList!Page : base < e \/ links.next[e] = N}
  BY <1>1 DEF FreeList!Stops
<1>3. /\ le \in (S \cup {N}) \cap stops
      /\ \A d \in S : d \in stops => le <= d
  <2>1. le = FreeList!WalkEnd(links, stops) /\ N \in stops
    BY <1>2 DEF FreeList!Place
  <2> HIDE DEF stops, le
  <2> QED BY <2>1, EndsInList DEF N
<1>4. \A x \in S : links.next[x] \in S \cup {N} /\ x < links.next[x]
  BY DEF Chained
<1> HIDE DEF stops, le
<1>5. ASSUME NEW p, Good(p)
      PROVE  /\ B(p) \in Links /\ Chained(S \cup {base}, B(p).next) /\ LeadsBack(S \cup {base}, B(p))
             /\ AllBack(S, links) => AllBack(S \cup {base}, B(p))
             /\ B(p).next[p] = base /\ B(p).next[base] = links.next[p]
             /\ B(p).prev[base] = p /\ B(p).prev[links.next[p]] = base
             /\ \A x \in S \cup {NPages} : x # p => B(p).next[x] = links.next[x]
             /\ p # base
  <2>1. p # base
    BY <1>1, <1>5
  <2>2. p \in S \cup {NPages} /\ (p = NPages \/ p < base) /\ base < links.next[p]
    BY <1>5
  <2> HIDE DEF D, N, Good
  <2> QED BY <2>1, <2>2, PutBehind, Z3
<1>6. CASE le = N
  <2>1. S = {}
    <3> SUFFICES ASSUME S # {} PROVE FALSE
      OBVIOUS
    <3>1. PICK e \in S : links.next[e] = N
      BY LastBlock
    <3>2. e \in stops
      BY <1>1, <1>2, <3>1
    <3> QED BY <1>1, <1>3, <1>6, <3>1, <3>2
  <2>2. links.next[N] = N
    BY <2>1 DEF Chained
  <2>3. Good(N)
    BY <1>1, <2>2
  <2>4. D = B(N)
    BY <1>1, <1>6 DEF FreeList!Inserted, FreeList!list_add, le
  <2> HIDE DEF Good, B, D
  <2>5. \A x \in S : x # D.prev[base] => D.next[x] = links.next[x]
    BY <2>1
  <2> QED BY <1>5, <2>1, <2>3, <2>4, <2>5 DEF D
<1>7. CASE le # N /\ base < le
  <2> DEFINE p == links.prev[le]
  <2>1. FreeList!Damaged(base) = FreeList!Tears(links, le)
    BY <1>1, <1>7 DEF FreeList!Damaged, le
  <2>2. p # le
    BY <2>1 DEF FreeList!Tears
  <2>3. le \in S /\ p \in S \cup {N} /\ links.next[p] = le
    BY <1>3, <1>7, <2>2 DEF LeadsBack
  <2>4. p = N \/ p < base
    <3> SUFFICES ASSUME p # N PROVE p < base
      OBVIOUS
    <3>1. p \in S /\ p < le
      BY <1>4, <2>3
    <3>2. ~ (base < p)
      <4> SUFFICES ASSUME base < p PROVE FALSE
        OBVIOUS
      <4>1. p \in stops
        BY <1>1, <1>2, <3>1
      <4>2. le <= p
        BY <1>3, <3>1, <4>1
      <4> QED BY <1>1, <2>3, <3>1, <4>2
    <3> QED BY <1>1, <3>1, <3>2
  <2>5. Good(p)
    BY <1>7, <2>3, <2>4
  <2>6. D = B(p)
    BY <1>1, <1>7, <2>3 DEF FreeList!Inserted, FreeList!list_add_before, le
  <2> HIDE DEF Good, B, D, p
  <2>7. D.prev[base] = p /\ D.next[base] = le /\ D.prev[le] = base
    BY <1>5, <2>3, <2>5, <2>6
  <2> QED BY <1>5, <2>5, <2>6, <2>7 DEF D
<1>8. CASE le # N /\ ~ (base < le)
  <2> DEFINE C == B(le)
  <2>1. le \in S /\ links.next[le] = N /\ le < base
    BY <1>1, <1>2, <1>3, <1>8
  <2>2. Good(le)
    BY <1>1, <2>1
  <2>3. /\ C \in Links /\ Chained(S \cup {base}, C.next) /\ LeadsBack(S \cup {base}, C)
        /\ C.next[base] = N /\ C.prev[N] = base
    <3> HIDE DEF Good, B
    <3> QED BY <1>5, <2>1, <2>2
  <2>4. D = FreeList!Between(C, base, base, C.next[base])
    BY <1>1, <1>8 DEF FreeList!Inserted, FreeList!list_add, le
  <2>5. FreeList!Damaged(base) # "none"
    BY <1>1, <1>8 DEF FreeList!Damaged, le
  <2> HIDE DEF Good, B, D, C
  <2>6. /\ D \in Links
        /\ \A x \in FreeList!Entry :
              /\ D.next[x] = IF x = base THEN N ELSE IF x = base THEN base ELSE C.next[x]
              /\ D.prev[x] = IF x = base THEN base ELSE IF x = N THEN base ELSE C.prev[x]
    <3>1. base \in FreeList!Entry /\ N \in FreeList!Entry
      BY EntryIs
    <3>2. C \in Links /\ C.next[base] = N
      BY <2>3
    <3> HIDE DEF N
    <3>3. D = FreeList!Between(C, base, base, N)
      BY <2>4, <3>2
    <3> QED BY <3>1, <3>2, <3>3, BetweenIs, Z3
  <2>7. \A x \in S \cup {base, N} : D.next[x] = C.next[x]
    <3>1. \A x \in S \cup {base, N} : x \in FreeList!Entry
      BY EntryIs, <1>1
    <3> QED BY <2>3, <2>6, <3>1
  <2>8. Chained(S \cup {base}, D.next)
    BY <2>3, <2>7 DEF Chained, N
  <2>9. \A x \in S : D.prev[x] = C.prev[x]
    BY <1>1, <2>6
  <2>10. D.prev[base] = base /\ D.next[base] = N
    BY <2>6, EntryIs
  <2>11. LeadsBack(S \cup {base}, D)
    <3> SUFFICES ASSUME NEW x \in S \cup {base}
                 PROVE  /\ D.prev[x] \in (S \cup {base}) \cup {NPages}
                        /\ D.prev[x] = x \/ D.next[D.prev[x]] = x
      BY DEF LeadsBack
    <3>1. CASE x = base
      BY <2>10, <3>1
    <3>2. CASE x \in S
      <4>1. D.prev[x] = C.prev[x]
        BY <2>9, <3>2
      <4>2. C.prev[x] \in (S \cup {base}) \cup {NPages} /\ (C.prev[x] = x \/ C.next[C.prev[x]] = x)
        BY <2>3 DEF LeadsBack
      <4>3. D.next[C.prev[x]] = C.next[C.prev[x]]
        BY <2>7, <4>2 DEF N
      <4> QED BY <4>1, <4>2, <4>3
    <3> QED BY <3>1, <3>2
  <2> QED BY <2>5, <2>8, <2>10, <2>11 DEF D, N
<1> QED BY <1>6, <1>7, <1>8

\* A block is joined with the one that begins where it ends.
LEMMA JoinSizes ==
    ASSUME NEW s \in Sizes, NEW low \in FreeList!Page, NEW high \in FreeList!Page,
           low + s[low] = high
    PROVE  LET t == [s EXCEPT ![low] = @ + s[high]]
           IN  /\ t \in Sizes /\ low + t[low] = high + s[high]
               /\ \A x \in FreeList!Page : x # low => t[x] = s[x]
<1> DEFINE t == [s EXCEPT ![low] = @ + s[high]]
<1>1. /\ s \in [FreeList!Page -> Nat] /\ (\A p \in FreeList!Page : p + s[p] <= NPages)
      /\ low \in Nat /\ high \in Nat /\ s[low] \in Nat /\ s[high] \in Nat
  BY EntryIs DEF Sizes
<1>2. t \in [FreeList!Page -> Nat]
  <2>1. s[low] + s[high] \in Nat
    BY <1>1
  <2> QED BY <1>1, <2>1
<1>3. t[low] = s[low] + s[high] /\ \A x \in FreeList!Page : x # low => t[x] = s[x]
  BY <1>1
<1> HIDE DEF t
<1>4. low + t[low] = high + s[high]
  BY <1>1, <1>3
<1>5. \A p \in FreeList!Page : p + t[p] <= NPages
  BY <1>1, <1>3, <1>4
<1>6. t \in Sizes
  BY <1>2, <1>5 DEF Sizes
<1> QED BY <1>3, <1>4, <1>6 DEF t

LEMMA JoinGood ==
    ASSUME NEW L \in Links, NEW S, NEW s \in Sizes, NEW out \in SUBSET FreeList!Page,
           ListGood(L, S, s, out), NEW low \in S, NEW high \in S, low + s[low] = high,
           L.prev[high] # high
    PROVE  LET D == FreeList!list_del(L, high)
               t == [s EXCEPT ![low] = @ + s[high]]
           IN  /\ D \in Links /\ t \in Sizes /\ ListGood(D, S \ {high}, t, out)
               /\ AllBack(S, L) => AllBack(S \ {high}, D)
               /\ low # high /\ L.prev[high] = low
               /\ D.next[low] = L.next[high] /\ low + t[low] = high + s[high]
               /\ L.next[high] \in S => D.prev[L.next[high]] = low
               /\ \A x \in S : x # low => D.next[x] = L.next[x] /\ t[x] = s[x]
<1> DEFINE D == FreeList!list_del(L, high)
           t == [s EXCEPT ![low] = @ + s[high]]
           p == L.prev[high]
<1>1. Chained(S, L.next) /\ LeadsBack(S, L) /\ Sized(S, s, out) /\ S \in SUBSET FreeList!Page
  BY DEF ListGood, Chained
<1>2. /\ D \in Links /\ Chained(S \ {high}, D.next) /\ LeadsBack(S \ {high}, D)
      /\ AllBack(S, L) => AllBack(S \ {high}, D)
      /\ p \in (S \cup {NPages}) \ {high} /\ L.next[p] = high
      /\ D.next[p] = L.next[high]
      /\ L.next[high] \in S => D.prev[L.next[high]] = p
      /\ \A x \in S \cup {NPages} : x # p => D.next[x] = L.next[x]
  BY <1>1, TakenOff
<1>3. /\ t \in Sizes /\ low + t[low] = high + s[high]
      /\ \A x \in FreeList!Page : x # low => t[x] = s[x]
  BY <1>1, JoinSizes
<1>4. /\ \A x \in S : x \in Nat /\ x < NPages /\ s[x] \in Nat /\ s[x] >= 1 /\ t[x] \in Nat
      /\ \A e, f \in S : e < f => e + s[e] <= f
      /\ NPages \in Nat
  BY <1>1, <1>3, EntryIs DEF Sizes, Sized
<1>5. low < high
  BY <1>4
<1> HIDE DEF D, t, p
<1>6. p = low
  <2>1. CASE p = NPages
    <3>1. high <= low
      BY <1>1, <1>2, <2>1 DEF Chained
    <3> QED BY <1>4, <1>5, <3>1
  <2>2. CASE p \in S
    <3>1. p < high /\ (low <= p \/ high <= low)
      BY <1>1, <1>2, <2>2 DEF Chained
    <3>2. low <= p
      BY <1>4, <1>5, <3>1
    <3>3. ~ (low < p)
      <4> SUFFICES ASSUME low < p PROVE FALSE
        OBVIOUS
      <4>1. high <= p
        BY <1>4, <2>2
      <4> QED BY <1>4, <2>2, <3>1, <4>1
    <3> QED BY <1>4, <2>2, <3>2, <3>3
  <2> QED BY <1>2, <2>1, <2>2
<1>7. \A x \in S \ {high} : x # low => t[x] = s[x]
  BY <1>1, <1>3
<1>8. \A x \in S \ {high} : t[x] >= 1
  <2>1. t[low] >= 1
    BY <1>3, <1>4, <1>5
  <2> QED BY <1>4, <1>7, <2>1
<1>9. ASSUME NEW e \in S \ {high}, NEW f \in S \ {high}, e < f PROVE e + t[e] <= f
  <2>1. CASE e # low
    BY <1>4, <1>7, <1>9, <2>1
  <2>2. CASE e = low
    <3>1. high <= f
      BY <1>4, <1>9, <2>2
    <3>2. high < f
      BY <1>4, <3>1
    <3> QED BY <1>3, <1>4, <2>2, <3>2
  <2> QED BY <2>1, <2>2
<1>10. ASSUME NEW u \in FreeList!Page
       PROVE  (\E e \in S : e <= u /\ u < e + s[e]) <=> (\E e \in S \ {high} : e <= u /\ u < e + t[e])
  <2>1. u \in Nat
    BY EntryIs
  <2>2. (low <= u /\ u < low + t[low]) <=> (low <= u /\ u < low + s[low]) \/ (high <= u /\ u < high + s[high])
    BY <1>3, <1>4, <1>5, <2>1
  <2>3. low \in S \ {high}
    BY <1>4, <1>5
  <2>4. \A e \in S : e # low /\ e # high => (e \in S \ {high} /\ t[e] = s[e])
    BY <1>7
  <2> HIDE DEF t
  <2> QED BY <2>2, <2>3, <2>4
<1>11. Sized(S \ {high}, t, out)
  <2>1. \A u \in FreeList!Page : u \notin out <=> \E e \in S : e <= u /\ u < e + s[e]
    BY <1>1 DEF Sized
  <2>2. \A u \in FreeList!Page : u \notin out <=> \E e \in S \ {high} : e <= u /\ u < e + t[e]
    BY <1>10, <2>1
  <2> QED BY <1>8, <1>9, <2>2 DEF Sized
<1>12. ListGood(D, S \ {high}, t, out)
  BY <1>2, <1>11 DEF ListGood
<1>13. low # high
  BY <1>4, <1>5
<1>14. \A x \in S : x # low => D.next[x] = L.next[x] /\ t[x] = s[x]
  BY <1>1, <1>2, <1>3, <1>6
<1> QED BY <1>2, <1>3, <1>6, <1>12, <1>13, <1>14 DEF D, t, p

\* What free_pages may do with two neighbours.
JoinedIf(c, low, high) ==
    IF FreeList!Adjacent(c, low, high) THEN FreeList!Joined(c, low, high) ELSE c

GoodList(c, out) ==
    /\ c.links \in Links /\ c.property \in Sizes
    /\ ListGood(c.links, c.flags, c.property, out)

\* The two have become one.
OneOf(c, r, low, high) ==
    /\ low \in c.flags /\ high \in c.flags /\ low # high
    /\ r.flags = c.flags \ {high} /\ c.links.prev[high] = low
    /\ r.links.next[low] = c.links.next[high]
    /\ low + r.property[low] = high + c.property[high]
    /\ c.links.next[high] \in c.flags => r.links.prev[c.links.next[high]] = low
    /\ \A x \in c.flags : x # low => /\ r.links.next[x] = c.links.next[x]
                                     /\ r.property[x] = c.property[x]

LEMMA JoinsNeighbours ==
    ASSUME NEW c, NEW out \in SUBSET FreeList!Page, GoodList(c, out), NEW low, NEW high,
           low \in c.flags \cup {NPages}, high \in c.flags \cup {NPages},
           low \in c.flags /\ high \in c.flags /\ low # high => c.links.prev[high] # high
    PROVE  LET r == JoinedIf(c, low, high)
           IN  /\ GoodList(r, out)
               /\ AllBack(c.flags, c.links) => AllBack(r.flags, r.links)
               /\ IF FreeList!Adjacent(c, low, high) THEN OneOf(c, r, low, high) ELSE r = c
<1> DEFINE r == JoinedIf(c, low, high)
<1>1. c.links \in Links /\ c.property \in Sizes /\ ListGood(c.links, c.flags, c.property, out)
  BY DEF GoodList
<1>2. CASE ~ FreeList!Adjacent(c, low, high)
  BY <1>2 DEF JoinedIf
<1>3. CASE FreeList!Adjacent(c, low, high)
  <2> DEFINE L == c.links
             S == c.flags
             s == c.property
             D == FreeList!list_del(L, high)
             t == [s EXCEPT ![low] = @ + s[high]]
  <2>1. low \in S /\ high \in S /\ low + s[low] = high
    BY <1>3, EntryIs DEF FreeList!Adjacent
  <2>2. low # high
    <3>1. s[low] >= 1 /\ s[low] \in Nat /\ low \in Nat
      BY <1>1, <2>1, EntryIs DEF ListGood, Sized, Chained, Sizes
    <3> QED BY <2>1, <3>1
  <2>3. L.prev[high] # high
    BY <2>1, <2>2
  <2>4. r = [links |-> D, property |-> t, flags |-> S \ {high}]
    BY <1>3, Zenon DEF JoinedIf, FreeList!Joined
  <2>5. r.links = D /\ r.property = t /\ r.flags = S \ {high}
    BY <2>4
  <2>6. /\ D \in Links /\ t \in Sizes /\ ListGood(D, S \ {high}, t, out)
        /\ AllBack(S, L) => AllBack(S \ {high}, D)
        /\ low # high /\ L.prev[high] = low
        /\ D.next[low] = L.next[high] /\ low + t[low] = high + s[high]
        /\ L.next[high] \in S => D.prev[L.next[high]] = low
        /\ \A x \in S : x # low => D.next[x] = L.next[x] /\ t[x] = s[x]
    <3>1. L \in Links /\ s \in Sizes /\ ListGood(L, S, s, out)
      BY <1>1
    <3> HIDE DEF L, S, s
    <3> QED BY <2>1, <2>3, <3>1, JoinGood, Z3
  <2> HIDE DEF D, t, r
  <2>7. GoodList(r, out)
    BY <2>5, <2>6 DEF GoodList
  <2>8. AllBack(c.flags, c.links) => AllBack(r.flags, r.links)
    BY <2>5, <2>6
  <2>9. OneOf(c, r, low, high)
    BY <2>1, <2>5, <2>6 DEF OneOf
  <2> QED BY <1>3, <2>7, <2>8, <2>9 DEF r
<1> QED BY <1>2, <1>3

\* Merging a block with its neighbours keeps the list good, and leaves no block
\* touching the next where only the block and its predecessor may have.
LEMMA MergedGood ==
    ASSUME NEW b, NEW out \in SUBSET FreeList!Page, GoodList(b, out), NEW base \in b.flags,
           b.links.prev[base] = base => b.links.next[base] = NPages,
           b.links.prev[base] # base /\ b.links.next[base] \in b.flags
               => b.links.prev[b.links.next[base]] = base
    PROVE  LET c == FreeList!Merged(b, base)
           IN  /\ GoodList(c, out)
               /\ AllBack(b.flags, b.links) => AllBack(c.flags, c.links)
               /\ /\ Apart(b.flags, b.links.next, b.property, {b.links.prev[base], base})
                  /\ b.links.prev[base] # base
                  => Apart(c.flags, c.links.next, c.property, {})
<1> DEFINE low == b.links.prev[base]
           joined == FreeList!Adjacent(b, low, base)
           c == JoinedIf(b, low, base)
           first == IF joined THEN low ELSE base
           high == c.links.next[first]
           d == JoinedIf(c, first, high)
<1>1. FreeList!Merged(b, base) = d
  BY Zenon DEF FreeList!Merged, JoinedIf
<1>2. /\ b.flags \in SUBSET FreeList!Page /\ (\A e \in b.flags : e \in Nat /\ b.property[e] \in Nat)
      /\ (\A e \in b.flags : b.links.next[e] \in b.flags \cup {NPages} /\ e < b.links.next[e])
      /\ low \in b.flags \cup {NPages} /\ (low = base \/ b.links.next[low] = base)
      /\ NPages \notin b.flags
  BY EntryIs DEF GoodList, ListGood, Chained, LeadsBack, Sizes
<1>3. /\ GoodList(c, out)
      /\ AllBack(b.flags, b.links) => AllBack(c.flags, c.links)
      /\ IF joined THEN OneOf(b, c, low, base) ELSE c = b
  <2>1. low # base => b.links.prev[base] # base
    OBVIOUS
  <2> HIDE DEF low
  <2> QED BY <1>2, <2>1, JoinsNeighbours
<1> HIDE DEF c, d
<1>4. first \in c.flags /\ (first # base => low # base)
  BY <1>3 DEF OneOf
<1>5. high \in c.flags \cup {NPages} /\ first < high
  BY <1>3, <1>4 DEF GoodList, ListGood, Chained
<1>6. high \in c.flags => c.links.prev[high] = first
  <2>1. CASE joined
    <3>1. /\ high = b.links.next[base] /\ low # base /\ c.flags \subseteq b.flags
          /\ b.links.next[base] \in b.flags => c.links.prev[b.links.next[base]] = low
      BY <1>3, <2>1 DEF OneOf
    <3> QED BY <2>1, <3>1
  <2>2. CASE ~ joined
    <3>1. c = b /\ first = base /\ high = b.links.next[base]
      BY <1>3, <2>2
    <3>2. ASSUME high \in c.flags PROVE low # base
      BY <1>2, <3>1, <3>2
    <3> QED BY <3>1, <3>2
  <2> QED BY <2>1, <2>2
<1>7. first # high /\ (high \in c.flags => c.links.prev[high] # high)
  <2>1. first \in Nat
    BY <1>3, <1>4, EntryIs DEF GoodList, ListGood, Chained
  <2>2. high \in Nat
    BY <1>3, <1>5, EntryIs DEF GoodList, ListGood, Chained
  <2>3. first # high
    BY <1>5, <2>1, <2>2
  <2> QED BY <1>6, <2>3
<1> HIDE DEF first, high, joined
<1>8. /\ GoodList(d, out)
      /\ AllBack(c.flags, c.links) => AllBack(d.flags, d.links)
      /\ IF FreeList!Adjacent(c, first, high) THEN OneOf(c, d, first, high) ELSE d = c
  BY <1>3, <1>4, <1>5, <1>7, JoinsNeighbours DEF d
<1>9. ASSUME Apart(b.flags, b.links.next, b.property, {low, base}), low # base, NEW e \in c.flags, e # first
      PROVE  c.links.next[e] = NPages \/ c.links.next[e] # e + c.property[e]
  <2>1. \A x \in b.flags : x # low /\ x # base
           => b.links.next[x] = NPages \/ b.links.next[x] # x + b.property[x]
    BY <1>9 DEF Apart
  <2>2. CASE joined
    <3>1. /\ e \in b.flags /\ e # low /\ e # base
          /\ c.links.next[e] = b.links.next[e] /\ c.property[e] = b.property[e]
      BY <1>3, <1>9, <2>2 DEF OneOf, first
    <3> QED BY <2>1, <3>1
  <2>3. CASE ~ joined
    <3>1. c = b /\ e # base
      BY <1>3, <1>9, <2>3 DEF first
    <3>2. CASE e # low
      BY <1>9, <2>1, <3>1, <3>2
    <3>3. CASE e = low
      <4>1. low \in b.flags /\ low # NPages /\ base # NPages /\ b.links.next[low] = base
        BY <1>2, <1>9, <3>1, <3>3
      <4>2. low + b.property[low] # base
        BY <2>3, <4>1, EntryIs DEF joined, FreeList!Adjacent
      <4> QED BY <3>1, <3>3, <4>1, <4>2
    <3> QED BY <3>2, <3>3
  <2> QED BY <2>2, <2>3
<1>10. ASSUME Apart(b.flags, b.links.next, b.property, {low, base}), low # base, NEW e \in d.flags
       PROVE  d.links.next[e] = NPages \/ d.links.next[e] # e + d.property[e]
  <2>1. CASE FreeList!Adjacent(c, first, high)
    <3>1. OneOf(c, d, first, high)
      BY <1>8, <2>1
    <3>2. CASE e = first
      <4>1. d.links.next[e] = c.links.next[high] /\ e + d.property[e] = high + c.property[high]
        BY <3>1, <3>2 DEF OneOf
      <4>2. high \in c.flags /\ high # first
        BY <3>1 DEF OneOf
      <4> QED BY <1>9, <1>10, <4>1, <4>2
    <3>3. CASE e # first
      <4>1. e \in c.flags /\ d.links.next[e] = c.links.next[e] /\ d.property[e] = c.property[e]
        BY <3>1, <3>3 DEF OneOf
      <4> QED BY <1>9, <1>10, <3>3, <4>1
    <3> QED BY <3>2, <3>3
  <2>2. CASE ~ FreeList!Adjacent(c, first, high)
    <3>1. d = c
      BY <1>8, <2>2
    <3>2. CASE e = first
      <4>1. high = NPages \/ first + c.property[first] # high
        BY <1>4, <1>5, <1>3, <2>2, EntryIs DEF FreeList!Adjacent, GoodList, ListGood, Chained
      <4> QED BY <3>1, <3>2, <4>1 DEF high
    <3>3. CASE e # first
      BY <1>9, <1>10, <3>1, <3>3
    <3> QED BY <3>2, <3>3
  <2> QED BY <2>1, <2>2
<1>11. Apart(b.flags, b.links.next, b.property, {low, base}) /\ low # base
         => Apart(d.flags, d.links.next, d.property, {})
  BY <1>10 DEF Apart
<1> QED BY <1>1, <1>3, <1>8, <1>11

\* Links and sizes have their types even when the list is torn.
Shaped ==
    /\ links \in Links /\ property \in Sizes /\ held \in SUBSET FreeList!Page

LEMMA AllocShaped ==
    ASSUME Shaped, NEW n \in 1..NPages, FreeList!alloc_pages(n)
    PROVE  Shaped'
<1> USE DEF Shaped
<1>1. CASE ~ FreeList!Ends(n)
  BY <1>1 DEF FreeList!alloc_pages, FreeList!Halts
<1>2. CASE FreeList!Ends(n)
  <2> DEFINE page == FreeList!Chosen(n)
             D == FreeList!list_del(links, page)
             p == links.prev[page]
  <2>1. /\ page # NPages
        /\ IF property[page] > n THEN FreeList!Split(page, n) ELSE FreeList!Whole(page)
        /\ held' = held \cup FreeList!Run(page, n)
    BY <1>2, EntryIs, Zenon DEF FreeList!alloc_pages
  <2>2. n \in Nat /\ n >= 1
    BY EntryIs
  <2>3. page \in FreeList!Page /\ property[page] >= n
    BY <1>2, <2>1, <2>2, ChosenIs
  <2> HIDE DEF page
  <2>4. /\ page \in Nat /\ property[page] \in Nat /\ page + property[page] <= NPages
        /\ page \in FreeList!Entry /\ p \in FreeList!Entry
    BY <2>3, EntryIs DEF Sizes, Links
  <2>5. FreeList!Run(page, n) \subseteq FreeList!Page
    BY <2>2, <2>3, <2>4, EntryIs, RunIs
  <2>6. D \in Links
    BY <2>4, DelIs
  <2> HIDE DEF D, p
  <2>7. CASE property[page] > n
    <3>1. /\ links' = FreeList!list_add(D, p, page + n)
          /\ property' = [property EXCEPT ![page + n] = property[page] - n]
      BY <2>1, <2>7 DEF FreeList!Split, D, p
    <3>2. page + n \in FreeList!Page /\ property' \in Sizes
      BY <2>2, <2>3, <2>7, <3>1, SplitSizes
    <3>3. page + n \in FreeList!Entry /\ D.next[p] \in FreeList!Entry
      BY <2>4, <2>6, <3>2, EntryIs DEF Links
    <3>4. FreeList!Between(D, page + n, p, D.next[p]) \in Links
      <4> DEFINE y == page + n
                 x == D.next[p]
      <4>1. y \in FreeList!Entry /\ x \in FreeList!Entry /\ p \in FreeList!Entry
        BY <2>4, <3>3
      <4> SUFFICES FreeList!Between(D, y, p, x) \in Links
        OBVIOUS
      <4> HIDE DEF x, y
      <4> QED BY <2>6, <4>1, BetweenIs
    <3> QED BY <2>1, <2>5, <3>1, <3>2, <3>4 DEF FreeList!list_add
  <2>8. CASE ~ (property[page] > n)
    BY <2>1, <2>5, <2>6, <2>8 DEF FreeList!Whole, D
  <2> QED BY <2>7, <2>8
<1> QED BY <1>1, <1>2

LEMMA MergedShaped ==
    ASSUME NEW b, b.links \in Links, b.property \in Sizes, NEW base \in FreeList!Page
    PROVE  LET c == FreeList!Merged(b, base) IN c.links \in Links /\ c.property \in Sizes
<1>1. ASSUME NEW c, c.links \in Links, c.property \in Sizes,
             NEW low \in FreeList!Entry, NEW high \in FreeList!Entry
      PROVE  JoinedIf(c, low, high).links \in Links /\ JoinedIf(c, low, high).property \in Sizes
  <2>1. CASE FreeList!Adjacent(c, low, high)
    <3>1. low \in FreeList!Page /\ high \in FreeList!Page /\ low + c.property[low] = high
      BY <1>1, <2>1, EntryIs DEF FreeList!Adjacent
    <3>2. FreeList!list_del(c.links, high) \in Links
      BY <1>1, DelIs
    <3>3. [c.property EXCEPT ![low] = @ + c.property[high]] \in Sizes
      BY <1>1, <3>1, JoinSizes
    <3>4. JoinedIf(c, low, high) = FreeList!Joined(c, low, high)
      BY <2>1 DEF JoinedIf
    <3> QED BY <3>2, <3>3, <3>4 DEF FreeList!Joined
  <2>2. CASE ~ FreeList!Adjacent(c, low, high)
    BY <1>1, <2>2 DEF JoinedIf
  <2> QED BY <2>1, <2>2
<1> DEFINE low == b.links.prev[base]
           joined == FreeList!Adjacent(b, low, base)
           c == JoinedIf(b, low, base)
           first == IF joined THEN low ELSE base
           high == c.links.next[first]
           d == JoinedIf(c, first, high)
<1>2. FreeList!Merged(b, base) = d
  BY Zenon DEF FreeList!Merged, JoinedIf
<1>3. base \in FreeList!Entry /\ low \in FreeList!Entry
  BY EntryIs DEF Links
<1>4. c.links \in Links /\ c.property \in Sizes
  BY <1>1, <1>3
<1> HIDE DEF c
<1>5. first \in FreeList!Entry
  BY <1>3
<1> HIDE DEF first
<1>6. high \in FreeList!Entry
  BY <1>4, <1>5 DEF Links
<1> HIDE DEF high
<1>7. d.links \in Links /\ d.property \in Sizes
  BY <1>1, <1>4, <1>5, <1>6
<1> QED BY <1>2, <1>7

LEMMA FreeShaped ==
    ASSUME Shaped, NEW base \in FreeList!Page, NEW n \in 1..(NPages - base), FreeList!free_pages(base, n)
    PROVE  Shaped'
<1> USE DEF Shaped
<1> DEFINE b == [links |-> FreeList!Inserted(base),
                 property |-> [property EXCEPT ![base] = n],
                 flags |-> PageProperty \cup {base}]
           c == FreeList!Merged(b, base)
<1>1. \/ \E why : FreeList!Halts(why)
      \/ /\ FreeList!WalkEnds(links, FreeList!Stops(base)) # {}
         /\ links' = c.links /\ property' = c.property /\ held' = held \ FreeList!Run(base, n)
  BY Zenon DEF FreeList!free_pages
<1>2. CASE \E why : FreeList!Halts(why)
  BY <1>2 DEF FreeList!Halts
<1>3. ASSUME FreeList!WalkEnds(links, FreeList!Stops(base)) # {}
      PROVE  c.links \in Links /\ c.property \in Sizes
  <2>1. b.links \in Links
    BY <1>3, InsertedIn
  <2>2. base \in Nat /\ n \in Nat /\ base + n <= NPages /\ NPages \in Nat
    BY EntryIs
  <2>3. b.property \in Sizes
    <3> DEFINE t == [property EXCEPT ![base] = n]
    <3>1. t \in [FreeList!Page -> Nat] /\ \A p \in FreeList!Page : p + t[p] <= NPages
      BY <2>2 DEF Sizes
    <3> QED BY <3>1 DEF Sizes
  <2> HIDE DEF b
  <2> QED BY <2>1, <2>3, MergedShaped
<1> HIDE DEF c
<1> QED BY <1>1, <1>2, <1>3

LEMMA ListStarts == FreeList!FFInit => FreeListInv
<1> SUFFICES ASSUME FreeList!FFInit PROVE FreeListInv
  OBVIOUS
<1> DEFINE f == [e \in FreeList!Entry |-> IF e = 0 THEN NPages ELSE IF e = NPages THEN 0 ELSE e]
           s == [p \in FreeList!Page |-> IF p = 0 THEN NPages ELSE 0]
<1>1. /\ links = [next |-> f, prev |-> f] /\ property = s /\ PageProperty = {0}
      /\ nr_free = NPages /\ held = {} /\ damage = "none" /\ stopped = "no"
  BY EntryIs DEF FreeList!FFInit
<1>2. /\ 0 \in FreeList!Page /\ NPages \in FreeList!Entry /\ 0 \in FreeList!Entry
      /\ NPages \in Nat /\ NPages # 0
      /\ \A u \in FreeList!Page : u \in Nat /\ u < NPages
  BY EntryIs
<1>3. f \in [FreeList!Entry -> FreeList!Entry]
  BY <1>2
<1>4. f[0] = NPages /\ f[NPages] = 0
  BY <1>2
<1>5. s \in [FreeList!Page -> Nat]
  BY <1>2
<1>6. s[0] = NPages /\ \A p \in FreeList!Page : p + s[p] <= NPages
  BY <1>2
<1> HIDE DEF f, s
<1>7. links \in Links /\ links.next = f /\ links.prev = f
  BY <1>1, <1>3 DEF Links
<1>8. property \in Sizes
  BY <1>1, <1>5, <1>6 DEF Sizes
<1>9. Chained({0}, f)
  BY <1>2, <1>4 DEF Chained
<1>10. LeadsBack({0}, links) /\ AllBack({0}, links)
  BY <1>4, <1>7 DEF LeadsBack, AllBack
<1>11. Sized({0}, property, {})
  BY <1>1, <1>2, <1>6 DEF Sized
<1>12. Apart({0}, links.next, property, {})
  BY <1>4, <1>7 DEF Apart
<1>13. nr_free = NPages - Cardinality(held)
  BY <1>1, <1>2, FS_EmptySet
<1>14. ListGood(links, PageProperty, property, held)
  BY <1>1, <1>7, <1>9, <1>10, <1>11 DEF ListGood
<1> QED BY <1>1, <1>7, <1>8, <1>10, <1>12, <1>13, <1>14 DEF FreeListInv

LEMMA AllocKeeps ==
    ASSUME FreeListInv, NEW n \in 1..NPages, FreeList!alloc_pages(n)
    PROVE  FreeListInv'
<1> DEFINE page == FreeList!Chosen(n)
           S == PageProperty
<1>1. Shaped /\ Shaped'
  <2>1. Shaped
    BY DEF FreeListInv, Shaped
  <2> QED BY <2>1, AllocShaped
<1>2. CASE damage = "torn"
  <2>1. damage' = "torn"
    BY <1>2, Zenon DEF FreeList!alloc_pages, FreeList!Halts, FreeList!Tears
  <2> QED BY <1>1, <2>1 DEF FreeListInv, Shaped
<1>3. CASE damage # "torn"
  <2>1. /\ stopped = "no" /\ ListGood(links, S, property, held)
        /\ nr_free = NPages - Cardinality(held)
        /\ damage = "none" => AllBack(S, links) /\ Apart(S, links.next, property, {})
        /\ Chained(S, links.next)
        /\ links \in Links /\ property \in Sizes /\ held \in SUBSET FreeList!Page
    BY <1>3 DEF FreeListInv, ListGood
  <2>2. FreeList!Ends(n)
    <3> DEFINE stops == {NPages} \cup (IF fit = "first" THEN FreeList!Large(n) ELSE {})
    <3>1. FreeList!WalkEnds(links, stops) # {}
      <4>1. NPages \in stops
        OBVIOUS
      <4> HIDE DEF stops
      <4> QED BY <2>1, <4>1, EndsInList
    <3> QED BY <3>1, EntryIs DEF FreeList!Ends
  <2>3. /\ page # NPages
        /\ IF property[page] > n THEN FreeList!Split(page, n) ELSE FreeList!Whole(page)
        /\ held' = held \cup FreeList!Run(page, n) /\ nr_free' = nr_free - n
        /\ damage' = FreeList!Tears(links, page) /\ stopped' = stopped
    BY <2>2, EntryIs, Zenon DEF FreeList!alloc_pages
  <2>4. n \in Nat /\ n >= 1
    BY EntryIs
  <2>5. page \in S /\ property[page] >= n
    <3>1. /\ property[page] >= n
          /\ \E stops : /\ FreeList!WalkEnds(links, stops) # {}
                        /\ page = FreeList!WalkEnd(links, stops)
      BY <2>1, <2>2, <2>3, <2>4, ChosenIs
    <3>2. PICK stops : /\ FreeList!WalkEnds(links, stops) # {}
                       /\ page = FreeList!WalkEnd(links, stops)
      BY <3>1
    <3>3. FreeList!WalkEnd(links, stops) \in (S \cup {NPages}) \cap stops
      BY <2>1, <3>2, EndsInList
    <3> QED BY <2>3, <3>1, <3>2, <3>3
  <2>6. CASE links.prev[page] = page
    <3>1. damage' = "torn"
      BY <2>3, <2>6 DEF FreeList!Tears
    <3> QED BY <1>1, <3>1 DEF FreeListInv, Shaped
  <2>7. CASE links.prev[page] # page
    <3> HIDE DEF page, S
    <3>1. damage' = damage
      BY <2>3, <2>7 DEF FreeList!Tears
    <3>2. /\ ListGood(links', PageProperty', property', held')
          /\ FreeList!Run(page, n) \in SUBSET FreeList!Page /\ FreeList!Run(page, n) \cap held = {}
          /\ AllBack(S, links) => AllBack(PageProperty', links')
          /\ Apart(S, links.next, property, {}) => Apart(PageProperty', links'.next, property', {})
      <4>1. CASE property[page] > n
        <5> DEFINE D == CutList(links, page, n)
                   t == Rest(property, page, n)
                   R == (S \cup {page + n}) \ {page}
        <5>1. links' = D /\ property' = t /\ PageProperty' = R
          BY <2>3, <4>1 DEF FreeList!Split, CutList, Rest, S
        <5>2. /\ ListGood(D, R, t, held \cup FreeList!Run(page, n))
              /\ FreeList!Run(page, n) \in SUBSET FreeList!Page
              /\ FreeList!Run(page, n) \cap held = {}
              /\ AllBack(S, links) => AllBack(R, D)
              /\ Apart(S, links.next, property, {}) => Apart(R, D.next, t, {})
          <6>1. /\ links \in Links /\ property \in Sizes /\ held \in SUBSET FreeList!Page
                /\ ListGood(links, S, property, held)
            BY <2>1
          <6>2. page \in S /\ links.prev[page] # page /\ n \in Nat /\ n >= 1 /\ property[page] > n
            BY <2>4, <2>5, <2>7, <4>1
          <6> QED BY <6>1, <6>2, SplitGood, Zenon
        <5> HIDE DEF D, t, R
        <5> QED BY <2>3, <5>1, <5>2
      <4>2. CASE ~ (property[page] > n)
        <5> DEFINE D == FreeList!list_del(links, page)
        <5>1. links' = D /\ property' = property /\ PageProperty' = S \ {page}
          BY <2>3, <4>2 DEF FreeList!Whole, S
        <5>2. property[page] = n
          <6>1. property[page] \in Nat
            BY <2>1, <2>5 DEF Chained, Sizes
          <6> QED BY <2>4, <2>5, <4>2, <6>1
        <5>3. /\ ListGood(D, S \ {page}, property, held \cup FreeList!Run(page, property[page]))
              /\ FreeList!Run(page, property[page]) \in SUBSET FreeList!Page
              /\ FreeList!Run(page, property[page]) \cap held = {}
              /\ AllBack(S, links) => AllBack(S \ {page}, D)
              /\ Apart(S, links.next, property, {}) => Apart(S \ {page}, D.next, property, {})
          <6>1. /\ links \in Links /\ property \in Sizes /\ held \in SUBSET FreeList!Page
                /\ ListGood(links, S, property, held) /\ page \in S
            BY <2>1, <2>5
          <6> QED BY <2>7, <6>1, WholeGood, Zenon
        <5> HIDE DEF D
        <5> QED BY <2>3, <5>1, <5>2, <5>3
      <4> QED BY <4>1, <4>2
    <3>3. nr_free' = NPages - Cardinality(held')
      <4>1. page \in Nat
        BY <2>1, <2>5, EntryIs DEF Chained
      <4>2. /\ Cardinality(held) \in Nat
            /\ Cardinality(held \cup FreeList!Run(page, n)) = Cardinality(held) + n
        BY <2>1, <2>4, <3>2, <4>1, HeldCount
      <4> QED BY <2>1, <2>3, <2>4, <4>2, EntryIs
    <3> QED BY <1>1, <1>3, <2>1, <2>3, <3>1, <3>2, <3>3 DEF FreeListInv, Shaped, S
  <2> QED BY <2>6, <2>7
<1> QED BY <1>2, <1>3

LEMMA FreeKeeps ==
    ASSUME FreeListInv, NEW base \in FreeList!Page, NEW n \in 1..(NPages - base),
           FreeList!free_pages(base, n)
    PROVE  FreeListInv'
<1> DEFINE S == PageProperty
           run == FreeList!Run(base, n)
           t == [property EXCEPT ![base] = n]
           I == FreeList!Inserted(base)
           b == [links |-> I, property |-> t, flags |-> S \cup {base}]
           c == FreeList!Merged(b, base)
<1>1. Shaped /\ Shaped'
  <2>1. Shaped
    BY DEF FreeListInv, Shaped
  <2> QED BY <2>1, FreeShaped
<1>2. \/ \E why : /\ FreeList!Halts(why)
                  /\ run \cap S # {} \/ FreeList!WalkEnds(links, FreeList!Stops(base)) = {}
      \/ /\ FreeList!WalkEnds(links, FreeList!Stops(base)) # {}
         /\ links' = c.links /\ property' = c.property /\ PageProperty' = c.flags
         /\ held' = held \ run /\ nr_free' = nr_free + n
         /\ damage' = FreeList!Damaged(base) /\ stopped' = stopped
  BY Zenon DEF FreeList!free_pages
<1>3. run \subseteq held
  BY Zenon DEF FreeList!free_pages
<1>4. CASE damage = "torn"
  <2>1. FreeList!Damaged(base) = "torn"
    BY <1>4 DEF FreeList!Damaged, FreeList!Tears
  <2>2. damage' = "torn"
    BY <1>2, <1>4, <2>1, Zenon DEF FreeList!Halts
  <2> QED BY <1>1, <2>2 DEF FreeListInv, Shaped
<1>5. CASE damage # "torn"
  <2>1. /\ stopped = "no" /\ ListGood(links, S, property, held)
        /\ nr_free = NPages - Cardinality(held)
        /\ damage = "none" => AllBack(S, links) /\ Apart(S, links.next, property, {})
        /\ Chained(S, links.next) /\ LeadsBack(S, links) /\ Sized(S, property, held)
        /\ S \in SUBSET FreeList!Page
        /\ links \in Links /\ property \in Sizes /\ held \in SUBSET FreeList!Page
    BY <1>5 DEF FreeListInv, ListGood, Chained
  <2>2. base \in Nat /\ n \in Nat /\ n >= 1 /\ base + n <= NPages
    BY EntryIs
  <2>3. \A u \in S : u \notin held
    <3> SUFFICES ASSUME NEW u \in S PROVE u \notin held
      OBVIOUS
    <3>1. u \in FreeList!Page /\ u \in Nat /\ property[u] \in Nat /\ property[u] >= 1
      BY <2>1, EntryIs DEF Sizes, Sized
    <3>2. u <= u /\ u < u + property[u]
      BY <3>1
    <3> QED BY <2>1, <3>1, <3>2 DEF Sized
  <2>4. FreeList!WalkEnds(links, FreeList!Stops(base)) # {}
    <3>1. NPages \in FreeList!Stops(base)
      BY EntryIs DEF FreeList!Stops
    <3> QED BY <2>1, <3>1, EndsInList
  <2> HIDE DEF run, c
  <2>5. /\ links' = c.links /\ property' = c.property /\ PageProperty' = c.flags
        /\ held' = held \ run /\ nr_free' = nr_free + n
        /\ damage' = FreeList!Damaged(base) /\ stopped' = stopped
    BY <1>2, <1>3, <2>3, <2>4
  <2>6. CASE FreeList!Damaged(base) = "torn"
    BY <1>1, <2>5, <2>6 DEF FreeListInv, Shaped
  <2>7. CASE FreeList!Damaged(base) # "torn"
    <3>1. base \in run
      BY <2>2, RunIs DEF run
    <3>2. base \in FreeList!Page \ S
      BY <1>3, <2>3, <3>1
    <3>3. /\ Chained(S \cup {base}, I.next) /\ LeadsBack(S \cup {base}, I)
          /\ \/ I.next[base] = NPages /\ I.prev[base] = base
                /\ FreeList!Damaged(base) # "none"
             \/ /\ AllBack(S, links) => AllBack(S \cup {base}, I)
                /\ I.prev[base] # base
                /\ I.next[base] \in S => I.prev[I.next[base]] = base
                /\ \A x \in S : x # I.prev[base] => I.next[x] = links.next[x]
      <4> HIDE DEF S
      <4> QED BY <2>1, <2>7, <3>2, InsertedGood
    <3>4. I \in Links
      BY <2>1, <2>4, InsertedIn
    <3>5. t \in Sizes /\ t[base] = n /\ \A x \in S : t[x] = property[x]
      <4>1. t \in [FreeList!Page -> Nat] /\ \A p \in FreeList!Page : p + t[p] <= NPages
        BY <2>1, <2>2 DEF Sizes
      <4>2. t[base] = n /\ \A x \in S : t[x] = property[x]
        BY <2>1, <3>2 DEF Sizes
      <4> QED BY <4>1, <4>2 DEF Sizes
    <3> HIDE DEF I, t
    <3>6. Sized(S \cup {base}, t, held \ run)
      <4> DEFINE len == property
                 out == held
      <4>1. S \in SUBSET FreeList!Page /\ len \in Sizes /\ out \in SUBSET FreeList!Page /\ Sized(S, len, out)
        BY <2>1
      <4>2. FreeList!Run(base, n) \subseteq out
        BY <1>3 DEF run
      <4>3. \A p \in S : t[p] = len[p]
        BY <3>5
      <4> HIDE DEF S, len, out
      <4>4. Sized(S \cup {base}, t, out \ FreeList!Run(base, n))
        BY <2>2, <3>5, <4>1, <4>2, <4>3, BlockComes
      <4> QED BY <4>4 DEF run, out
    <3>7. b.links = I /\ b.property = t /\ b.flags = S \cup {base}
      OBVIOUS
    <3> HIDE DEF b
    <3>8. GoodList(b, held \ run) /\ held \ run \in SUBSET FreeList!Page /\ base \in b.flags
      BY <2>1, <3>3, <3>4, <3>5, <3>6, <3>7 DEF GoodList, ListGood
    <3>9. /\ b.links.prev[base] = base => b.links.next[base] = NPages
          /\ b.links.prev[base] # base /\ b.links.next[base] \in b.flags
               => b.links.prev[b.links.next[base]] = base
      <4>1. I.next[base] # base
        <5>1. base < I.next[base]
          BY <3>3 DEF Chained
        <5> QED BY <2>2, <5>1
      <4> QED BY <3>3, <3>7, <4>1
    <3>10. /\ GoodList(c, held \ run)
           /\ AllBack(b.flags, b.links) => AllBack(c.flags, c.links)
           /\ /\ Apart(b.flags, b.links.next, b.property, {b.links.prev[base], base})
              /\ b.links.prev[base] # base
              => Apart(c.flags, c.links.next, c.property, {})
      BY <3>8, <3>9, MergedGood DEF c
    <3>11. ASSUME FreeList!Damaged(base) = "none"
           PROVE  AllBack(c.flags, c.links) /\ Apart(c.flags, c.links.next, c.property, {})
      <4>1. damage = "none"
        BY <1>5, <3>11 DEF FreeList!Damaged, FreeList!Tears
      <4>2. /\ AllBack(S, links) => AllBack(S \cup {base}, I)
            /\ I.prev[base] # base
            /\ \A x \in S : x # I.prev[base] => I.next[x] = links.next[x]
        BY <3>3, <3>11
      <4>3. AllBack(b.flags, b.links)
        BY <2>1, <3>7, <4>1, <4>2
      <4>4. Apart(b.flags, b.links.next, b.property, {b.links.prev[base], base})
        <5>1. \A x \in S : links.next[x] = NPages \/ links.next[x] # x + property[x]
          BY <2>1, <4>1 DEF Apart
        <5>2. \A x \in (S \cup {base}) \ {I.prev[base], base} : I.next[x] = NPages \/ I.next[x] # x + t[x]
          BY <3>5, <4>2, <5>1
        <5> QED BY <3>7, <5>2 DEF Apart
      <4> QED BY <3>7, <3>10, <4>2, <4>3, <4>4
    <3>12. nr_free' = NPages - Cardinality(held')
      <4>1. run \in SUBSET FreeList!Page
        BY <1>3, <2>1
      <4>2. Cardinality(held) \in Nat /\ Cardinality(held \ run) = Cardinality(held) - n
        BY <1>3, <2>1, <2>2, <4>1, HeldCount DEF run
      <4> QED BY <2>1, <2>2, <2>5, <4>2, EntryIs
    <3> QED BY <1>1, <2>1, <2>5, <3>10, <3>11, <3>12 DEF FreeListInv, Shaped, GoodList
  <2> QED BY <2>6, <2>7
<1> QED BY <1>4, <1>5

LEMMA ListSound == FreeListInv => FreeList!FreeListExact
<1> SUFFICES ASSUME FreeListInv PROVE FreeList!FreeListExact
  OBVIOUS
<1> DEFINE S == PageProperty
<1>1. FreeList!Typed
  <2>1. links \in [next : [FreeList!Entry -> FreeList!Entry], prev : [FreeList!Entry -> FreeList!Entry]]
    BY DEF FreeListInv, Links
  <2>2. property \in [FreeList!Page -> Nat] /\ \A p \in FreeList!Page : p \in Nat /\ p + property[p] <= NPages
    BY EntryIs DEF FreeListInv, Sizes
  <2>3. \A p \in FreeList!Page : property[p] \in 0..NPages
    <3> SUFFICES ASSUME NEW p \in FreeList!Page PROVE property[p] \in 0..NPages
      OBVIOUS
    <3>1. property[p] \in Nat /\ p \in Nat /\ p + property[p] <= NPages
      BY <2>2
    <3> QED BY <3>1, EntryIs
  <2> QED BY <2>1, <2>2, <2>3 DEF FreeList!Typed
<1>2. ASSUME damage # "torn"
      PROVE  /\ stopped = "no" /\ ListGood(links, S, property, held)
             /\ nr_free = NPages - Cardinality(held)
             /\ Chained(S, links.next) /\ LeadsBack(S, links) /\ Sized(S, property, held)
             /\ S \in SUBSET FreeList!Page /\ FreeList!Linked(links) = S
  <2>1. /\ stopped = "no" /\ ListGood(links, S, property, held)
        /\ nr_free = NPages - Cardinality(held) /\ links \in Links
        /\ Chained(S, links.next) /\ LeadsBack(S, links) /\ Sized(S, property, held)
        /\ S \in SUBSET FreeList!Page
    BY <1>2 DEF FreeListInv, ListGood, Chained
  <2> QED BY <2>1, LinkedIs
<1>3. ASSUME damage # "torn" PROVE FreeList!BlocksExact
  <2>1. UNION {FreeList!Block(e) : e \in S} = FreeList!Page \ held
    <3>1. \A e \in S : e \in Nat /\ property[e] \in Nat /\ e + property[e] <= NPages
      BY <1>2, <1>3, EntryIs DEF FreeListInv, Sizes
    <3>2. \A e \in S : \A u : u \in FreeList!Block(e) <=> u \in Nat /\ e <= u /\ u < e + property[e]
      BY <3>1, RunIs DEF FreeList!Block
    <3>3. \A u \in FreeList!Page : u \notin held <=> \E e \in S : e <= u /\ u < e + property[e]
      BY <1>2, <1>3 DEF Sized
    <3>4. ASSUME NEW e \in S, NEW u \in FreeList!Block(e) PROVE u \in FreeList!Page
      <4>1. u \in Nat /\ u < e + property[e] /\ e \in Nat /\ property[e] \in Nat /\ e + property[e] <= NPages
        BY <3>1, <3>2
      <4> QED BY <4>1, EntryIs
    <3>5. \A u \in FreeList!Page : u \in Nat
      BY EntryIs
    <3> QED BY <3>2, <3>3, <3>4, <3>5
  <2>2. Cardinality(held) = FreeList!Cardinality(held)
    BY DEF FreeList!Cardinality, Cardinality
  <2> QED BY <1>2, <1>3, <2>1, <2>2, EntryIs DEF FreeList!BlocksExact, Chained, Sized
<1>4. ASSUME damage = "none" PROVE FreeList!Coalesced
  <2>1. AllBack(S, links) /\ Apart(S, links.next, property, {}) /\ Chained(S, links.next)
        /\ FreeList!Linked(links) = S /\ S \in SUBSET FreeList!Page
    BY <1>2, <1>4 DEF FreeListInv
  <2> QED BY <2>1, EntryIs DEF FreeList!Coalesced, AllBack, Apart, Chained
<1> QED BY <1>1, <1>2, <1>3, <1>4 DEF FreeList!FreeListExact

\* FreeListExact for any number of pages, first fit and best fit: the free list is
\* in order, its blocks are disjoint and are the pages nobody holds, and neighbours
\* have been merged, until a block is put behind the last one; even then the blocks
\* stay exact until the link of that block to itself is used.
THEOREM FreeListSound == ResourcesSpec => []FreeListExact
<1>1. ResourcesInit => FreeListInv
  BY ListStarts DEF ResourcesInit
<1>2. FreeListInv /\ [ResourcesNext]_managers => FreeListInv'
  <2> SUFFICES ASSUME FreeListInv, [ResourcesNext]_managers PROVE FreeListInv'
    OBVIOUS
  <2>1. FreeList!FFNext \/ UNCHANGED lvars
    BY DEF ResourcesNext, managers
  <2>2. CASE FreeList!FFNext
    BY <2>2, AllocKeeps, FreeKeeps DEF FreeList!FFNext
  <2>3. CASE UNCHANGED lvars
    BY <2>3 DEF lvars, FreeListInv, ListGood, LeadsBack, AllBack
  <2> QED BY <2>1, <2>2, <2>3
<1>3. FreeListInv => FreeListExact
  BY ListSound DEF FreeListExact
<1> QED BY <1>1, <1>2, <1>3, PTL DEF ResourcesSpec

------------------------------------------------------------------------------
(* kmalloc *)

\* next leads from each member of S to the one above it, and from the last to 0.
Ring(S, next) ==
    /\ S \in SUBSET Nat /\ IsFiniteSet(S) /\ 0 \in S
    /\ \A c \in S : /\ next[c] \in S
                    /\ \/ c < next[c] /\ \A d \in S : d <= c \/ next[c] <= d
                       \/ next[c] = 0 /\ \A d \in S : d <= c

\* No block reaches to the next one.
Gaps(S, units) ==
    \A c \in S : units[c] \in Nat \ {0} /\ \A d \in S : c < d => c + units[c] < d

\* The n units at b are in no block.
ClearOf(S, units, b, n) == \A c \in S : c + units[c] <= b \/ b + n <= c

Covers(S, units, u) == \E c \in S : c <= u /\ u < c + units[c]

Bounded(s) == \E n \in Nat : \A c \in s : c <= n

LEMMA HighestBlock ==
    ASSUME NEW C, C \in SUBSET Nat, IsFiniteSet(C), C # {}
    PROVE  \E top \in C : \A c \in C : c <= top
<1>1. PICK n \in Nat : \A c \in C : c <= n
  <2> DEFINE T == {k \in Nat : \A s \in SUBSET C : Cardinality(s) = k => Bounded(s)}
  <2>1. \A s \in SUBSET C : IsFiniteSet(s) /\ Cardinality(s) \in Nat
    BY FS_Subset, FS_CardinalityType, Zenon
  <2>2. 0 \in T
    <3>1. \A s \in SUBSET C : Cardinality(s) = 0 => s = {}
      BY <2>1, FS_EmptySet
    <3>2. Bounded({})
      BY DEF Bounded
    <3> QED BY <3>1, <3>2, Zenon
  <2>3. ASSUME NEW k \in Nat, k \in T PROVE k + 1 \in T
    <3> SUFFICES \A s \in SUBSET C : Cardinality(s) = k + 1 => Bounded(s)
      OBVIOUS
    <3> TAKE s \in SUBSET C
    <3> HAVE Cardinality(s) = k + 1
    <3>1. PICK x \in s : TRUE
      <4>1. s # {}
        BY <2>1, FS_EmptySet
      <4> QED BY <4>1, Zenon
    <3>2. Cardinality(s \ {x}) = k
      <4>1. IsFiniteSet(s) /\ x \in s
        BY <2>1, <3>1
      <4>2. Cardinality(s \ {x}) = Cardinality(s) - 1
        BY <4>1, FS_RemoveElement, Zenon
      <4> QED BY <4>2
    <3>3. PICK n \in Nat : \A c \in s \ {x} : c <= n
      BY <2>3, <3>2, Zenon DEF Bounded
    <3>4. x \in Nat
      BY <3>1
    <3>5. CASE x <= n
      BY <3>3, <3>5, Zenon DEF Bounded
    <3>6. CASE n < x
      <4>1. \A c \in s : c <= x
        BY <3>3, <3>4, <3>6
      <4> QED BY <3>4, <4>1 DEF Bounded
    <3> QED BY <3>3, <3>4, <3>5, <3>6
  <2> HIDE DEF T
  <2>4. Nat \subseteq T
    BY <2>2, <2>3, SetInduction
  <2>5. Cardinality(C) \in T
    BY <2>1, <2>4
  <2> QED BY <2>5 DEF T, Bounded
<1> DEFINE U == {n - c : c \in C}
<1>2. U \subseteq Nat /\ U # {}
  <2>1. \A c \in C : n - c \in Nat
    BY <1>1
  <2> QED BY <2>1, Zenon
<1>3. PICK least \in U : \A u \in U : least <= u
  <2> HIDE DEF U
  <2> QED BY <1>2, LeastNatural, Zenon
<1>4. PICK top \in C : least = n - top
  OBVIOUS
<1>5. \A c \in C : n - top <= n - c
  BY <1>3, <1>4
<1>6. \A c \in C : c \in Nat
  OBVIOUS
<1> HIDE DEF U
<1> QED BY <1>4, <1>5, <1>6

\* A walk along the ring comes everywhere.
LEMMA RingClosed ==
    ASSUME NEW S, NEW next, Ring(S, next), NEW C \in SUBSET S, C # {},
           \A c \in C : next[c] \in C
    PROVE  C = S
<1>1. S \in SUBSET Nat /\ IsFiniteSet(S)
  BY DEF Ring
<1>2. 0 \in C
  <2>1. IsFiniteSet(C)
    BY <1>1, FS_Subset, Zenon
  <2>2. PICK top \in C : \A c \in C : c <= top
    BY <1>1, <2>1, HighestBlock, Zenon
  <2>3. top \in S /\ top \in Nat /\ next[top] \in C /\ next[top] \in Nat
    BY <1>1, <2>2, Zenon
  <2>4. next[top] <= top
    BY <2>2, <2>3
  <2>5. next[top] = 0
    BY <2>3, <2>4 DEF Ring
  <2> QED BY <2>3, <2>5
<1> SUFFICES ASSUME S \ C # {} PROVE FALSE
  OBVIOUS
<1>3. PICK x \in S \ C : \A y \in S \ C : x <= y
  BY <1>1, LeastNatural, Zenon
<1> DEFINE B == {c \in S : c < x}
<1>4. 0 \in B
  BY <1>1, <1>2, <1>3 DEF Ring
<1>5. PICK p \in B : \A c \in B : c <= p
  <2>1. IsFiniteSet(B) /\ B \in SUBSET Nat
    BY <1>1, FS_Subset, Zenon
  <2> HIDE DEF B
  <2> QED BY <1>4, <2>1, HighestBlock, Zenon
<1>6. next[p] = x
  <2>1. p \in S /\ x \in S /\ p \in Nat /\ x \in Nat /\ p < x
    BY <1>1, <1>3, <1>5
  <2>2. p < next[p] /\ next[p] <= x /\ next[p] \in S /\ next[p] \in Nat
    <3>1. next[p] \in S /\ next[p] \in Nat
      BY <1>1, <2>1, Zenon DEF Ring
    <3>2. ~ (x <= p)
      BY <2>1
    <3>3. p < next[p] /\ (x <= p \/ next[p] <= x)
      BY <2>1, <3>2 DEF Ring
    <3> QED BY <3>1, <3>2, <3>3
  <2>3. ~ (next[p] < x)
    <3>1. next[p] < x => next[p] \in B
      BY <2>2
    <3>2. next[p] \in B => next[p] <= p
      BY <1>5
    <3> HIDE DEF B
    <3> QED BY <2>1, <2>2, <3>1, <3>2
  <2> QED BY <2>1, <2>2, <2>3
<1>7. p \in C
  BY <1>1, <1>3, <1>5
<1> QED BY <1>3, <1>6, <1>7

WalkOf(S, next, from, f) ==
    /\ f \in [0..Cardinality(S) -> S] /\ f[0] = from
    /\ \A i \in 1..Cardinality(S) : f[i] = next[f[i - 1]]

LEMMA WalkCovers ==
    ASSUME NEW S, NEW next, Ring(S, next), NEW from \in S, NEW f, WalkOf(S, next, from, f)
    PROVE  /\ Cardinality(S) \in Nat \ {0}
           /\ {f[i] : i \in 0..(Cardinality(S) - 1)} = S
           /\ {f[i] : i \in 1..Cardinality(S)} = S
           /\ f[Cardinality(S)] = from
<1> DEFINE n == Cardinality(S)
<1>1. IsFiniteSet(S) /\ n \in Nat /\ n # 0
  <2>1. IsFiniteSet(S) /\ S # {}
    BY DEF Ring
  <2> QED BY <2>1, FS_CardinalityType, FS_EmptySet
<1>2. f \in [0..n -> S] /\ f[0] = from /\ \A i \in 1..n : f[i] = next[f[i - 1]]
  BY DEF WalkOf
<1> HIDE DEF n
<1>3. PICK i \in 0..n, j \in 0..n : i # j /\ f[i] = f[j]
  <2>1. IsFiniteSet(0..n) /\ Cardinality(0..n) = n + 1
    BY <1>1, FS_Interval
  <2>2. Cardinality(S) < Cardinality(0..n)
    BY <1>1, <2>1 DEF n
  <2>3. \E x, y \in 0..n : x # y /\ f[x] = f[y]
    <3> DEFINE I == 0..n
    <3>1. IsFiniteSet(I) /\ Cardinality(S) < Cardinality(I) /\ f \in [I -> S]
      BY <1>2, <2>1, <2>2
    <3> HIDE DEF I
    <3>2. \E x, y \in I : x # y /\ f[x] = f[y]
      BY <1>1, <3>1, FS_PigeonHole
    <3> QED BY <3>2 DEF I
  <2> QED BY <2>3
<1>4. \E k, m \in 0..n : k < m /\ f[k] = f[m]
  BY <1>1, <1>3
<1>5. PICK k \in 0..n, m \in 0..n : k < m /\ f[k] = f[m]
  BY <1>4
<1>6. {f[t] : t \in (k + 1)..m} = S
  <2> DEFINE C == {f[t] : t \in (k + 1)..m}
  <2>1. C \in SUBSET S /\ f[m] \in C
    BY <1>1, <1>2, <1>5
  <2>2. ASSUME NEW t \in (k + 1)..m PROVE next[f[t]] \in C
    <3>1. CASE t = m
      <4>1. next[f[m]] = next[f[k]]
        BY <1>5
      <4>2. k + 1 \in 1..n /\ k + 1 \in (k + 1)..m /\ (k + 1) - 1 = k
        BY <1>1, <1>5
      <4>3. f[k + 1] = next[f[k]]
        BY <1>2, <4>2
      <4> QED BY <3>1, <4>1, <4>2, <4>3
    <3>2. CASE t # m
      <4>1. t + 1 \in 1..n /\ t + 1 \in (k + 1)..m /\ (t + 1) - 1 = t
        BY <1>1, <1>5, <3>2
      <4>2. f[t + 1] = next[f[t]]
        BY <1>2, <4>1
      <4> QED BY <4>1, <4>2
    <3> QED BY <3>1, <3>2
  <2>3. \A c \in C : next[c] \in C
    BY <2>2
  <2> HIDE DEF C
  <2>4. C # {}
    BY <2>1
  <2>5. C = S
    BY <2>1, <2>3, <2>4, RingClosed
  <2> QED BY <2>5 DEF C
<1>7. k = 0 /\ m = n
  <2> DEFINE I == (k + 1)..m
             g == [t \in I |-> f[t]]
  <2>1. IsFiniteSet(I) /\ Cardinality(I) = m - k
    BY <1>1, <1>5, FS_Interval
  <2>2. g \in Surjection(I, S)
    <3>1. g \in [I -> S]
      BY <1>1, <1>2, <1>5
    <3>2. \A s \in S : \E t \in I : g[t] = s
      BY <1>6
    <3> HIDE DEF g, I
    <3> QED BY <3>1, <3>2 DEF Surjection
  <2>3. Cardinality(S) <= Cardinality(I)
    <3> HIDE DEF g, I
    <3> QED BY <2>1, <2>2, FS_Surjection
  <2> QED BY <1>1, <1>5, <2>1, <2>3 DEF n
<1>8. {f[t] : t \in 1..n} = S /\ f[n] = f[0]
  BY <1>5, <1>6, <1>7
<1>9. {f[t] : t \in 0..(n - 1)} = S
  <2>1. \A s \in S : \E t \in 0..(n - 1) : f[t] = s
    <3> SUFFICES ASSUME NEW s \in S PROVE \E t \in 0..(n - 1) : f[t] = s
      OBVIOUS
    <3>1. PICK t \in 1..n : f[t] = s
      BY <1>8
    <3>2. CASE t = n
      <4>1. 0 \in 0..(n - 1) /\ f[0] = s
        BY <1>1, <1>8, <3>1, <3>2
      <4> QED BY <4>1
    <3>3. CASE t # n
      <4>1. t \in 0..(n - 1)
        BY <1>1, <3>3
      <4> QED BY <3>1, <4>1
    <3> QED BY <3>2, <3>3
  <2>2. \A t \in 0..(n - 1) : f[t] \in S
    BY <1>1, <1>2
  <2> QED BY <2>1, <2>2
<1> QED BY <1>1, <1>2, <1>8, <1>9, Zenon DEF n

LEMMA RingSame ==
    ASSUME NEW S, NEW next, Ring(S, next), NEW other, \A c \in S : other[c] = next[c]
    PROVE  Ring(S, other)
BY Zenon DEF Ring

\* d, which follows c, is taken out of a ring; b is put in behind c.
Unlinked(next, c, d) == [x \in DOMAIN next \ {d} |-> IF x = c THEN next[d] ELSE next[x]]
LinkedIn(next, c, b) ==
    [x \in DOMAIN next \cup {b} |-> IF x = b THEN next[c] ELSE IF x = c THEN b ELSE next[x]]

LEMMA OutOfRing ==
    ASSUME NEW next, Ring(DOMAIN next, next), NEW c \in DOMAIN next, NEW d,
           d = next[c], d # 0
    PROVE  Ring(DOMAIN next \ {d}, Unlinked(next, c, d))
<1> DEFINE S == DOMAIN next
           T == S \ {d}
           f == Unlinked(next, c, d)
<1> HIDE DEF S
<1>1. /\ S \in SUBSET Nat /\ IsFiniteSet(S) /\ 0 \in S
      /\ \A x \in S : next[x] \in S
  BY DEF S, Ring
<1>2. d \in S /\ c < d /\ \A x \in S : x <= c \/ d <= x
  BY DEF S, Ring
<1>3. T \in SUBSET Nat /\ IsFiniteSet(T) /\ 0 \in T
  BY <1>1, FS_Subset, Zenon
<1>4. \A x \in T : f[x] = IF x = c THEN next[d] ELSE next[x]
  BY DEF Unlinked, S
<1> HIDE DEF f
<1>5. ASSUME NEW x \in T
      PROVE  /\ f[x] \in T
             /\ \/ x < f[x] /\ \A y \in T : y <= x \/ f[x] <= y
                \/ f[x] = 0 /\ \A y \in T : y <= x
  <2>1. x \in S /\ x # d /\ x \in Nat /\ d \in Nat /\ c \in Nat
    BY <1>1, <1>2 DEF S
  <2>2. CASE x = c
    <3>1. f[x] = next[d] /\ next[d] \in S /\ next[d] \in Nat
      BY <1>1, <1>2, <1>4, <2>2, Zenon
    <3>2. \/ d < next[d] /\ \A y \in S : y <= d \/ next[d] <= y
          \/ next[d] = 0 /\ \A y \in S : y <= d
      BY <1>2 DEF Ring, S
    <3>3. next[d] # d
      BY <2>1, <3>1, <3>2
    <3>4. \A y \in T : y <= d => y <= c
      BY <1>1, <1>2, <2>1
    <3>5. \A y \in T : y \in S
      OBVIOUS
    <3>6. CASE d < next[d] /\ \A y \in S : y <= d \/ next[d] <= y
      BY <1>2, <2>1, <2>2, <3>1, <3>3, <3>4, <3>5, <3>6
    <3>7. CASE next[d] = 0 /\ \A y \in S : y <= d
      BY <1>2, <2>1, <2>2, <3>1, <3>3, <3>4, <3>5, <3>7
    <3> QED BY <3>2, <3>6, <3>7
  <2>3. CASE x # c
    <3>1. f[x] = next[x] /\ next[x] \in S /\ next[x] \in Nat
      BY <1>1, <1>4, <2>1, <2>3, Zenon
    <3>2. \/ x < next[x] /\ \A y \in S : y <= x \/ next[x] <= y
          \/ next[x] = 0 /\ \A y \in S : y <= x
      BY <2>1 DEF Ring, S
    <3>3. next[x] # d
      <4> SUFFICES ASSUME next[x] = d PROVE FALSE
        OBVIOUS
      <4>1. x < d /\ \A y \in S : y <= x \/ d <= y
        BY <3>2
      <4>2. c <= x /\ x <= c
        BY <1>2, <2>1, <4>1 DEF S
      <4> QED BY <2>1, <2>3, <4>2
    <3> QED BY <3>1, <3>2, <3>3
  <2> QED BY <2>2, <2>3
<1> HIDE DEF T
<1>6. Ring(T, f)
  BY <1>3, <1>5 DEF Ring
<1> QED BY <1>6 DEF T, S, f

LEMMA IntoRing ==
    ASSUME NEW next, Ring(DOMAIN next, next), NEW c \in DOMAIN next, NEW b \in Nat,
           b \notin DOMAIN next, c < b, b < next[c] \/ next[c] = 0
    PROVE  Ring(DOMAIN next \cup {b}, LinkedIn(next, c, b))
<1> DEFINE S == DOMAIN next
           T == S \cup {b}
           f == LinkedIn(next, c, b)
<1> HIDE DEF S
<1>1. /\ S \in SUBSET Nat /\ IsFiniteSet(S) /\ 0 \in S
      /\ \A x \in S : next[x] \in S
  BY DEF S, Ring
<1>2. c \in S /\ c \in Nat /\ b \notin S /\ next[c] \in Nat
  BY <1>1 DEF S
<1>3. \/ next[c] = 0 /\ \A x \in S : x <= c
      \/ b < next[c] /\ \A x \in S : x <= c \/ next[c] <= x
  BY <1>2 DEF S, Ring
<1>4. T \in SUBSET Nat /\ IsFiniteSet(T) /\ 0 \in T
  BY <1>1, FS_AddElement
<1>5. \A x \in T : f[x] = IF x = b THEN next[c] ELSE IF x = c THEN b ELSE next[x]
  BY DEF LinkedIn, S
<1> HIDE DEF f
<1>6. \A y \in T : y = b \/ y \in S
  OBVIOUS
<1>7. ASSUME NEW x \in T
      PROVE  /\ f[x] \in T
             /\ \/ x < f[x] /\ \A y \in T : y <= x \/ f[x] <= y
                \/ f[x] = 0 /\ \A y \in T : y <= x
  <2>1. CASE x = b
    <3>1. f[x] = next[c] /\ next[c] \in T
      BY <1>1, <1>2, <1>5, <2>1
    <3>2. CASE next[c] = 0 /\ \A y \in S : y <= c
      <4>1. \A y \in T : y <= b
        BY <1>1, <1>2, <1>6, <3>2
      <4> QED BY <2>1, <3>1, <3>2, <4>1
    <3>3. CASE b < next[c] /\ \A y \in S : y <= c \/ next[c] <= y
      <4>1. \A y \in T : y <= b \/ next[c] <= y
        BY <1>1, <1>2, <1>6, <3>3
      <4> QED BY <2>1, <3>1, <3>3, <4>1
    <3> QED BY <1>3, <3>2, <3>3
  <2>2. CASE x = c
    <3>1. f[x] = b /\ b \in T
      BY <1>2, <1>5, <2>2
    <3>2. \A y \in T : y <= c \/ b <= y
      BY <1>1, <1>2, <1>3, <1>6
    <3> QED BY <2>2, <3>1, <3>2
  <2>3. CASE x # b /\ x # c
    <3>1. x \in S /\ x \in Nat /\ f[x] = next[x] /\ next[x] \in S /\ next[x] \in Nat
      BY <1>1, <1>5, <1>6, <2>3, Zenon
    <3>2. \/ x < next[x] /\ \A y \in S : y <= x \/ next[x] <= y
          \/ next[x] = 0 /\ \A y \in S : y <= x
      BY <3>1 DEF Ring, S
    <3>3. x < c \/ c < x
      BY <1>2, <2>3, <3>1
    <3>4. c <= x \/ next[x] <= c \/ next[x] = 0
      BY <1>2, <3>2
    <3>5. CASE x < next[x] /\ \A y \in S : y <= x \/ next[x] <= y
      <4>1. c <= x \/ next[x] <= c
        BY <1>2, <3>5
      <4>2. b <= x \/ next[x] <= b
        BY <1>2, <1>3, <3>1, <3>3, <4>1
      <4>3. \A y \in T : y <= x \/ next[x] <= y
        BY <1>6, <3>5, <4>2
      <4> QED BY <3>1, <3>5, <4>3
    <3>6. CASE next[x] = 0 /\ \A y \in S : y <= x
      <4>1. c <= x
        BY <1>2, <3>6
      <4>2. b <= x
        BY <1>2, <1>3, <3>1, <3>3, <4>1
      <4>3. \A y \in T : y <= x
        BY <1>6, <3>6, <4>2
      <4> QED BY <3>1, <3>6, <4>3
    <3> QED BY <3>2, <3>5, <3>6
  <2> QED BY <2>1, <2>2, <2>3
<1> HIDE DEF T
<1>8. Ring(T, f)
  BY <1>4, <1>7 DEF Ring
<1> QED BY <1>8 DEF T, S, f

Placed(K, units, s, len) == [x \in K \cup {s} |-> IF x = s THEN len ELSE units[x]]

\* A block of len units at s, away from those of K.
LEMMA BlockPlaced ==
    ASSUME NEW K \in SUBSET Nat, NEW units, Gaps(K, units), NEW s \in Nat, NEW len \in Nat \ {0},
           s \notin K, \A c \in K : c + units[c] < s \/ s + len < c
    PROVE  /\ Gaps(K \cup {s}, Placed(K, units, s, len))
           /\ \A u \in Nat : Covers(K \cup {s}, Placed(K, units, s, len), u)
                             <=> Covers(K, units, u) \/ (s <= u /\ u < s + len)
<1> DEFINE T == K \cup {s}
           f == Placed(K, units, s, len)
<1>1. f[s] = len /\ \A c \in K : f[c] = units[c] /\ c # s
  BY DEF Placed
<1>2. \A c \in K : c \in Nat /\ units[c] \in Nat \ {0} /\ \A d \in K : c < d => c + units[c] < d
  BY DEF Gaps
<1> HIDE DEF f
<1>3. Gaps(T, f)
  <2> SUFFICES ASSUME NEW c \in T
               PROVE  f[c] \in Nat \ {0} /\ \A d \in T : c < d => c + f[c] < d
    BY DEF Gaps
  <2>1. CASE c = s
    <3>1. \A d \in K : s < d => s + len < d
      BY <1>2
    <3> QED BY <1>1, <2>1, <3>1
  <2>2. CASE c \in K
    <3>1. f[c] = units[c] /\ units[c] \in Nat \ {0} /\ c \in Nat
      BY <1>1, <1>2, <2>2
    <3>2. c < s => c + units[c] < s
      BY <2>2, <3>1
    <3>3. \A d \in K : c < d => c + units[c] < d
      BY <1>2, <2>2
    <3> QED BY <3>1, <3>2, <3>3
  <2> QED BY <2>1, <2>2
<1>4. \A u \in Nat : Covers(T, f, u) <=> Covers(K, units, u) \/ (s <= u /\ u < s + len)
  <2> TAKE u \in Nat
  <2>1. Covers(T, f, u) <=> (s <= u /\ u < s + f[s]) \/ \E c \in K : c <= u /\ u < c + f[c]
    BY DEF Covers
  <2>2. (\E c \in K : c <= u /\ u < c + f[c]) <=> \E c \in K : c <= u /\ u < c + units[c]
    BY <1>1
  <2> QED BY <1>1, <2>1, <2>2 DEF Covers
<1> QED BY <1>3, <1>4 DEF f

LEMMA GapsOfFewer ==
    ASSUME NEW S, NEW K \in SUBSET S, NEW units, Gaps(S, units)
    PROVE  Gaps(K, units)
BY DEF Gaps

LEMMA GapsSame ==
    ASSUME NEW S, NEW units, NEW other, \A c \in S : other[c] = units[c], Gaps(S, units)
    PROVE  Gaps(S, other) /\ \A u : Covers(S, other, u) <=> Covers(S, units, u)
<1>1. Gaps(S, other)
  BY DEF Gaps
<1>2. \A u : Covers(S, other, u) <=> Covers(S, units, u)
  BY DEF Covers
<1> QED BY <1>1, <1>2

HeapGood(h) ==
    /\ Ring(DOMAIN h.next, h.next)
    /\ DOMAIN h.units = DOMAIN h.next /\ Gaps(DOMAIN h.next, h.units)
    /\ h.units[0] = 1 /\ h.slobfree \in DOMAIN h.next

FreeAt(h, u) == Covers(DOMAIN h.next, h.units, u)
Before(next, cur, b) == cur \in DOMAIN next /\ cur < b /\ (b < next[cur] \/ next[cur] = 0)

LEMMA WalkIs ==
    ASSUME NEW h, HeapGood(h)
    PROVE  /\ Slob!Length(h) = Cardinality(DOMAIN h.next)
           /\ WalkOf(DOMAIN h.next, h.next, h.slobfree, Slob!Walk(h))
<1> DEFINE S == DOMAIN h.next
           n == Cardinality(S)
           Is(f) == f = [i \in 0..n |-> IF i = 0 THEN h.slobfree ELSE h.next[f[i - 1]]]
<1>1. Slob!Length(h) = n
  BY DEF Slob!Length, Slob!Cardinality, Cardinality
<1>2. n \in Nat /\ h.slobfree \in S /\ \A c \in S : h.next[c] \in S
  <2>1. IsFiniteSet(S)
    BY DEF HeapGood, Ring
  <2> QED BY <2>1, FS_CardinalityType DEF HeapGood, Ring
<1>3. \E f : Is(f)
  <2> DEFINE go == [i \in 1..n |-> [c \in S |-> h.next[c]]]
             x == h.slobfree
  <2>1. go \in [1..n -> [S -> S]] /\ x \in S
    BY <1>2
  <2>2. \E f : Repeats(f, S, x, go, n)
    <3> HIDE DEF go, S, n, x
    <3> QED BY <1>2, <2>1, Repeated
  <2>3. PICK f : Repeats(f, S, x, go, n)
    BY <2>2, Zenon
  <2>4. f = [i \in 0..n |-> f[i]]
    <3> HIDE DEF go, S, n, x
    <3> QED BY <2>3 DEF Repeats
  <2>5. \A i \in 0..n : f[i] = IF i = 0 THEN h.slobfree ELSE h.next[f[i - 1]]
    <3> SUFFICES ASSUME NEW i \in 0..n
                 PROVE  f[i] = IF i = 0 THEN h.slobfree ELSE h.next[f[i - 1]]
      OBVIOUS
    <3>1. f[i] = IF i = 0 THEN x ELSE go[i][f[i - 1]]
      BY <2>3, Zenon DEF Repeats
    <3>2. i # 0 => i \in 1..n /\ f[i - 1] \in S
      <4> HIDE DEF S, n
      <4> QED BY <1>2, <2>3 DEF Repeats
    <3>3. i # 0 => go[i][f[i - 1]] = h.next[f[i - 1]]
      BY <3>2
    <3> QED BY <3>1, <3>3
  <2> HIDE DEF S, n
  <2>6. Is(f)
    BY <2>4, <2>5
  <2> QED BY <2>6, Zenon
<1> DEFINE w == CHOOSE f : Is(f)
<1>4. Is(w)
  <2> HIDE DEF Is
  <2> QED BY <1>3
<1>5. Slob!Walk(h) = w
  BY <1>1, Zenon DEF Slob!Walk
<1> HIDE DEF w
<1>6. w[0] = h.slobfree /\ \A i \in 1..n : w[i] = h.next[w[i - 1]]
  <2> HIDE DEF S, n
  <2> QED BY <1>2, <1>4
<1>7. \A i \in 0..n : w[i] \in S
  <2> DEFINE T == {i \in Nat : i <= n => w[i] \in S}
  <2> HIDE DEF S, n
  <2>1. 0 \in T
    BY <1>2, <1>6
  <2>2. ASSUME NEW i \in Nat, i \in T PROVE i + 1 \in T
    <3>1. i + 1 <= n => w[i] \in S /\ i + 1 \in 1..n /\ (i + 1) - 1 = i
      BY <1>2, <2>2
    <3>2. i + 1 <= n => w[i + 1] = h.next[w[i]]
      BY <1>6, <3>1
    <3> QED BY <1>2, <3>1, <3>2
  <2> HIDE DEF T
  <2>3. Nat \subseteq T
    BY <2>1, <2>2, SetInduction
  <2> QED BY <2>3 DEF T
<1>8. w \in [0..n -> S]
  <2> HIDE DEF S, n
  <2> QED BY <1>4, <1>7
<1> QED BY <1>1, <1>5, <1>6, <1>8 DEF WalkOf

LEMMA LeastPlace ==
    ASSUME NEW I \in SUBSET Nat, I # {}
    PROVE  Slob!Min(I) \in I /\ \A i \in I : Slob!Min(I) <= i
<1>1. \E least \in I : \A i \in I : least <= i
  BY LeastNatural, Zenon
<1> QED BY <1>1, Zenon DEF Slob!Min

\* Where slob_free's search may stop.
StopsAt(h, c, b) ==
    \/ b > c /\ b < h.next[c]
    \/ c >= h.next[c] /\ (b > c \/ b < h.next[c])
Stop(h, b) == Slob!Walk(h)[Slob!Min({i \in 0..Slob!Length(h) : StopsAt(h, Slob!Walk(h)[i], b)})]

LEMMA SearchStops ==
    ASSUME NEW h, HeapGood(h), NEW b \in Nat, b \notin DOMAIN h.next
    PROVE  Before(h.next, Stop(h, b), b)
<1> DEFINE S == DOMAIN h.next
           n == Slob!Length(h)
           w == Slob!Walk(h)
           I == {i \in 0..n : StopsAt(h, w[i], b)}
<1>1. /\ S \in SUBSET Nat /\ IsFiniteSet(S) /\ 0 \in S /\ b \notin S
      /\ \A c \in S : /\ h.next[c] \in S
                      /\ \/ c < h.next[c] /\ \A d \in S : d <= c \/ h.next[c] <= d
                         \/ h.next[c] = 0 /\ \A d \in S : d <= c
  BY DEF HeapGood, Ring
<1>2. n = Cardinality(S) /\ WalkOf(S, h.next, h.slobfree, w)
  BY WalkIs
<1> HIDE DEF n, w, S
<1>3. n \in Nat \ {0} /\ {w[i] : i \in 0..(n - 1)} = S /\ w \in [0..n -> S]
  <2>1. Ring(S, h.next) /\ h.slobfree \in S
    BY DEF HeapGood, S
  <2>2. /\ Cardinality(S) \in Nat \ {0}
        /\ {w[i] : i \in 0..(Cardinality(S) - 1)} = S
    BY <1>2, <2>1, WalkCovers
  <2>3. w \in [0..Cardinality(S) -> S]
    BY <1>2 DEF WalkOf
  <2> QED BY <1>2, <2>2, <2>3
<1>4. I # {}
  <2> DEFINE C == {c \in S : c < b}
  <2>1. 0 \in C
    BY <1>1
  <2>2. C \in SUBSET Nat /\ IsFiniteSet(C) /\ C # {}
    BY <1>1, <2>1, FS_Subset, Zenon
  <2>3. PICK top \in C : \A c \in C : c <= top
    <3> HIDE DEF C
    <3> QED BY <2>2, HighestBlock, Zenon
  <2>4. top \in S /\ top \in Nat /\ top < b /\ h.next[top] \in S /\ h.next[top] \in Nat
    BY <1>1, <2>3, Zenon
  <2>5. StopsAt(h, top, b)
    <3>1. CASE top < h.next[top]
      <4>1. h.next[top] \notin C
        BY <2>3, <2>4, <3>1
      <4>2. b < h.next[top]
        BY <1>1, <2>4, <4>1
      <4> QED BY <2>4, <4>2 DEF StopsAt
    <3>2. CASE h.next[top] <= top
      BY <2>4, <3>2 DEF StopsAt
    <3> QED BY <2>4, <3>1, <3>2
  <2>6. PICK i \in 0..(n - 1) : w[i] = top
    BY <1>3, <2>4
  <2>7. i \in 0..n
    BY <1>3
  <2> QED BY <2>5, <2>6, <2>7
<1>5. Slob!Min(I) \in I
  <2>1. I \in SUBSET Nat
    BY <1>3
  <2> HIDE DEF I
  <2> QED BY <1>4, <2>1, LeastPlace
<1> DEFINE cur == w[Slob!Min(I)]
<1>6. cur \in S /\ StopsAt(h, cur, b)
  BY <1>3, <1>5
<1>7. cur = Stop(h, b)
  BY DEF Stop, n, w
<1> HIDE DEF cur, I
<1>8. cur \in Nat /\ h.next[cur] \in Nat /\ cur # b /\ h.next[cur] # b
  BY <1>1, <1>6, Zenon
<1>9. cur < h.next[cur] \/ h.next[cur] = 0
  BY <1>1, <1>6, Zenon
<1>10. cur < b /\ (b < h.next[cur] \/ h.next[cur] = 0)
  BY <1>6, <1>8, <1>9 DEF StopsAt
<1> QED BY <1>6, <1>7, <1>10 DEF Before, S

\* What slob_free makes of the list when it has stopped at cur.
Behind(h, cur, b, n) == b + n = h.next[cur]
BlocksLeft(h, cur, b, n) ==
    (DOMAIN h.next \ (IF Behind(h, cur, b, n) THEN {h.next[cur]} ELSE {}))
    \cup {IF cur + h.units[cur] = b THEN cur ELSE b}
LinksLeft(h, cur, b, n) ==
    LET into == IF cur + h.units[cur] = b THEN cur ELSE b
        link == IF Behind(h, cur, b, n) THEN h.next[h.next[cur]] ELSE h.next[cur]
    IN  [c \in BlocksLeft(h, cur, b, n) |->
            IF c = into THEN link ELSE IF c = cur THEN b ELSE h.next[c]]
UnitsLeft(h, cur, b, n) ==
    LET into == IF cur + h.units[cur] = b THEN cur ELSE b
        len == IF Behind(h, cur, b, n) THEN n + h.units[h.next[cur]] ELSE n
    IN  [c \in BlocksLeft(h, cur, b, n) |->
            IF c # into THEN h.units[c]
            ELSE IF into = cur THEN h.units[cur] + len ELSE len]

LEMMA FreedIs ==
    ASSUME NEW h, NEW b, NEW n
    PROVE  LET g == Slob!slob_free(h, b, n)
               cur == Stop(h, b)
           IN  /\ g.next = LinksLeft(h, cur, b, n)
               /\ g.units = UnitsLeft(h, cur, b, n)
               /\ g.slobfree = cur
BY Zenon DEF Slob!slob_free, Slob!Touches, Stop, StopsAt, Behind, BlocksLeft, LinksLeft, UnitsLeft

LEMMA AroundBlock ==
    ASSUME NEW h, HeapGood(h), NEW b \in Nat, NEW n \in Nat \ {0}, 2 <= b,
           ClearOf(DOMAIN h.next, h.units, b, n), NEW cur, Before(h.next, cur, b)
    PROVE  LET after == h.next[cur]
           IN  /\ cur \in DOMAIN h.next /\ cur \in Nat /\ h.units[cur] \in Nat \ {0}
               /\ cur + h.units[cur] <= b /\ b \notin DOMAIN h.next
               /\ after \in DOMAIN h.next /\ after \in Nat
               /\ h.units[after] \in Nat \ {0} /\ h.next[after] \in Nat
               /\ cur # after \/ after = 0
               /\ after = 0 \/ b + n <= after
               /\ \A d \in DOMAIN h.next : /\ d \in Nat /\ h.units[d] \in Nat \ {0}
                                           /\ d <= cur \/ (after # 0 /\ after <= d)
               /\ cur + h.units[cur] = b => cur # 0
<1> DEFINE S == DOMAIN h.next
           after == h.next[cur]
<1>1. /\ S \in SUBSET Nat /\ 0 \in S
      /\ \A c \in S : /\ h.next[c] \in S
                      /\ \/ c < h.next[c] /\ \A d \in S : d <= c \/ h.next[c] <= d
                         \/ h.next[c] = 0 /\ \A d \in S : d <= c
  BY DEF HeapGood, Ring
<1>2. \A c \in S : h.units[c] \in Nat \ {0} /\ (c + h.units[c] <= b \/ b + n <= c)
  BY DEF HeapGood, Gaps, ClearOf
<1>3. cur \in S /\ cur < b /\ (b < after \/ after = 0)
  BY DEF Before
<1>4. h.units[0] = 1
  BY DEF HeapGood
<1> HIDE DEF S
<1>5. cur \in Nat /\ h.units[cur] \in Nat \ {0} /\ after \in S /\ after \in Nat
  BY <1>1, <1>2, <1>3, Zenon
<1>6. cur + h.units[cur] <= b
  BY <1>2, <1>3, <1>5
<1>7. b \notin S
  BY <1>2
<1>8. h.units[after] \in Nat \ {0} /\ h.next[after] \in S /\ h.next[after] \in Nat
  BY <1>1, <1>2, <1>5, Zenon
<1>9. after = 0 \/ b + n <= after
  BY <1>2, <1>3, <1>5, <1>8
<1>10. ASSUME NEW d \in S PROVE d \in Nat /\ (d <= cur \/ (after # 0 /\ after <= d))
  <2>1. d \in Nat
    BY <1>1
  <2> QED BY <1>1, <1>3, <1>5, <2>1
<1>11. cur + h.units[cur] = b => cur # 0
  BY <1>4
<1>12. cur # after \/ after = 0
  BY <1>3, <1>5
<1> QED BY <1>2, <1>3, <1>5, <1>6, <1>7, <1>8, <1>9, <1>10, <1>11, <1>12 DEF S

\* The links are those of a ring in all four cases.
LEMMA LinksKept ==
    ASSUME NEW h, HeapGood(h), NEW b \in Nat, NEW n \in Nat \ {0}, 2 <= b,
           ClearOf(DOMAIN h.next, h.units, b, n), NEW cur, Before(h.next, cur, b)
    PROVE  Ring(BlocksLeft(h, cur, b, n), LinksLeft(h, cur, b, n))
<1> DEFINE S == DOMAIN h.next
           after == h.next[cur]
           touches == cur + h.units[cur] = b
           behind == b + n = after
           T == BlocksLeft(h, cur, b, n)
           f == LinksLeft(h, cur, b, n)
<1>1. /\ cur \in S /\ cur \in Nat /\ b \notin S /\ after \in S /\ after \in Nat
      /\ after = 0 \/ b + n <= after
      /\ cur # after \/ after = 0
  BY AroundBlock
<1>2. Ring(S, h.next) /\ cur < b /\ (b < after \/ after = 0)
  BY DEF HeapGood, Before
<1>3. behind => after # 0 /\ after # cur /\ after # b
  BY <1>1
<1>4. T = (S \ (IF behind THEN {after} ELSE {})) \cup {IF touches THEN cur ELSE b}
  BY DEF BlocksLeft, Behind
<1>5. \A c \in T : f[c] = IF c = (IF touches THEN cur ELSE b)
                          THEN (IF behind THEN h.next[after] ELSE after)
                          ELSE IF c = cur THEN b ELSE h.next[c]
  BY DEF LinksLeft, Behind
<1> SUFFICES Ring(T, f)
  OBVIOUS
<1> HIDE DEF T, f
<1>6. CASE ~ touches
  <2> DEFINE N == LinkedIn(h.next, cur, b)
  <2>1. Ring(S \cup {b}, N)
    BY <1>1, <1>2, IntoRing
  <2>2. DOMAIN N = S \cup {b} /\ cur # b
    BY <1>1 DEF LinkedIn
  <2>3. \A c \in S \cup {b} : N[c] = IF c = b THEN after ELSE IF c = cur THEN b ELSE h.next[c]
    BY DEF LinkedIn
  <2> HIDE DEF N
  <2>4. CASE ~ behind
    <3>1. T = S \cup {b}
      BY <1>4, <1>6, <2>4
    <3>2. \A c \in T : f[c] = N[c]
      BY <1>5, <1>6, <2>3, <2>4, <3>1
    <3>3. Ring(T, N)
      BY <2>1, <3>1
    <3> QED BY <3>2, <3>3, RingSame
  <2>5. CASE behind
    <3> DEFINE M == Unlinked(N, b, after)
    <3>1. N[b] = after /\ after # 0
      BY <1>3, <2>3, <2>5
    <3>2. Ring((S \cup {b}) \ {after}, M)
      <4>1. Ring(DOMAIN N, N) /\ b \in DOMAIN N
        BY <2>1, <2>2
      <4>2. Ring(DOMAIN N \ {after}, M)
        BY <3>1, <4>1, OutOfRing
      <4> QED BY <2>2, <4>2
    <3>3. T = (S \cup {b}) \ {after}
      BY <1>3, <1>4, <1>6, <2>5
    <3>4. \A c \in T : M[c] = IF c = b THEN N[after] ELSE N[c]
      BY <2>2, <3>3 DEF Unlinked
    <3>5. N[after] = h.next[after]
      BY <1>1, <1>3, <2>3, <2>5
    <3> HIDE DEF M
    <3>6. ASSUME NEW c \in T PROVE f[c] = M[c]
      <4>1. c \in S \cup {b}
        BY <3>3
      <4>2. CASE c = b
        BY <1>5, <1>6, <2>5, <3>4, <3>5, <4>2
      <4>3. CASE c # b
        <5>1. M[c] = IF c = cur THEN b ELSE h.next[c]
          BY <2>3, <3>4, <4>1, <4>3
        <5>2. f[c] = IF c = cur THEN b ELSE h.next[c]
          BY <1>5, <1>6, <4>3
        <5> QED BY <5>1, <5>2
      <4> QED BY <4>2, <4>3
    <3>7. Ring(T, M)
      BY <3>2, <3>3
    <3>8. \A c \in T : f[c] = M[c]
      BY <3>6
    <3> QED BY <3>7, <3>8, RingSame
  <2> QED BY <2>4, <2>5
<1>7. CASE touches
  <2>1. CASE ~ behind
    <3>1. T = S
      BY <1>1, <1>4, <1>7, <2>1
    <3>2. \A c \in T : f[c] = h.next[c]
      BY <1>5, <1>7, <2>1
    <3>3. Ring(T, h.next)
      BY <1>2, <3>1
    <3> HIDE DEF S
    <3> QED BY <3>2, <3>3, RingSame
  <2>2. CASE behind
    <3> DEFINE M == Unlinked(h.next, cur, after)
    <3>1. Ring(S \ {after}, M)
      BY <1>1, <1>2, <1>3, <2>2, OutOfRing
    <3>2. T = S \ {after}
      BY <1>1, <1>3, <1>4, <1>7, <2>2
    <3>3. \A c \in T : M[c] = IF c = cur THEN h.next[after] ELSE h.next[c]
      BY <3>2 DEF Unlinked
    <3> HIDE DEF M
    <3>4. \A c \in T : f[c] = M[c]
      BY <1>5, <1>7, <2>2, <3>3
    <3>5. Ring(T, M)
      BY <3>1, <3>2
    <3> QED BY <3>4, <3>5, RingSame
  <2> QED BY <2>1, <2>2
<1> QED BY <1>6, <1>7

\* The units of the block that was freed are free, and no block reaches to another.
LEMMA UnitsFreed ==
    ASSUME NEW h, HeapGood(h), NEW b \in Nat, NEW n \in Nat \ {0}, 2 <= b,
           ClearOf(DOMAIN h.next, h.units, b, n), NEW cur, Before(h.next, cur, b)
    PROVE  LET T == BlocksLeft(h, cur, b, n)
               f == UnitsLeft(h, cur, b, n)
           IN  /\ Gaps(T, f)
               /\ \A u \in Nat : Covers(T, f, u)
                                 <=> FreeAt(h, u) \/ (b <= u /\ u < b + n)
<1> DEFINE S == DOMAIN h.next
           after == h.next[cur]
           touches == cur + h.units[cur] = b
           behind == b + n = after
           T == BlocksLeft(h, cur, b, n)
           f == UnitsLeft(h, cur, b, n)
           into == IF touches THEN cur ELSE b
           len == IF behind THEN n + h.units[after] ELSE n
           all == IF touches THEN h.units[cur] + len ELSE len
           K == (S \ (IF behind THEN {after} ELSE {})) \ {into}
<1>1. /\ cur \in S /\ cur \in Nat /\ h.units[cur] \in Nat \ {0}
      /\ cur + h.units[cur] <= b /\ b \notin S
      /\ after \in S /\ after \in Nat /\ h.units[after] \in Nat \ {0}
      /\ cur # after \/ after = 0
      /\ after = 0 \/ b + n <= after
      /\ \A d \in S : d \in Nat /\ h.units[d] \in Nat \ {0}
                      /\ (d <= cur \/ (after # 0 /\ after <= d))
  BY AroundBlock
<1>2. Gaps(S, h.units) /\ \A c, d \in S : c < d => c + h.units[c] < d
  BY DEF HeapGood, Gaps
<1>3. behind => after # 0 /\ after # cur /\ after # b
  BY <1>1
<1>4. T = (S \ (IF behind THEN {after} ELSE {})) \cup {into}
  BY DEF BlocksLeft, Behind
<1>5. \A c \in T : f[c] = IF c # into THEN h.units[c]
                          ELSE IF into = cur THEN h.units[cur] + len ELSE len
  BY DEF UnitsLeft, Behind
<1>6. into = cur <=> touches
  BY <1>1
<1> HIDE DEF T, f, S
<1>7. T = K \cup {into} /\ \A c \in T : f[c] = Placed(K, h.units, into, all)[c]
  <2>1. T = K \cup {into}
    BY <1>4
  <2> HIDE DEF into, K, all
  <2>2. \A c \in T : f[c] = IF c = into THEN all ELSE h.units[c]
    BY <1>5, <1>6 DEF all
  <2> QED BY <2>1, <2>2 DEF Placed
<1>8. K \in SUBSET Nat /\ K \in SUBSET S /\ into \in Nat /\ into \notin K
      /\ len \in Nat \ {0} /\ all \in Nat \ {0} /\ into + all = b + len
  <2>1. len \in Nat \ {0}
    BY <1>1
  <2> HIDE DEF len
  <2>2. all \in Nat \ {0} /\ into + all = b + len
    BY <1>1, <2>1
  <2>3. K \in SUBSET S /\ K \in SUBSET Nat
    BY <1>1, Zenon
  <2> QED BY <1>1, <2>1, <2>2, <2>3
<1>9. ASSUME NEW c \in K PROVE c + h.units[c] < into \/ into + all < c
  <2>1. c \in S /\ c \in Nat /\ h.units[c] \in Nat \ {0} /\ (behind => c # after) /\ c # into
    BY <1>1, <1>8
  <2>2. c < cur => c + h.units[c] < cur
    BY <1>1, <1>2, <2>1
  <2>3. CASE c < cur
    BY <1>1, <2>1, <2>2, <2>3
  <2>4. CASE c = cur
    <3>1. ~ touches
      BY <2>1, <2>4
    <3> QED BY <1>1, <2>4, <3>1
  <2>5. CASE cur < c
    <3>1. after # 0 /\ after <= c /\ b + n <= after
      BY <1>1, <2>1, <2>5
    <3>2. CASE behind
      <4>1. after < c
        BY <1>1, <2>1, <3>1, <3>2
      <4>2. after + h.units[after] < c
        BY <1>1, <1>2, <2>1, <4>1
      <4>3. b + len = after + h.units[after]
        BY <1>1, <3>2
      <4> HIDE DEF len, all, into
      <4> QED BY <1>8, <4>2, <4>3
    <3>3. CASE ~ behind
      <4>1. b + len < c
        BY <1>1, <2>1, <3>1, <3>3
      <4> HIDE DEF len, all, into
      <4> QED BY <1>8, <4>1
    <3> QED BY <3>2, <3>3
  <2> QED BY <1>1, <2>1, <2>3, <2>4, <2>5
<1>10. Gaps(K, h.units)
  BY <1>2, <1>8, GapsOfFewer
<1> DEFINE g == Placed(K, h.units, into, all)
<1>11. /\ Gaps(K \cup {into}, g)
       /\ \A u \in Nat : Covers(K \cup {into}, g, u)
                         <=> Covers(K, h.units, u) \/ (into <= u /\ u < into + all)
  <2> HIDE DEF K, into, all
  <2> QED BY <1>8, <1>9, <1>10, BlockPlaced
<1>12. Gaps(T, f) /\ \A u : Covers(T, f, u) <=> Covers(K \cup {into}, g, u)
  <2> HIDE DEF K, into, all, g
  <2> QED BY <1>7, <1>11, GapsSame DEF g
<1>13. ASSUME NEW u \in Nat
       PROVE  Covers(K, h.units, u) \/ (into <= u /\ u < into + all)
              <=> Covers(S, h.units, u) \/ (b <= u /\ u < b + n)
  <2> DEFINE In(c) == c <= u /\ u < c + h.units[c]
  <2>1. Covers(S, h.units, u) <=> \/ Covers(K, h.units, u)
                                  \/ touches /\ In(cur)
                                  \/ behind /\ In(after)
    <3>1. \A c \in S : c \in K \/ (touches /\ c = cur) \/ (behind /\ c = after)
      BY <1>1
    <3>2. \A c \in K : c \in S
      BY <1>8
    <3> HIDE DEF K, into
    <3> QED BY <1>1, <3>1, <3>2, Zenon DEF Covers
  <2>2. (into <= u /\ u < b + len) <=> \/ b <= u /\ u < b + n
                                       \/ touches /\ In(cur)
                                       \/ behind /\ In(after)
    BY <1>1
  <2> HIDE DEF In, into, len, all, K
  <2> QED BY <1>8, <2>1, <2>2
<1>14. \A u : FreeAt(h, u) <=> Covers(S, h.units, u)
  BY DEF FreeAt, S
<1>15. \A u \in Nat : Covers(T, f, u) <=> FreeAt(h, u) \/ (b <= u /\ u < b + n)
  <2> HIDE DEF K, into, all, g
  <2> QED BY <1>11, <1>12, <1>13, <1>14
<1> QED BY <1>12, <1>15 DEF T, f

LEMMA BlockFreed ==
    ASSUME NEW h, HeapGood(h), NEW b \in Nat, NEW n \in Nat \ {0}, 2 <= b,
           ClearOf(DOMAIN h.next, h.units, b, n)
    PROVE  LET g == Slob!slob_free(h, b, n)
           IN  /\ HeapGood(g)
               /\ \A u \in Nat : FreeAt(g, u) <=> FreeAt(h, u) \/ (b <= u /\ u < b + n)
<1> DEFINE g == Slob!slob_free(h, b, n)
           cur == Stop(h, b)
           T == BlocksLeft(h, cur, b, n)
<1>1. \A c \in DOMAIN h.next : c \in Nat /\ h.units[c] \in Nat \ {0}
  BY DEF HeapGood, Ring, Gaps
<1>2. b \notin DOMAIN h.next
  BY <1>1 DEF ClearOf
<1>3. Before(h.next, cur, b)
  BY <1>2, SearchStops
<1>4. /\ g.next = LinksLeft(h, cur, b, n) /\ g.units = UnitsLeft(h, cur, b, n)
      /\ g.slobfree = cur
  BY FreedIs
<1> HIDE DEF g, cur
<1>5. DOMAIN g.next = T /\ DOMAIN g.units = T
  BY <1>4 DEF LinksLeft, UnitsLeft
<1>6. Ring(T, g.next)
  BY <1>3, <1>4, LinksKept
<1>7. /\ Gaps(T, g.units)
      /\ \A u \in Nat : Covers(T, g.units, u) <=> FreeAt(h, u) \/ (b <= u /\ u < b + n)
  BY <1>3, <1>4, UnitsFreed
<1>8. /\ cur \in DOMAIN h.next /\ (cur + h.units[cur] = b => cur # 0)
      /\ (cur # h.next[cur] \/ h.next[cur] = 0) /\ cur \in Nat
      /\ h.next[cur] \in Nat
  BY <1>3, AroundBlock, Zenon
<1>9. cur \in T
  <2>1. b + n # 0
    OBVIOUS
  <2> QED BY <1>8, <2>1 DEF BlocksLeft, Behind
<1>10. g.units[0] = 1
  <2>1. 0 \in T
    BY <1>6 DEF Ring
  <2>2. h.units[0] = 1
    BY DEF HeapGood
  <2>3. 0 # IF cur + h.units[cur] = b THEN cur ELSE b
    BY <1>8
  <2> QED BY <1>4, <2>1, <2>2, <2>3 DEF UnitsLeft
<1> HIDE DEF T
<1>11. HeapGood(g)
  BY <1>4, <1>5, <1>6, <1>7, <1>9, <1>10 DEF HeapGood
<1>12. \A u \in Nat : FreeAt(g, u) <=> FreeAt(h, u) \/ (b <= u /\ u < b + n)
  BY <1>5, <1>7 DEF FreeAt
<1> QED BY <1>11, <1>12 DEF g

InSpan(u, b, n) == b <= u /\ u < b + n

\* What slob_alloc makes of the list when it takes cur, which follows prev.
CutBlocks(h, prev, cur, n) ==
    (DOMAIN h.next \ {cur}) \cup (IF h.units[cur] = n THEN {} ELSE {cur + n})
CutLinks(h, prev, cur, n) ==
    [c \in CutBlocks(h, prev, cur, n) |->
        IF c = cur + n /\ ~ (h.units[cur] = n) THEN h.next[cur]
        ELSE IF c = prev THEN (IF h.units[cur] = n THEN h.next[cur] ELSE cur + n)
        ELSE h.next[c]]
CutUnits(h, prev, cur, n) ==
    [c \in CutBlocks(h, prev, cur, n) |->
        IF c = cur + n /\ ~ (h.units[cur] = n) THEN h.units[cur] - n ELSE h.units[c]]

LEMMA CutIs ==
    ASSUME NEW h, NEW n
    PROVE  LET k == Slob!Cut(h, n)
               i == Slob!Min(Slob!Enough(h, n))
               prev == Slob!Walk(h)[i - 1]
               cur == Slob!Walk(h)[i]
           IN  /\ k.block = cur
               /\ k.heap.next = CutLinks(h, prev, cur, n)
               /\ k.heap.units = CutUnits(h, prev, cur, n)
               /\ k.heap.slobfree = prev
BY DEF Slob!Cut, Slob!Hand, CutBlocks, CutLinks, CutUnits

LEMMA EnoughAt ==
    ASSUME NEW h, HeapGood(h), NEW n \in Nat \ {0, 1}
    PROVE  /\ (\E c \in DOMAIN h.next : h.units[c] >= n) => Slob!Enough(h, n) # {}
           /\ Slob!Enough(h, n) # {} =>
                LET i == Slob!Min(Slob!Enough(h, n))
                    prev == Slob!Walk(h)[i - 1]
                    cur == Slob!Walk(h)[i]
                IN  /\ prev \in DOMAIN h.next /\ cur \in DOMAIN h.next
                    /\ cur = h.next[prev] /\ cur # 0 /\ h.units[cur] >= n
<1> DEFINE S == DOMAIN h.next
           L == Slob!Length(h)
           w == Slob!Walk(h)
           I == Slob!Enough(h, n)
<1>1. L = Cardinality(S) /\ WalkOf(S, h.next, h.slobfree, w)
  BY WalkIs
<1>2. Ring(S, h.next) /\ h.slobfree \in S /\ h.units[0] = 1
  BY DEF HeapGood
<1>3. L \in Nat \ {0} /\ {w[i] : i \in 1..L} = S
  <2> HIDE DEF S, w, L
  <2> QED BY <1>1, <1>2, WalkCovers
<1>4. w \in [0..L -> S] /\ \A i \in 1..L : w[i] = h.next[w[i - 1]]
  <2> HIDE DEF S, w, L
  <2> QED BY <1>1 DEF WalkOf
<1>5. I = {i \in 1..L : h.units[w[i]] >= n}
  BY DEF Slob!Enough
<1> HIDE DEF S, w, L, I
<1>6. (\E c \in S : h.units[c] >= n) => I # {}
  <2> SUFFICES ASSUME NEW c \in S, h.units[c] >= n PROVE I # {}
    OBVIOUS
  <2>1. PICK i \in 1..L : w[i] = c
    BY <1>3
  <2>2. i \in I
    BY <1>5, <2>1
  <2> QED BY <2>2
<1> DEFINE i == Slob!Min(I)
           prev == w[i - 1]
           cur == w[i]
<1>7. ASSUME I # {}
      PROVE  prev \in S /\ cur \in S /\ cur = h.next[prev] /\ cur # 0 /\ h.units[cur] >= n
  <2>1. i \in I
    <3>1. I \in SUBSET Nat
      BY <1>3, <1>5
    <3> QED BY <1>7, <3>1, LeastPlace
  <2> HIDE DEF i
  <2>2. i \in 1..L /\ h.units[cur] >= n
    BY <1>5, <2>1
  <2>3. i \in 0..L /\ i - 1 \in 0..L
    BY <1>3, <2>2
  <2>4. cur = h.next[prev]
    BY <1>4, <2>2
  <2>5. cur # 0
    BY <1>2, <2>2
  <2> QED BY <1>4, <2>2, <2>3, <2>4, <2>5
<1> QED BY <1>6, <1>7 DEF S, w, L, I

LEMMA BlockCut ==
    ASSUME NEW h, HeapGood(h), NEW n \in Nat \ {0, 1}, Slob!Enough(h, n) # {}
    PROVE  LET k == Slob!Cut(h, n)
           IN  /\ HeapGood(k.heap) /\ k.block \in Nat /\ 2 <= k.block
               /\ \A u \in Nat : /\ FreeAt(h, u) <=> FreeAt(k.heap, u) \/ InSpan(u, k.block, n)
                                 /\ ~ (FreeAt(k.heap, u) /\ InSpan(u, k.block, n))
<1> DEFINE S == DOMAIN h.next
           k == Slob!Cut(h, n)
           i == Slob!Min(Slob!Enough(h, n))
           prev == Slob!Walk(h)[i - 1]
           cur == Slob!Walk(h)[i]
           T == CutBlocks(h, prev, cur, n)
           K == S \ {cur}
           exact == h.units[cur] = n
           s == cur + n
           len == h.units[cur] - n
<1>1. prev \in S /\ cur \in S /\ cur = h.next[prev] /\ cur # 0 /\ h.units[cur] >= n
  BY EnoughAt
<1>2. /\ k.block = cur
      /\ k.heap.next = CutLinks(h, prev, cur, n)
      /\ k.heap.units = CutUnits(h, prev, cur, n)
      /\ k.heap.slobfree = prev
  BY CutIs
<1> HIDE DEF k, i, prev, cur
<1>3. /\ Ring(S, h.next) /\ S \in SUBSET Nat /\ 0 \in S
      /\ \A c \in S : /\ h.next[c] \in S
                      /\ \/ c < h.next[c] /\ \A d \in S : d <= c \/ h.next[c] <= d
                         \/ h.next[c] = 0 /\ \A d \in S : d <= c
  BY DEF HeapGood, Ring
<1>4. /\ Gaps(S, h.units) /\ h.units[0] = 1
      /\ \A c \in S : h.units[c] \in Nat \ {0} /\ \A d \in S : c < d => c + h.units[c] < d
  BY DEF HeapGood, Gaps
<1>5. \A u : FreeAt(h, u) <=> Covers(S, h.units, u)
  BY DEF FreeAt
<1> DEFINE N == Unlinked(h.next, prev, cur)
<1>6. Ring(K, N) /\ DOMAIN N = K
  <2>1. Ring(DOMAIN h.next \ {cur}, Unlinked(h.next, prev, cur))
    BY <1>1, <1>3, OutOfRing
  <2>2. DOMAIN N = K
    BY DEF Unlinked
  <2> QED BY <2>1, <2>2
<1>7. \A c \in K : N[c] = IF c = prev THEN h.next[cur] ELSE h.next[c]
  BY DEF Unlinked
<1>8. T = K \cup (IF exact THEN {} ELSE {s})
  BY DEF CutBlocks
<1>9. \A c \in T : k.heap.next[c] = IF c = s /\ ~ exact THEN h.next[cur]
                                    ELSE IF c = prev THEN (IF exact THEN h.next[cur] ELSE s)
                                    ELSE h.next[c]
  BY <1>2 DEF CutLinks
<1>10. \A c \in T : k.heap.units[c] = IF c = s /\ ~ exact THEN len ELSE h.units[c]
  BY <1>2 DEF CutUnits
<1>11. DOMAIN k.heap.next = T /\ DOMAIN k.heap.units = T
  BY <1>2 DEF CutLinks, CutUnits
<1> HIDE DEF N, T, S
<1>12. cur \in Nat /\ prev \in Nat /\ prev < cur /\ h.units[cur] \in Nat
       /\ h.next[cur] \in S /\ h.next[cur] \in Nat
  BY <1>1, <1>3, <1>4
<1>13. 2 <= cur
  BY <1>1, <1>3, <1>4, <1>12
<1>14. K \in SUBSET Nat /\ K \in SUBSET S /\ Gaps(K, h.units) /\ prev \in K /\ 0 \in K
  <2>1. K \in SUBSET S /\ K \in SUBSET Nat
    BY <1>3, Zenon
  <2>2. prev \in K /\ 0 \in K
    BY <1>1, <1>3, <1>12
  <2>3. Gaps(K, h.units)
    <3> HIDE DEF K
    <3> QED BY <1>4, <2>1, GapsOfFewer
  <2> QED BY <2>1, <2>2, <2>3
<1>15. \A u \in Nat : /\ Covers(S, h.units, u) <=> Covers(K, h.units, u) \/ InSpan(u, cur, h.units[cur])
                      /\ ~ (Covers(K, h.units, u) /\ InSpan(u, cur, h.units[cur]))
  <2> TAKE u \in Nat
  <2>1. Covers(S, h.units, u) <=> Covers(K, h.units, u) \/ InSpan(u, cur, h.units[cur])
    BY <1>1 DEF Covers, InSpan
  <2>2. ASSUME NEW c \in K, c <= u, u < c + h.units[c], InSpan(u, cur, h.units[cur]) PROVE FALSE
    <3>1. c \in S /\ c \in Nat /\ h.units[c] \in Nat /\ c # cur
      BY <1>3, <1>4
    <3>2. c < cur => c + h.units[c] < cur
      BY <1>1, <1>4, <3>1, Zenon
    <3>3. cur < c => cur + h.units[cur] < c
      BY <1>1, <1>4, <3>1
    <3> QED BY <1>12, <2>2, <3>1, <3>2, <3>3 DEF InSpan
  <2> QED BY <2>1, <2>2 DEF Covers
<1>16. CASE exact
  <2>1. T = K
    BY <1>8, <1>16
  <2>2. Ring(T, k.heap.next)
    <3>1. \A c \in K : k.heap.next[c] = N[c]
      BY <1>7, <1>9, <1>16, <2>1
    <3>2. Ring(K, k.heap.next)
      BY <1>6, <3>1, RingSame
    <3> QED BY <2>1, <3>2
  <2>3. Gaps(K, k.heap.units) /\ \A u : Covers(K, k.heap.units, u) <=> Covers(K, h.units, u)
    <3>1. \A c \in K : k.heap.units[c] = h.units[c]
      BY <1>10, <1>16, <2>1
    <3> QED BY <1>14, <3>1, GapsSame
  <2>4. k.heap.units[0] = 1
    BY <1>4, <1>10, <1>14, <1>16, <2>1
  <2>5. HeapGood(k.heap)
    BY <1>2, <1>11, <1>14, <2>1, <2>2, <2>3, <2>4 DEF HeapGood
  <2>6. \A u : FreeAt(k.heap, u) <=> Covers(K, h.units, u)
    BY <1>11, <2>1, <2>3, Zenon DEF FreeAt
  <2>7. \A u \in Nat : /\ FreeAt(h, u) <=> FreeAt(k.heap, u) \/ InSpan(u, k.block, n)
                       /\ ~ (FreeAt(k.heap, u) /\ InSpan(u, k.block, n))
    BY <1>2, <1>5, <1>15, <1>16, <2>6
  <2> QED BY <1>2, <1>12, <1>13, <2>5, <2>7 DEF k
<1>17. CASE ~ exact
  <2>1. T = K \cup {s}
    BY <1>8, <1>17
  <2>2. s \in Nat /\ len \in Nat \ {0} /\ s + len = cur + h.units[cur] /\ prev < s /\ s # 0
    BY <1>1, <1>4, <1>12, <1>17
  <2>3. \A c \in K : c + h.units[c] < s \/ s + len < c
    <3> SUFFICES ASSUME NEW c \in K PROVE c + h.units[c] < s \/ s + len < c
      OBVIOUS
    <3>1. c \in S /\ c \in Nat /\ h.units[c] \in Nat /\ c # cur
      BY <1>3, <1>4
    <3>2. c < cur => c + h.units[c] < cur
      BY <1>1, <1>4, <3>1
    <3>3. cur < c => cur + h.units[cur] < c
      BY <1>1, <1>4, <3>1
    <3> HIDE DEF s, len
    <3>4. cur <= s
      BY <1>12 DEF s
    <3> QED BY <1>12, <2>2, <3>1, <3>2, <3>3, <3>4
  <2>4. s \notin K
    <3> SUFFICES ASSUME s \in K PROVE FALSE
      OBVIOUS
    <3>1. h.units[s] \in Nat \ {0}
      BY <1>4, <1>14
    <3> QED BY <2>2, <2>3, <3>1
  <2>5. s < N[prev] \/ N[prev] = 0
    <3>1. N[prev] = h.next[cur]
      BY <1>7, <1>14
    <3>2. cur < h.next[cur] => cur + h.units[cur] < h.next[cur]
      BY <1>1, <1>4, <1>12
    <3>3. cur < h.next[cur] \/ h.next[cur] = 0
      BY <1>1, <1>3, Zenon
    <3> QED BY <1>12, <2>2, <3>1, <3>2, <3>3
  <2> DEFINE M == LinkedIn(N, prev, s)
  <2>6. Ring(T, M)
    <3>1. Ring(DOMAIN N \cup {s}, LinkedIn(N, prev, s))
      <4> HIDE DEF s
      <4> QED BY <1>6, <1>14, <2>2, <2>4, <2>5, IntoRing
    <3> QED BY <1>6, <2>1, <3>1
  <2>7. Ring(T, k.heap.next)
    <3>1. \A c \in T : M[c] = IF c = s THEN N[prev] ELSE IF c = prev THEN s ELSE N[c]
      BY <1>6, <2>1 DEF LinkedIn
    <3>2. prev # s /\ N[prev] = h.next[cur]
      BY <1>7, <1>14, <2>2
    <3> HIDE DEF M, s
    <3>3. ASSUME NEW c \in T PROVE k.heap.next[c] = M[c]
      <4>1. c = s \/ c \in K
        BY <2>1
      <4>2. CASE c = s
        BY <1>9, <1>17, <3>1, <3>2, <4>2
      <4>3. CASE c = prev
        BY <1>9, <1>17, <3>1, <3>2, <4>3
      <4>4. CASE c # s /\ c # prev
        BY <1>7, <1>9, <3>1, <4>1, <4>4
      <4> QED BY <4>2, <4>3, <4>4
    <3>4. \A c \in T : k.heap.next[c] = M[c]
      BY <3>3
    <3> QED BY <2>6, <3>4, RingSame
  <2> DEFINE f == Placed(K, h.units, s, len)
  <2>8. /\ Gaps(K \cup {s}, f)
        /\ \A u \in Nat : Covers(K \cup {s}, f, u)
                          <=> Covers(K, h.units, u) \/ (s <= u /\ u < s + len)
    <3> HIDE DEF s, len, K
    <3> QED BY <1>14, <2>2, <2>3, <2>4, BlockPlaced
  <2>9. Gaps(T, k.heap.units) /\ \A u : Covers(T, k.heap.units, u) <=> Covers(T, f, u)
    <3>1. \A c \in T : f[c] = IF c = s THEN len ELSE h.units[c]
      BY <2>1 DEF Placed
    <3> HIDE DEF f
    <3>2. \A c \in T : k.heap.units[c] = f[c]
      BY <1>10, <1>17, <3>1
    <3> HIDE DEF K, s, len
    <3>3. Gaps(T, f)
      BY <2>1, <2>8
    <3> QED BY <3>2, <3>3, GapsSame
  <2>10. k.heap.units[0] = 1
    BY <1>4, <1>10, <1>14, <2>1, <2>2
  <2>11. HeapGood(k.heap)
    BY <1>2, <1>11, <1>14, <2>1, <2>7, <2>9, <2>10 DEF HeapGood
  <2>12. \A u : FreeAt(k.heap, u) <=> Covers(T, k.heap.units, u)
    BY <1>11 DEF FreeAt
  <2>13. \A u \in Nat : FreeAt(k.heap, u) <=> Covers(K, h.units, u) \/ (s <= u /\ u < s + len)
    <3> HIDE DEF f, s, len, K
    <3> QED BY <2>1, <2>8, <2>9, <2>12
  <2>14. \A u \in Nat : InSpan(u, cur, h.units[cur])
                        <=> InSpan(u, cur, n) \/ (s <= u /\ u < s + len)
    BY <1>12, <2>2 DEF InSpan
  <2>15. \A u \in Nat : ~ (InSpan(u, cur, n) /\ s <= u)
    BY <1>12 DEF InSpan
  <2>16. \A u \in Nat : /\ FreeAt(h, u) <=> FreeAt(k.heap, u) \/ InSpan(u, k.block, n)
                        /\ ~ (FreeAt(k.heap, u) /\ InSpan(u, k.block, n))
    <3> HIDE DEF s, len, K, f
    <3> QED BY <1>2, <1>5, <1>15, <2>13, <2>14, <2>15
  <2> QED BY <1>2, <1>12, <1>13, <2>11, <2>16 DEF k
<1> QED BY <1>16, <1>17

\* Units that are all free are in one block.
LEMMA OneBlock ==
    ASSUME NEW h, HeapGood(h), NEW b \in Nat, NEW n \in Nat \ {0},
           \A u \in Nat : InSpan(u, b, n) => FreeAt(h, u)
    PROVE  \E c \in DOMAIN h.next : h.units[c] >= n
<1> DEFINE S == DOMAIN h.next
<1>1. S \in SUBSET Nat
  BY DEF HeapGood, Ring
<1>2. \A c \in S : h.units[c] \in Nat \ {0} /\ \A d \in S : c < d => c + h.units[c] < d
  BY DEF HeapGood, Gaps
<1>3. \A u : FreeAt(h, u) <=> \E c \in S : c <= u /\ u < c + h.units[c]
  BY DEF FreeAt, Covers
<1> HIDE DEF S
<1>4. PICK c \in S : c <= b /\ b < c + h.units[c]
  BY <1>3 DEF InSpan
<1>5. c \in Nat /\ h.units[c] \in Nat
  BY <1>1, <1>2
<1> DEFINE e == c + h.units[c]
<1>6. e >= b + n
  <2> SUFFICES ASSUME e < b + n PROVE FALSE
    BY <1>5
  <2>1. e \in Nat /\ InSpan(e, b, n)
    BY <1>4, <1>5 DEF InSpan
  <2>2. PICK d \in S : d <= e /\ e < d + h.units[d]
    BY <1>3, <2>1
  <2>3. d \in Nat /\ h.units[d] \in Nat
    BY <1>1, <1>2
  <2>4. CASE d = c
    BY <1>5, <2>2, <2>4
  <2>5. CASE d < c
    <3>1. d + h.units[d] < c
      BY <1>2, <2>5
    <3> QED BY <1>5, <2>2, <2>3, <3>1
  <2>6. CASE c < d
    <3>1. e < d
      BY <1>2, <2>6
    <3> QED BY <1>5, <2>2, <2>3, <3>1
  <2> QED BY <1>5, <2>3, <2>4, <2>5, <2>6
<1>7. h.units[c] >= n
  BY <1>4, <1>5, <1>6
<1> QED BY <1>7 DEF S

LEMMA ClearWhenApart ==
    ASSUME NEW h, HeapGood(h), NEW b \in Nat, NEW n \in Nat \ {0},
           \A u \in Nat : ~ (InSpan(u, b, n) /\ FreeAt(h, u))
    PROVE  ClearOf(DOMAIN h.next, h.units, b, n)
<1> DEFINE S == DOMAIN h.next
<1>1. S \in SUBSET Nat /\ \A c \in S : h.units[c] \in Nat \ {0}
  BY DEF HeapGood, Ring, Gaps
<1>2. \A u : FreeAt(h, u) <=> \E c \in S : c <= u /\ u < c + h.units[c]
  BY DEF FreeAt, Covers
<1> HIDE DEF S
<1>3. ASSUME NEW c \in S PROVE c + h.units[c] <= b \/ b + n <= c
  <2>1. c \in Nat /\ h.units[c] \in Nat \ {0}
    BY <1>1
  <2>2. FreeAt(h, c)
    BY <1>2, <2>1
  <2>3. CASE c <= b
    <3>1. b < c + h.units[c] => FreeAt(h, b)
      BY <1>2, <2>3
    <3>2. InSpan(b, b, n)
      BY DEF InSpan
    <3> QED BY <2>1, <3>1, <3>2
  <2>4. CASE b < c
    <3>1. ~ InSpan(c, b, n)
      BY <2>1, <2>2
    <3> QED BY <2>1, <2>4, <3>1 DEF InSpan
  <2> QED BY <2>1, <2>3, <2>4
<1> QED BY <1>3 DEF ClearOf, S

\* Who may own a unit: arena and the pages in pg have them; small blocks m, the notes
\* of the large blocks q.
SlobUnit(pg, u) == u = 0 \/ \E p \in pg : InSpan(u, Slob!First(p), PageUnits)
SmallAt(m, u) == \E b \in DOMAIN m : InSpan(u, b, m[b])
NoteAt(q, u) == \E i \in DOMAIN q : InSpan(u, q[i].bb, 2)

AwayFrom(b, n, c, m) == b + n <= c \/ c + m <= b
SmallApart(m) == \A b, c \in DOMAIN m : b # c => AwayFrom(b, m[b], c, m[c])
NotesApart(q) == \A i, j \in DOMAIN q : i # j => AwayFrom(q[i].bb, 2, q[j].bb, 2)
OneOwner(h, m, q) ==
    /\ \A u \in Nat : /\ ~ (FreeAt(h, u) /\ SmallAt(m, u)) /\ ~ (FreeAt(h, u) /\ NoteAt(q, u))
                      /\ ~ (SmallAt(m, u) /\ NoteAt(q, u))
    /\ SmallApart(m) /\ NotesApart(q)

SmallType(m) ==
    /\ IsFiniteSet(DOMAIN m) /\ DOMAIN m \in SUBSET Nat
    /\ \A b \in DOMAIN m : 2 <= b /\ m[b] \in Nat \ {0, 1}
Large == [order : Orders, pages : Slob!Page, bb : Nat \ {0, 1}]

\* Every unit has one owner; in Loose the n units at b are on their way from one to another.
Kept(h, pg, m, q) ==
    /\ HeapGood(h) /\ SmallType(m) /\ q \in Seq(Large) /\ OneOwner(h, m, q)
    /\ \A u \in Nat : SlobUnit(pg, u) <=> FreeAt(h, u) \/ SmallAt(m, u) \/ NoteAt(q, u)
Loose(h, pg, m, q, b, n) ==
    /\ HeapGood(h) /\ SmallType(m) /\ q \in Seq(Large) /\ OneOwner(h, m, q)
    /\ b \in Nat /\ 2 <= b /\ n \in Nat \ {0, 1}
    /\ \A u \in Nat : /\ SlobUnit(pg, u) <=> \/ FreeAt(h, u) \/ SmallAt(m, u) \/ NoteAt(q, u)
                                            \/ InSpan(u, b, n)
                      /\ InSpan(u, b, n) => ~ FreeAt(h, u) /\ ~ SmallAt(m, u) /\ ~ NoteAt(q, u)

LEMMA ApartIs ==
    ASSUME NEW b \in Nat, NEW n \in Nat \ {0}, NEW c \in Nat, NEW m \in Nat \ {0}
    PROVE  AwayFrom(b, n, c, m) <=> \A u \in Nat : ~ (InSpan(u, b, n) /\ InSpan(u, c, m))
<1>1. AwayFrom(b, n, c, m) => \A u \in Nat : ~ (InSpan(u, b, n) /\ InSpan(u, c, m))
  BY DEF AwayFrom, InSpan
<1>2. ~ AwayFrom(b, n, c, m) => InSpan(b, c, m) \/ InSpan(c, b, n)
  BY DEF AwayFrom, InSpan
<1>3. InSpan(b, b, n) /\ InSpan(c, c, m)
  BY DEF InSpan
<1> QED BY <1>1, <1>2, <1>3

\* slob_free takes units that nobody owns.
LEMMA UnitsGivenBack ==
    ASSUME NEW h, NEW pg, NEW m, NEW q, NEW b, NEW n, Loose(h, pg, m, q, b, n)
    PROVE  Kept(Slob!slob_free(h, b, n), pg, m, q)
<1> DEFINE g == Slob!slob_free(h, b, n)
<1>1. HeapGood(h) /\ b \in Nat /\ n \in Nat \ {0} /\ 2 <= b
  BY DEF Loose
<1>2. ClearOf(DOMAIN h.next, h.units, b, n)
  <2>1. \A u \in Nat : ~ (InSpan(u, b, n) /\ FreeAt(h, u))
    BY DEF Loose
  <2> QED BY <1>1, <2>1, ClearWhenApart
<1>3. HeapGood(g) /\ \A u \in Nat : FreeAt(g, u) <=> FreeAt(h, u) \/ (b <= u /\ u < b + n)
  BY <1>1, <1>2, BlockFreed
<1> HIDE DEF g
<1>4. \A u \in Nat : FreeAt(g, u) <=> FreeAt(h, u) \/ InSpan(u, b, n)
  BY <1>3 DEF InSpan
<1>5. OneOwner(g, m, q)
  BY <1>4 DEF OneOwner, Loose
<1>6. \A u \in Nat : SlobUnit(pg, u) <=> FreeAt(g, u) \/ SmallAt(m, u) \/ NoteAt(q, u)
  BY <1>4 DEF Loose
<1>7. SmallType(m) /\ q \in Seq(Large)
  BY DEF Loose
<1>8. Kept(g, pg, m, q)
  BY <1>3, <1>5, <1>6, <1>7 DEF Kept
<1> QED BY <1>8 DEF g

LEMMA UnitsCut ==
    ASSUME NEW h, NEW pg, NEW m, NEW q, Kept(h, pg, m, q), NEW n \in Nat \ {0, 1},
           Slob!Enough(h, n) # {}
    PROVE  LET k == Slob!Cut(h, n) IN Loose(k.heap, pg, m, q, k.block, n)
<1> DEFINE k == Slob!Cut(h, n)
           g == k.heap
           b == k.block
<1>1. HeapGood(h)
  BY DEF Kept
<1>2. /\ HeapGood(g) /\ b \in Nat /\ 2 <= b
      /\ \A u \in Nat : /\ FreeAt(h, u) <=> FreeAt(g, u) \/ InSpan(u, b, n)
                        /\ ~ (FreeAt(g, u) /\ InSpan(u, b, n))
  BY <1>1, BlockCut
<1> HIDE DEF g, b
<1>3. OneOwner(g, m, q)
  BY <1>2 DEF OneOwner, Kept
<1>4. ASSUME NEW u \in Nat
      PROVE  /\ SlobUnit(pg, u) <=> \/ FreeAt(g, u) \/ SmallAt(m, u) \/ NoteAt(q, u)
                                   \/ InSpan(u, b, n)
             /\ InSpan(u, b, n) => ~ FreeAt(g, u) /\ ~ SmallAt(m, u) /\ ~ NoteAt(q, u)
  BY <1>2 DEF OneOwner, Kept
<1>5. SmallType(m) /\ q \in Seq(Large)
  BY DEF Kept
<1>6. Loose(g, pg, m, q, b, n)
  BY <1>2, <1>3, <1>4, <1>5 DEF Loose
<1> QED BY <1>6 DEF g, b

LEMMA PageSpans ==
    /\ PageUnits \in Nat \ {0, 1} /\ Slob!Page \in SUBSET Nat /\ IsFiniteSet(Slob!Page)
    /\ \A p \in Nat : Slob!First(p) \in Nat /\ 2 <= Slob!First(p)
    /\ \A p, q \in Nat : p # q => AwayFrom(Slob!First(p), PageUnits, Slob!First(q), PageUnits)
<1>1. PageUnits \in Nat \ {0, 1} /\ HeapPages \in Nat
  BY SlobAssumption
<1>2. Slob!Page \in SUBSET Nat /\ IsFiniteSet(Slob!Page)
  <2>1. HeapPages - 1 \in Int
    BY <1>1
  <2> QED BY <2>1, FS_Interval DEF Slob!Page
<1>3. \A p, k \in Nat : /\ (p + 1) * PageUnits \in Nat /\ PageUnits <= (p + 1) * PageUnits
                        /\ (p + 1 + k + 1) * PageUnits >= (p + 1) * PageUnits + PageUnits
  <2> SUFFICES ASSUME NEW p \in Nat, NEW k \in Nat
               PROVE  /\ (p + 1) * PageUnits \in Nat /\ PageUnits <= (p + 1) * PageUnits
                      /\ (p + 1 + k + 1) * PageUnits >= (p + 1) * PageUnits + PageUnits
    BY Zenon
  <2>1. p * PageUnits \in Nat /\ k * PageUnits \in Nat
    BY <1>1
  <2>2. (p + 1) * PageUnits = p * PageUnits + PageUnits
    BY <1>1
  <2>3. (p + 1 + k + 1) * PageUnits = p * PageUnits + k * PageUnits + PageUnits + PageUnits
    BY <1>1
  <2> QED BY <1>1, <2>1, <2>2, <2>3
<1>4. \A p \in Nat : Slob!First(p) \in Nat /\ 2 <= Slob!First(p)
  BY <1>1, <1>3 DEF Slob!First
<1>5. ASSUME NEW p \in Nat, NEW q \in Nat, p < q
      PROVE  Slob!First(p) + PageUnits <= Slob!First(q)
  <2>1. q - p - 1 \in Nat /\ p + 1 + (q - p - 1) + 1 = q + 1
    BY <1>5
  <2>2. (q + 1) * PageUnits >= (p + 1) * PageUnits + PageUnits
    BY <1>3, <2>1
  <2>3. (q + 1) * PageUnits \in Nat /\ (p + 1) * PageUnits \in Nat
    BY <1>3
  <2> QED BY <1>1, <2>2, <2>3 DEF Slob!First
<1>6. \A p, q \in Nat : p # q => AwayFrom(Slob!First(p), PageUnits, Slob!First(q), PageUnits)
  <2> SUFFICES ASSUME NEW p \in Nat, NEW q \in Nat, p # q
               PROVE  AwayFrom(Slob!First(p), PageUnits, Slob!First(q), PageUnits)
    OBVIOUS
  <2>1. p < q \/ q < p
    OBVIOUS
  <2> QED BY <1>5, <2>1 DEF AwayFrom
<1> QED BY <1>1, <1>2, <1>4, <1>6

\* A page that is not in pg has units that nobody owns.
LEMMA NewPage ==
    ASSUME NEW h, NEW pg \in SUBSET Slob!Page, NEW m, NEW q, Kept(h, pg, m, q),
           NEW p \in Slob!Page, p \notin pg
    PROVE  Loose(h, pg \cup {p}, m, q, Slob!First(p), PageUnits)
<1> DEFINE b == Slob!First(p)
           n == PageUnits
<1>1. b \in Nat /\ 2 <= b /\ n \in Nat \ {0, 1}
  BY PageSpans
<1>2. \A u : SlobUnit(pg \cup {p}, u) <=> SlobUnit(pg, u) \/ InSpan(u, b, n)
  BY DEF SlobUnit
<1>3. ASSUME NEW u \in Nat, InSpan(u, b, n) PROVE ~ SlobUnit(pg, u)
  <2>1. u # 0
    BY <1>1, <1>3 DEF InSpan
  <2>2. ASSUME NEW o \in pg PROVE ~ InSpan(u, Slob!First(o), n)
    <3>1. o # p /\ o \in Nat /\ p \in Nat
      BY PageSpans
    <3>2. AwayFrom(b, n, Slob!First(o), n) /\ Slob!First(o) \in Nat
      BY <3>1, PageSpans
    <3> QED BY <1>1, <1>3, <3>2, ApartIs
  <2> QED BY <2>1, <2>2 DEF SlobUnit
<1> HIDE DEF b, n
<1>4. ASSUME NEW u \in Nat
      PROVE  /\ SlobUnit(pg \cup {p}, u) <=> \/ FreeAt(h, u) \/ SmallAt(m, u) \/ NoteAt(q, u)
                                            \/ InSpan(u, b, n)
             /\ InSpan(u, b, n) => ~ FreeAt(h, u) /\ ~ SmallAt(m, u) /\ ~ NoteAt(q, u)
  BY <1>2, <1>3, Zenon DEF Kept
<1>5. HeapGood(h) /\ SmallType(m) /\ q \in Seq(Large) /\ OneOwner(h, m, q)
  BY DEF Kept
<1>6. Loose(h, pg \cup {p}, m, q, b, n)
  BY <1>1, <1>4, <1>5, Zenon DEF Loose
<1> QED BY <1>6 DEF b, n

\* A new page has room for any small block.
LEMMA RoomInPage ==
    ASSUME NEW h, HeapGood(h), NEW b \in Nat, NEW n \in Nat \ {0, 1}, n <= PageUnits,
           \A u \in Nat : InSpan(u, b, PageUnits) => FreeAt(h, u)
    PROVE  Slob!Enough(h, n) # {}
<1>1. PageUnits \in Nat \ {0}
  BY SlobAssumption
<1>2. PICK c \in DOMAIN h.next : h.units[c] >= PageUnits
  BY <1>1, OneBlock
<1>3. h.units[c] \in Nat
  BY DEF HeapGood, Gaps
<1>4. h.units[c] >= n
  BY <1>1, <1>2, <1>3
<1> QED BY <1>4, EnoughAt

LEMMA OwnersType ==
    ASSUME NEW m, SmallType(m), NEW q \in Seq(Large)
    PROVE  /\ \A b \in DOMAIN m : b \in Nat /\ m[b] \in Nat \ {0}
           /\ DOMAIN q = 1..Len(q) /\ Len(q) \in Nat
           /\ \A i \in DOMAIN q : q[i] \in Large /\ q[i].bb \in Nat
<1>1. \A b \in DOMAIN m : b \in Nat /\ m[b] \in Nat \ {0}
  BY DEF SmallType
<1>2. DOMAIN q = 1..Len(q) /\ Len(q) \in Nat
  OBVIOUS
<1>3. \A i \in DOMAIN q : q[i] \in Large
  BY <1>2, ElementOfSeq
<1>4. \A i \in DOMAIN q : q[i].bb \in Nat
  BY <1>3 DEF Large
<1> QED BY <1>1, <1>2, <1>3, <1>4

WithSmall(m, b, n) == [c \in DOMAIN m \cup {b} |-> IF c = b THEN n ELSE m[c]]

\* kmalloc hands the units out as a small block.
LEMMA UnitsToSmall ==
    ASSUME NEW h, NEW pg, NEW m, NEW q, NEW b, NEW n, Loose(h, pg, m, q, b, n)
    PROVE  Kept(h, pg, WithSmall(m, b, n), q)
<1> DEFINE k == WithSmall(m, b, n)
<1>1. /\ HeapGood(h) /\ SmallType(m) /\ q \in Seq(Large) /\ OneOwner(h, m, q)
      /\ b \in Nat /\ 2 <= b /\ n \in Nat \ {0, 1}
      /\ \A u \in Nat : /\ SlobUnit(pg, u) <=> \/ FreeAt(h, u) \/ SmallAt(m, u) \/ NoteAt(q, u)
                                               \/ InSpan(u, b, n)
                        /\ InSpan(u, b, n) => ~ FreeAt(h, u) /\ ~ SmallAt(m, u) /\ ~ NoteAt(q, u)
  BY DEF Loose
<1>2. \A c \in DOMAIN m : c \in Nat /\ m[c] \in Nat \ {0}
  BY <1>1, OwnersType
<1>3. b \notin DOMAIN m
  <2> SUFFICES ASSUME b \in DOMAIN m PROVE FALSE
    OBVIOUS
  <2>1. InSpan(b, b, n) /\ InSpan(b, b, m[b])
    BY <1>1, <1>2 DEF InSpan
  <2> QED BY <1>1, <2>1 DEF SmallAt
<1>4. DOMAIN k = DOMAIN m \cup {b} /\ k[b] = n /\ \A c \in DOMAIN m : k[c] = m[c]
  BY <1>3 DEF WithSmall
<1> HIDE DEF k
<1>5. SmallType(k)
  <2>1. IsFiniteSet(DOMAIN k)
    BY <1>1, <1>4, FS_AddElement DEF SmallType
  <2> QED BY <1>1, <1>4, <2>1 DEF SmallType
<1>6. \A u : SmallAt(k, u) <=> SmallAt(m, u) \/ InSpan(u, b, n)
  BY <1>4 DEF SmallAt
<1>7. SmallApart(k)
  <2>1. SmallApart(m)
    BY <1>1 DEF OneOwner
  <2>2. ASSUME NEW c \in DOMAIN m PROVE AwayFrom(b, n, c, m[c]) /\ AwayFrom(c, m[c], b, n)
    <3>1. \A u \in Nat : ~ (InSpan(u, b, n) /\ InSpan(u, c, m[c]))
      BY <1>1 DEF SmallAt
    <3>2. AwayFrom(b, n, c, m[c])
      BY <1>1, <1>2, <3>1, ApartIs
    <3> QED BY <3>2 DEF AwayFrom
  <2> QED BY <1>3, <1>4, <2>1, <2>2 DEF SmallApart
<1>8. OneOwner(h, k, q)
  BY <1>1, <1>6, <1>7 DEF OneOwner
<1>9. \A u \in Nat : SlobUnit(pg, u) <=> FreeAt(h, u) \/ SmallAt(k, u) \/ NoteAt(q, u)
  BY <1>1, <1>6
<1>10. Kept(h, pg, k, q)
  BY <1>1, <1>5, <1>8, <1>9 DEF Kept
<1> QED BY <1>10 DEF k

\* kfree of a small block.
LEMMA SmallToUnits ==
    ASSUME NEW h, NEW pg, NEW m, NEW q, Kept(h, pg, m, q), NEW b \in DOMAIN m
    PROVE  Loose(h, pg, [c \in DOMAIN m \ {b} |-> m[c]], q, b, m[b])
<1> DEFINE k == [c \in DOMAIN m \ {b} |-> m[c]]
           n == m[b]
<1>1. /\ HeapGood(h) /\ SmallType(m) /\ q \in Seq(Large) /\ OneOwner(h, m, q)
      /\ \A u \in Nat : SlobUnit(pg, u) <=> FreeAt(h, u) \/ SmallAt(m, u) \/ NoteAt(q, u)
  BY DEF Kept
<1>2. \A c \in DOMAIN m : c \in Nat /\ m[c] \in Nat \ {0}
  BY <1>1, OwnersType
<1>3. b \in Nat /\ 2 <= b /\ n \in Nat \ {0, 1}
  BY <1>1 DEF SmallType
<1>4. DOMAIN k = DOMAIN m \ {b} /\ \A c \in DOMAIN k : k[c] = m[c]
  OBVIOUS
<1> HIDE DEF k
<1>5. SmallType(k)
  <2>1. IsFiniteSet(DOMAIN k)
    BY <1>1, <1>4, FS_Subset DEF SmallType
  <2> QED BY <1>1, <1>4, <2>1 DEF SmallType
<1>6. \A u : SmallAt(m, u) <=> SmallAt(k, u) \/ InSpan(u, b, n)
  BY <1>4 DEF SmallAt
<1>7. SmallApart(k) /\ SmallApart(m)
  BY <1>1, <1>4 DEF SmallApart, OneOwner
<1>8. ASSUME NEW u \in Nat, InSpan(u, b, n) PROVE ~ SmallAt(k, u)
  <2> SUFFICES ASSUME NEW c \in DOMAIN k, InSpan(u, c, k[c]) PROVE FALSE
    BY DEF SmallAt
  <2>1. c \in DOMAIN m /\ c # b /\ k[c] = m[c]
    BY <1>4
  <2>2. AwayFrom(b, n, c, m[c])
    BY <1>7, <2>1 DEF SmallApart
  <2>3. ~ (InSpan(u, b, n) /\ InSpan(u, c, m[c]))
    BY <1>2, <1>3, <2>1, <2>2, ApartIs, Zenon
  <2> QED BY <1>8, <2>1, <2>3
<1> HIDE DEF n
<1>9. ASSUME NEW u \in Nat
      PROVE  /\ SlobUnit(pg, u) <=> \/ FreeAt(h, u) \/ SmallAt(k, u) \/ NoteAt(q, u)
                                    \/ InSpan(u, b, n)
             /\ InSpan(u, b, n) => ~ FreeAt(h, u) /\ ~ SmallAt(k, u) /\ ~ NoteAt(q, u)
  BY <1>1, <1>6, <1>8 DEF OneOwner
<1>10. OneOwner(h, k, q)
  BY <1>1, <1>6, <1>7 DEF OneOwner
<1>11. Loose(h, pg, k, q, b, n)
  BY <1>1, <1>3, <1>5, <1>9, <1>10 DEF Loose
<1> QED BY <1>11 DEF k, n

LEMMA NoteJoins ==
    ASSUME NEW q \in Seq(Large), NEW r \in Large
    PROVE  /\ <<r>> \o q \in Seq(Large) /\ Len(<<r>> \o q) = Len(q) + 1
           /\ (<<r>> \o q)[1] = r /\ \A i \in 1..Len(q) : (<<r>> \o q)[i + 1] = q[i]
<1>1. <<r>> \in Seq(Large) /\ Len(<<r>>) = 1 /\ <<r>>[1] = r /\ Len(q) \in Nat
  OBVIOUS
<1>2. /\ <<r>> \o q \in Seq(Large) /\ Len(<<r>> \o q) = Len(<<r>>) + Len(q)
      /\ \A i \in 1..(Len(<<r>>) + Len(q)) :
            (<<r>> \o q)[i] = IF i <= Len(<<r>>) THEN <<r>>[i] ELSE q[i - Len(<<r>>)]
  BY <1>1, Joined
<1> DEFINE k == <<r>> \o q
<1>3. \A i \in 1..(1 + Len(q)) : k[i] = IF i <= 1 THEN r ELSE q[i - 1]
  BY <1>1, <1>2
<1>4. Len(k) = Len(q) + 1 /\ k \in Seq(Large)
  BY <1>1, <1>2
<1> HIDE DEF k
<1>5. k[1] = r /\ \A i \in 1..Len(q) : k[i + 1] = q[i]
  <2>1. 1 \in 1..(1 + Len(q)) /\ k[1] = r
    BY <1>1, <1>3
  <2>2. ASSUME NEW i \in 1..Len(q) PROVE k[i + 1] = q[i]
    <3>1. i + 1 \in 1..(1 + Len(q)) /\ ~ (i + 1 <= 1) /\ (i + 1) - 1 = i
      BY <1>1
    <3> QED BY <1>3, <3>1
  <2> QED BY <2>1, <2>2
<1> QED BY <1>4, <1>5 DEF k

\* A large block gets the units for its note.
LEMMA UnitsToNote ==
    ASSUME NEW h, NEW pg, NEW m, NEW q, NEW r \in Large, Loose(h, pg, m, q, r.bb, 2)
    PROVE  Kept(h, pg, m, <<r>> \o q)
<1> DEFINE k == <<r>> \o q
           b == r.bb
<1>1. /\ HeapGood(h) /\ SmallType(m) /\ q \in Seq(Large) /\ OneOwner(h, m, q)
      /\ b \in Nat /\ 2 <= b
      /\ \A u \in Nat : /\ SlobUnit(pg, u) <=> \/ FreeAt(h, u) \/ SmallAt(m, u) \/ NoteAt(q, u)
                                               \/ InSpan(u, b, 2)
                        /\ InSpan(u, b, 2) => ~ FreeAt(h, u) /\ ~ SmallAt(m, u) /\ ~ NoteAt(q, u)
  BY DEF Loose
<1>2. DOMAIN q = 1..Len(q) /\ Len(q) \in Nat /\ \A i \in DOMAIN q : q[i].bb \in Nat
  BY <1>1, OwnersType
<1>3. k \in Seq(Large) /\ Len(k) = Len(q) + 1 /\ k[1] = r /\ \A i \in 1..Len(q) : k[i + 1] = q[i]
  BY <1>1, NoteJoins
<1> HIDE DEF k
<1>4. DOMAIN k = 1..(Len(q) + 1)
  BY <1>3
<1>5. \A i \in DOMAIN k : i = 1 \/ \E j \in DOMAIN q : i = j + 1
  <2>1. \A i \in DOMAIN k : i # 1 => i - 1 \in DOMAIN q /\ i = (i - 1) + 1
    BY <1>2, <1>4
  <2> QED BY <2>1
<1>6. \A u : NoteAt(k, u) <=> NoteAt(q, u) \/ InSpan(u, b, 2)
  <2> SUFFICES ASSUME NEW u PROVE NoteAt(k, u) <=> NoteAt(q, u) \/ InSpan(u, b, 2)
    OBVIOUS
  <2>1. NoteAt(k, u) => NoteAt(q, u) \/ InSpan(u, b, 2)
    BY <1>2, <1>3, <1>5 DEF NoteAt
  <2>2. NoteAt(q, u) => NoteAt(k, u)
    <3> SUFFICES ASSUME NEW i \in DOMAIN q, InSpan(u, q[i].bb, 2) PROVE NoteAt(k, u)
      BY DEF NoteAt
    <3>1. i + 1 \in DOMAIN k /\ k[i + 1] = q[i]
      BY <1>2, <1>3, <1>4
    <3> QED BY <3>1 DEF NoteAt
  <2>3. InSpan(u, b, 2) => NoteAt(k, u)
    BY <1>2, <1>3, <1>4 DEF NoteAt
  <2> QED BY <2>1, <2>2, <2>3
<1>7. NotesApart(k)
  <2>1. \A i, j \in DOMAIN q : i # j => AwayFrom(q[i].bb, 2, q[j].bb, 2)
    BY <1>1 DEF OneOwner, NotesApart
  <2>2. ASSUME NEW j \in DOMAIN q
        PROVE  AwayFrom(b, 2, q[j].bb, 2) /\ AwayFrom(q[j].bb, 2, b, 2)
    <3>1. \A u \in Nat : ~ (InSpan(u, b, 2) /\ InSpan(u, q[j].bb, 2))
      BY <1>1 DEF NoteAt
    <3>2. AwayFrom(b, 2, q[j].bb, 2)
      BY <1>1, <1>2, <3>1, ApartIs
    <3> QED BY <3>2 DEF AwayFrom
  <2>3. ASSUME NEW i \in DOMAIN k, NEW j \in DOMAIN k, i # j
        PROVE  AwayFrom(k[i].bb, 2, k[j].bb, 2)
    <3>1. CASE i = 1
      <4>1. PICK t \in DOMAIN q : j = t + 1
        BY <1>5, <2>3, <3>1
      <4>2. k[j] = q[t]
        BY <1>2, <1>3, <4>1
      <4> QED BY <1>3, <2>2, <3>1, <4>2
    <3>2. CASE j = 1
      <4>1. PICK t \in DOMAIN q : i = t + 1
        BY <1>5, <2>3, <3>2
      <4>2. k[i] = q[t]
        BY <1>2, <1>3, <4>1
      <4> QED BY <1>3, <2>2, <3>2, <4>2
    <3>3. CASE i # 1 /\ j # 1
      <4>1. PICK s \in DOMAIN q : i = s + 1
        BY <1>5, <3>3
      <4>2. PICK t \in DOMAIN q : j = t + 1
        BY <1>5, <3>3
      <4>3. k[i] = q[s] /\ k[j] = q[t] /\ s # t
        BY <1>2, <1>3, <2>3, <4>1, <4>2
      <4> QED BY <2>1, <4>3
    <3> QED BY <3>1, <3>2, <3>3
  <2> QED BY <2>3 DEF NotesApart
<1>8. OneOwner(h, m, k)
  BY <1>1, <1>6, <1>7 DEF OneOwner
<1>9. \A u \in Nat : SlobUnit(pg, u) <=> FreeAt(h, u) \/ SmallAt(m, u) \/ NoteAt(k, u)
  BY <1>1, <1>6
<1>10. Kept(h, pg, m, k)
  BY <1>1, <1>3, <1>8, <1>9 DEF Kept
<1> QED BY <1>10 DEF k

LEMMA NoteTaken ==
    ASSUME NEW q \in Seq(Large), NEW i \in 1..Len(q)
    PROVE  LET k == Slob!RemoveAt(q, i)
           IN  /\ k \in Seq(Large) /\ DOMAIN k = 1..(Len(q) - 1)
               /\ \A j \in 1..(Len(q) - 1) : k[j] = IF j < i THEN q[j] ELSE q[j + 1]
<1>1. Slob!RemoveAt(q, i) = TakenOut(q, i)
  BY DEF Slob!RemoveAt, TakenOut
<1>2. /\ TakenOut(q, i) \in Seq(Large) /\ Len(TakenOut(q, i)) = Len(q) - 1
      /\ \A j \in 1..(Len(q) - 1) : TakenOut(q, i)[j] = IF j < i THEN q[j] ELSE q[j + 1]
  BY TakenOutProperties
<1>3. DOMAIN TakenOut(q, i) = 1..Len(TakenOut(q, i))
  BY <1>2
<1> QED BY <1>1, <1>2, <1>3

\* kfree of a large block.
LEMMA NoteToUnits ==
    ASSUME NEW h, NEW pg, NEW m, NEW q, Kept(h, pg, m, q), NEW i \in DOMAIN q
    PROVE  Loose(h, pg, m, Slob!RemoveAt(q, i), q[i].bb, 2)
<1> DEFINE k == Slob!RemoveAt(q, i)
           b == q[i].bb
<1>1. /\ HeapGood(h) /\ SmallType(m) /\ q \in Seq(Large) /\ OneOwner(h, m, q)
      /\ \A u \in Nat : SlobUnit(pg, u) <=> FreeAt(h, u) \/ SmallAt(m, u) \/ NoteAt(q, u)
  BY DEF Kept
<1>2. /\ DOMAIN q = 1..Len(q) /\ Len(q) \in Nat
      /\ \A j \in DOMAIN q : q[j].bb \in Nat /\ q[j] \in Large
  BY <1>1, OwnersType
<1>3. b \in Nat /\ 2 <= b
  BY <1>2 DEF Large
<1>4. /\ k \in Seq(Large) /\ DOMAIN k = 1..(Len(q) - 1)
      /\ \A j \in 1..(Len(q) - 1) : k[j] = IF j < i THEN q[j] ELSE q[j + 1]
  BY <1>1, <1>2, NoteTaken
<1> HIDE DEF k
\* The place in q of the j-th note of k.
<1> DEFINE was(j) == IF j < i THEN j ELSE j + 1
<1>5. \A j \in DOMAIN k : was(j) \in DOMAIN q /\ was(j) # i /\ k[j] = q[was(j)]
  BY <1>2, <1>4
<1>6. \A s, t \in DOMAIN k : s # t => was(s) # was(t)
  BY <1>2, <1>4
<1>7. \A t \in DOMAIN q : t # i => \E j \in DOMAIN k : t = was(j)
  <2> SUFFICES ASSUME NEW t \in DOMAIN q, t # i PROVE \E j \in DOMAIN k : t = was(j)
    OBVIOUS
  <2>1. CASE t < i
    <3>1. t \in DOMAIN k /\ was(t) = t
      BY <1>2, <1>4, <2>1
    <3> QED BY <3>1
  <2>2. CASE t > i
    <3>1. t - 1 \in DOMAIN k /\ was(t - 1) = t
      BY <1>2, <1>4, <2>2
    <3> QED BY <3>1
  <2> QED BY <1>2, <2>1, <2>2
<1> HIDE DEF was
<1>8. \A u : NoteAt(q, u) <=> NoteAt(k, u) \/ InSpan(u, b, 2)
  <2> SUFFICES ASSUME NEW u PROVE NoteAt(q, u) <=> NoteAt(k, u) \/ InSpan(u, b, 2)
    OBVIOUS
  <2>1. NoteAt(q, u) => NoteAt(k, u) \/ InSpan(u, b, 2)
    <3> SUFFICES ASSUME NEW t \in DOMAIN q, InSpan(u, q[t].bb, 2), t # i PROVE NoteAt(k, u)
      BY DEF NoteAt
    <3>1. PICK j \in DOMAIN k : t = was(j)
      BY <1>7
    <3> QED BY <1>5, <3>1 DEF NoteAt
  <2>2. NoteAt(k, u) => NoteAt(q, u)
    BY <1>5 DEF NoteAt
  <2>3. InSpan(u, b, 2) => NoteAt(q, u)
    BY DEF NoteAt
  <2> QED BY <2>1, <2>2, <2>3
<1>9. NotesApart(q)
  BY <1>1 DEF OneOwner
<1>10. NotesApart(k)
  BY <1>5, <1>6, <1>9 DEF NotesApart
<1>11. ASSUME NEW u \in Nat, InSpan(u, b, 2) PROVE ~ NoteAt(k, u)
  <2> SUFFICES ASSUME NEW j \in DOMAIN k, InSpan(u, k[j].bb, 2) PROVE FALSE
    BY DEF NoteAt
  <2>1. was(j) \in DOMAIN q /\ was(j) # i /\ k[j] = q[was(j)]
    BY <1>5
  <2>2. AwayFrom(b, 2, q[was(j)].bb, 2)
    BY <1>9, <2>1 DEF NotesApart
  <2>3. ~ (InSpan(u, b, 2) /\ InSpan(u, q[was(j)].bb, 2))
    BY <1>2, <1>3, <2>1, <2>2, ApartIs
  <2> QED BY <1>11, <2>1, <2>3
<1> HIDE DEF b
<1>12. ASSUME NEW u \in Nat
       PROVE  /\ SlobUnit(pg, u) <=> \/ FreeAt(h, u) \/ SmallAt(m, u) \/ NoteAt(k, u)
                                     \/ InSpan(u, b, 2)
              /\ InSpan(u, b, 2) => ~ FreeAt(h, u) /\ ~ SmallAt(m, u) /\ ~ NoteAt(k, u)
  BY <1>1, <1>8, <1>11 DEF OneOwner
<1>13. OneOwner(h, m, k)
  BY <1>1, <1>8, <1>10 DEF OneOwner
<1>14. Loose(h, pg, m, k, b, 2)
  BY <1>1, <1>3, <1>4, <1>12, <1>13 DEF Loose
<1> QED BY <1>14 DEF k, b

\* Large blocks have pages of their own.
LargeApart(pg, q) ==
    /\ \A i, j \in DOMAIN q : i # j => Slob!Pages(q[i]) \cap Slob!Pages(q[j]) = {}
    /\ \A i \in DOMAIN q : Slob!Pages(q[i]) \cap pg = {}

SlobState(h, pg, m, q) == Kept(h, pg, m, q) /\ pg \in SUBSET Slob!Page /\ LargeApart(pg, q)
SlobInv == running = "kmalloc" => SlobState(heap, slobs, small, bigblocks)

LEMMA FirstOfRun ==
    ASSUME NEW r \in Large
    PROVE  r.pages \in Slob!Pages(r) /\ r.pages \in Nat /\ r.pages \in Slob!Page
<1>1. r.order \in Orders /\ r.pages \in Slob!Page
  BY DEF Large
<1>2. 2^(r.order) \in Nat \ {0}
  BY <1>1, SlobAssumption, Zenon
<1>3. r.pages \in Nat
  BY <1>1, PageSpans, Zenon
<1> DEFINE n == 2^(r.order)
<1>4. r.pages \in r.pages..(r.pages + n - 1)
  <2> HIDE DEF n
  <2>1. n \in Nat \ {0}
    BY <1>2 DEF n
  <2> QED BY <1>3, <2>1
<1>5. Slob!Pages(r) = r.pages..(r.pages + n - 1)
  BY DEF Slob!Pages, Slob!Run
<1> QED BY <1>1, <1>3, <1>4, <1>5

LEMMA FreePage ==
    ASSUME NEW p, p \in Slob!FreePages
    PROVE  /\ p \in Slob!Page /\ p \notin slobs
           /\ \A i \in DOMAIN bigblocks : p \notin Slob!Pages(bigblocks[i])
BY DEF Slob!FreePages, Slob!Range

\* slob_alloc takes units that are free, from a new page if there is none.
LEMMA UnitsTaken ==
    ASSUME SlobState(heap, slobs, small, bigblocks),
           NEW n \in Nat \ {0, 1}, n <= PageUnits, NEW got \in Slob!slob_alloc(n)
    PROVE  /\ Loose(got.cut.heap, got.slobs, small, bigblocks, got.cut.block, n)
           /\ got.slobs \in SUBSET Slob!Page /\ LargeApart(got.slobs, bigblocks)
<1>1. Kept(heap, slobs, small, bigblocks) /\ slobs \in SUBSET Slob!Page
      /\ LargeApart(slobs, bigblocks)
  BY DEF SlobState
<1>2. CASE Slob!Enough(heap, n) # {}
  <2>1. got.cut = Slob!Cut(heap, n) /\ got.slobs = slobs
    BY <1>2 DEF Slob!slob_alloc
  <2>2. Loose(got.cut.heap, slobs, small, bigblocks, got.cut.block, n)
    BY <1>1, <1>2, <2>1, UnitsCut
  <2> QED BY <1>1, <2>1, <2>2
<1>3. CASE Slob!Enough(heap, n) = {}
  <2>1. PICK p \in Slob!FreePages :
             /\ got.cut = Slob!Cut(Slob!slob_free(heap, Slob!First(p), PageUnits), n)
             /\ got.slobs = slobs \cup {p}
    BY <1>3 DEF Slob!slob_alloc
  <2>2. /\ p \in Slob!Page /\ p \notin slobs
        /\ \A i \in DOMAIN bigblocks : p \notin Slob!Pages(bigblocks[i])
    BY <2>1, FreePage
  <2> DEFINE pg == slobs \cup {p}
             b == Slob!First(p)
             g == Slob!slob_free(heap, b, PageUnits)
  <2>3. Loose(heap, pg, small, bigblocks, b, PageUnits)
    BY <1>1, <2>2, NewPage
  <2>4. Kept(g, pg, small, bigblocks)
    <3> HIDE DEF pg, b
    <3> QED BY <2>3, UnitsGivenBack
  <2>5. HeapGood(heap) /\ b \in Nat /\ 2 <= b /\ PageUnits \in Nat \ {0}
    <3>1. HeapGood(heap)
      BY <1>1 DEF Kept
    <3>2. p \in Nat
      BY <2>2, PageSpans
    <3> QED BY <3>1, <3>2, PageSpans
  <2>6. Slob!Enough(g, n) # {}
    <3>1. ClearOf(DOMAIN heap.next, heap.units, b, PageUnits)
      <4>1. \A u \in Nat : ~ (InSpan(u, b, PageUnits) /\ FreeAt(heap, u))
        BY <2>3 DEF Loose
      <4> HIDE DEF b
      <4> QED BY <2>5, <4>1, ClearWhenApart
    <3>2. /\ HeapGood(g)
          /\ \A u \in Nat : FreeAt(g, u) <=> FreeAt(heap, u) \/ (b <= u /\ u < b + PageUnits)
      <4> HIDE DEF b
      <4> QED BY <2>5, <3>1, BlockFreed
    <3>3. \A u \in Nat : InSpan(u, b, PageUnits) => FreeAt(g, u)
      <4> HIDE DEF b, g
      <4> QED BY <3>2 DEF InSpan
    <3> HIDE DEF b, g
    <3> QED BY <2>5, <3>2, <3>3, RoomInPage
  <2>7. Loose(got.cut.heap, pg, small, bigblocks, got.cut.block, n)
    <3> HIDE DEF pg
    <3>1. got.cut = Slob!Cut(g, n)
      BY <2>1
    <3> HIDE DEF b, g
    <3> QED BY <2>4, <2>6, <3>1, UnitsCut
  <2>8. LargeApart(pg, bigblocks)
    BY <1>1, <2>2 DEF LargeApart
  <2>9. pg \in SUBSET Slob!Page
    BY <1>1, <2>2
  <2> QED BY <2>1, <2>7, <2>8, <2>9
<1> QED BY <1>2, <1>3

LEMMA SmallKept ==
    ASSUME SlobState(heap, slobs, small, bigblocks), NEW n \in 2..(PageUnits - 1), Slob!kmalloc(n)
    PROVE  SlobState(heap, slobs, small, bigblocks)'
<1>1. n \in Nat \ {0, 1} /\ n <= PageUnits
  BY SlobAssumption
<1>2. PICK got \in Slob!slob_alloc(n) :
           /\ heap' = got.cut.heap /\ slobs' = got.slobs
           /\ small' = [b \in DOMAIN small \cup {got.cut.block} |->
                           IF b = got.cut.block THEN n ELSE small[b]]
           /\ bigblocks' = bigblocks
  BY DEF Slob!kmalloc
<1>3. /\ Loose(got.cut.heap, got.slobs, small, bigblocks, got.cut.block, n)
      /\ got.slobs \in SUBSET Slob!Page /\ LargeApart(got.slobs, bigblocks)
  BY <1>1, UnitsTaken
<1>4. Kept(heap', slobs', small', bigblocks')
  <2> DEFINE x == got.cut.block
             m == WithSmall(small, x, n)
  <2>1. Kept(got.cut.heap, got.slobs, m, bigblocks)
    <3>1. Loose(got.cut.heap, got.slobs, small, bigblocks, x, n)
      BY <1>3
    <3> HIDE DEF x
    <3> QED BY <3>1, UnitsToSmall
  <2>2. small' = m
    BY <1>2 DEF WithSmall
  <2> HIDE DEF m
  <2> QED BY <1>2, <2>1, <2>2
<1> QED BY <1>2, <1>3, <1>4 DEF SlobState

LEMMA LargeKept ==
    ASSUME SlobState(heap, slobs, small, bigblocks), NEW order \in Orders,
           Slob!kmalloc_pages(order)
    PROVE  SlobState(heap, slobs, small, bigblocks)'
<1>1. 2 \in Nat \ {0, 1} /\ 2 <= PageUnits /\ Slob!BigUnits = 2
  BY SlobAssumption DEF Slob!BigUnits
<1>2. PICK got \in Slob!slob_alloc(2) :
        /\ slobs' = got.slobs /\ small' = small
        /\ \/ /\ heap' = got.cut.heap
              /\ \E page \in Slob!Page :
                    /\ Slob!Run(page, order) \subseteq Slob!FreePages \ got.slobs
                    /\ bigblocks' =
                         <<[order |-> order, pages |-> page, bb |-> got.cut.block]>> \o bigblocks
           \/ /\ heap' = Slob!slob_free(got.cut.heap, got.cut.block, 2)
              /\ bigblocks' = bigblocks
  BY <1>1, Zenon DEF Slob!kmalloc_pages
<1>3. /\ Loose(got.cut.heap, got.slobs, small, bigblocks, got.cut.block, 2)
      /\ got.slobs \in SUBSET Slob!Page /\ LargeApart(got.slobs, bigblocks)
  BY <1>1, UnitsTaken
<1>4. CASE /\ heap' = got.cut.heap
           /\ \E page \in Slob!Page :
                 /\ Slob!Run(page, order) \subseteq Slob!FreePages \ got.slobs
                 /\ bigblocks' =
                      <<[order |-> order, pages |-> page, bb |-> got.cut.block]>> \o bigblocks
  <2>1. PICK page \in Slob!Page :
             /\ Slob!Run(page, order) \subseteq Slob!FreePages \ got.slobs
             /\ bigblocks' =
                  <<[order |-> order, pages |-> page, bb |-> got.cut.block]>> \o bigblocks
    BY <1>4
  <2> DEFINE r == [order |-> order, pages |-> page, bb |-> got.cut.block]
             q == bigblocks
             k == <<r>> \o q
  <2>2. r \in Large /\ r.bb = got.cut.block /\ Slob!Pages(r) = Slob!Run(page, order)
    <3>1. got.cut.block \in Nat /\ 2 <= got.cut.block
      BY <1>3 DEF Loose
    <3>2. r \in Large
      BY <3>1 DEF Large
    <3> QED BY <3>2 DEF Slob!Pages
  <2>3. q \in Seq(Large) /\ DOMAIN q = 1..Len(q) /\ Len(q) \in Nat
    BY <1>3 DEF Loose
  <2> HIDE DEF r
  <2>4. Kept(got.cut.heap, got.slobs, small, k)
    BY <1>3, <2>2, UnitsToNote
  <2>5. k \in Seq(Large) /\ Len(k) = Len(q) + 1 /\ k[1] = r /\ \A i \in 1..Len(q) : k[i + 1] = q[i]
    BY <2>2, <2>3, NoteJoins
  <2> HIDE DEF k
  <2>6. DOMAIN k = 1..(Len(q) + 1)
    BY <2>5
  <2>7. \A i \in DOMAIN k : i = 1 \/ \E j \in DOMAIN q : i = j + 1 /\ k[i] = q[j]
    <3> SUFFICES ASSUME NEW i \in DOMAIN k, i # 1
                 PROVE  \E j \in DOMAIN q : i = j + 1 /\ k[i] = q[j]
      OBVIOUS
    <3>1. i - 1 \in DOMAIN q /\ i = (i - 1) + 1
      BY <2>3, <2>6
    <3>2. k[(i - 1) + 1] = q[i - 1]
      BY <2>3, <2>5, <3>1
    <3> QED BY <3>1, <3>2
  <2>8. \A j \in DOMAIN q : Slob!Pages(r) \cap Slob!Pages(q[j]) = {}
    BY <2>1, <2>2, FreePage
  <2>9. Slob!Pages(r) \cap got.slobs = {}
    BY <2>1, <2>2
  <2>10. LargeApart(got.slobs, k)
    <3>1. ASSUME NEW i \in DOMAIN k PROVE Slob!Pages(k[i]) \cap got.slobs = {}
      BY <1>3, <2>5, <2>7, <2>9 DEF LargeApart
    <3>2. ASSUME NEW i \in DOMAIN k, NEW j \in DOMAIN k, i # j
          PROVE  Slob!Pages(k[i]) \cap Slob!Pages(k[j]) = {}
      <4>1. CASE i = 1
        <5>1. PICK t \in DOMAIN q : k[j] = q[t]
          BY <2>7, <3>2, <4>1
        <5> QED BY <2>5, <2>8, <4>1, <5>1
      <4>2. CASE j = 1
        <5>1. PICK t \in DOMAIN q : k[i] = q[t]
          BY <2>7, <3>2, <4>2
        <5> QED BY <2>5, <2>8, <4>2, <5>1
      <4>3. CASE i # 1 /\ j # 1
        <5>1. PICK s \in DOMAIN q : i = s + 1 /\ k[i] = q[s]
          BY <2>7, <4>3
        <5>2. PICK t \in DOMAIN q : j = t + 1 /\ k[j] = q[t]
          BY <2>7, <4>3
        <5>3. s # t
          BY <3>2, <5>1, <5>2
        <5> QED BY <1>3, <5>1, <5>2, <5>3 DEF LargeApart
      <4> QED BY <4>1, <4>2, <4>3
    <3> QED BY <3>1, <3>2 DEF LargeApart
  <2>11. bigblocks' = k
    BY <2>1 DEF k, r
  <2> QED BY <1>2, <1>3, <1>4, <2>4, <2>10, <2>11, Zenon DEF SlobState
<1>5. CASE /\ heap' = Slob!slob_free(got.cut.heap, got.cut.block, 2)
           /\ bigblocks' = bigblocks
  <2>1. Kept(heap', slobs', small', bigblocks')
    BY <1>2, <1>3, <1>5, UnitsGivenBack
  <2> QED BY <1>2, <1>3, <1>5, <2>1 DEF SlobState
<1> QED BY <1>2, <1>4, <1>5, Zenon

\* An address in a small block is no large block's, even at the beginning of a page.
LEMMA SmallNotNoted ==
    ASSUME SlobState(heap, slobs, small, bigblocks), NEW b \in DOMAIN small
    PROVE  Slob!Noted(b + 1) = {}
<1>1. Kept(heap, slobs, small, bigblocks) /\ slobs \in SUBSET Slob!Page
      /\ LargeApart(slobs, bigblocks)
  BY DEF SlobState
<1>2. SmallType(small) /\ bigblocks \in Seq(Large)
  BY <1>1 DEF Kept
<1>3. b \in Nat /\ small[b] \in Nat \ {0, 1}
  BY <1>2 DEF SmallType
<1>4. SlobUnit(slobs, b + 1)
  <2>1. InSpan(b + 1, b, small[b])
    BY <1>3 DEF InSpan
  <2>2. SmallAt(small, b + 1)
    BY <2>1 DEF SmallAt
  <2> QED BY <1>1, <1>3, <2>2 DEF Kept
<1>5. PICK p \in slobs : InSpan(b + 1, Slob!First(p), PageUnits)
  BY <1>3, <1>4 DEF SlobUnit
<1>6. p \in Nat /\ Slob!First(p) \in Nat /\ PageUnits \in Nat \ {0}
  BY <1>1, PageSpans
<1>7. ASSUME NEW i \in DOMAIN bigblocks, Slob!First(bigblocks[i].pages) = b + 1 PROVE FALSE
  <2> DEFINE r == bigblocks[i]
  <2>1. r \in Large
    BY <1>2, OwnersType
  <2>2. r.pages \in Slob!Pages(r) /\ r.pages \in Nat
    BY <2>1, FirstOfRun
  <2>3. r.pages # p
    BY <1>1, <2>2 DEF LargeApart
  <2>4. AwayFrom(Slob!First(r.pages), PageUnits, Slob!First(p), PageUnits)
    BY <1>6, <2>2, <2>3, PageSpans
  <2> QED BY <1>3, <1>5, <1>6, <1>7, <2>4 DEF AwayFrom, InSpan
<1> QED BY <1>7 DEF Slob!Noted

LEMMA SmallFreed ==
    ASSUME SlobState(heap, slobs, small, bigblocks), NEW b \in DOMAIN small, Slob!kfree(b + 1)
    PROVE  SlobState(heap, slobs, small, bigblocks)'
<1>1. Kept(heap, slobs, small, bigblocks) /\ slobs \in SUBSET Slob!Page
      /\ LargeApart(slobs, bigblocks)
  BY DEF SlobState
<1>2. b \in Nat /\ (b + 1) - 1 = b
  BY <1>1 DEF Kept, SmallType
<1>3. /\ heap' = Slob!slob_free(heap, b, small[b])
      /\ small' = [c \in DOMAIN small \ {b} |-> small[c]]
      /\ slobs' = slobs /\ bigblocks' = bigblocks
  <2>1. Slob!Noted(b + 1) = {}
    BY SmallNotNoted
  <2> QED BY <1>2, <2>1, Zenon DEF Slob!kfree
<1>4. Loose(heap, slobs, small', bigblocks, b, small[b])
  BY <1>1, <1>3, SmallToUnits
<1>5. Kept(heap', slobs', small', bigblocks')
  BY <1>3, <1>4, UnitsGivenBack
<1> QED BY <1>1, <1>3, <1>5 DEF SlobState

LEMMA LargeFreed ==
    ASSUME SlobState(heap, slobs, small, bigblocks), NEW t \in DOMAIN bigblocks,
           Slob!kfree(Slob!First(bigblocks[t].pages))
    PROVE  SlobState(heap, slobs, small, bigblocks)'
<1> DEFINE q == bigblocks
           I == Slob!Noted(Slob!First(q[t].pages))
           i == Slob!Min(I)
<1>1. Kept(heap, slobs, small, q) /\ slobs \in SUBSET Slob!Page /\ LargeApart(slobs, q)
  BY DEF SlobState
<1>2. DOMAIN q = 1..Len(q) /\ Len(q) \in Nat /\ q \in Seq(Large)
  BY <1>1 DEF Kept
<1>3. t \in I /\ I \in SUBSET (1..Len(q))
  BY <1>2 DEF Slob!Noted
<1>4. i \in DOMAIN q
  <2>1. I \in SUBSET Nat /\ I # {}
    BY <1>2, <1>3
  <2>2. i \in I
    <3> HIDE DEF I
    <3> QED BY <2>1, LeastPlace
  <2> QED BY <1>2, <1>3, <2>2
<1>5. /\ bigblocks' = Slob!RemoveAt(q, i)
      /\ heap' = Slob!slob_free(heap, q[i].bb, 2)
      /\ slobs' = slobs /\ small' = small
  <2>1. I # {}
    BY <1>3
  <2> QED BY <2>1 DEF Slob!kfree, Slob!BigUnits
<1> HIDE DEF i, I
<1>6. Loose(heap, slobs, small, bigblocks', q[i].bb, 2)
  BY <1>1, <1>4, <1>5, NoteToUnits
<1>7. Kept(heap', slobs', small', bigblocks')
  BY <1>5, <1>6, UnitsGivenBack
<1>8. LargeApart(slobs, bigblocks')
  <2> DEFINE k == Slob!RemoveAt(q, i)
  <2>1. /\ DOMAIN k = 1..(Len(q) - 1)
        /\ \A j \in 1..(Len(q) - 1) : k[j] = IF j < i THEN q[j] ELSE q[j + 1]
    BY <1>2, <1>4, NoteTaken
  <2> HIDE DEF k
  <2>2. \A j \in DOMAIN k : \E o \in DOMAIN q : k[j] = q[o] /\ o = IF j < i THEN j ELSE j + 1
    BY <1>2, <1>4, <2>1
  <2>3. ASSUME NEW j \in DOMAIN k PROVE Slob!Pages(k[j]) \cap slobs = {}
    BY <1>1, <2>2 DEF LargeApart
  <2>4. ASSUME NEW j \in DOMAIN k, NEW s \in DOMAIN k, j # s
        PROVE  Slob!Pages(k[j]) \cap Slob!Pages(k[s]) = {}
    <3>1. PICK o \in DOMAIN q : k[j] = q[o] /\ o = IF j < i THEN j ELSE j + 1
      BY <2>2
    <3>2. PICK v \in DOMAIN q : k[s] = q[v] /\ v = IF s < i THEN s ELSE s + 1
      BY <2>2
    <3>3. o # v
      BY <1>2, <1>4, <2>1, <2>4, <3>1, <3>2
    <3> QED BY <1>1, <3>1, <3>2, <3>3 DEF LargeApart
  <2>5. LargeApart(slobs, k)
    BY <2>3, <2>4 DEF LargeApart
  <2> QED BY <1>5, <2>5 DEF k
<1> QED BY <1>1, <1>5, <1>7, <1>8 DEF SlobState

LEMMA SameSize ==
    ASSUME NEW I, IsFiniteSet(I), NEW T, NEW f \in [I -> T],
           \A i, j \in I : f[i] = f[j] => i = j, \A t \in T : \E i \in I : f[i] = t
    PROVE  IsFiniteSet(T) /\ Cardinality(T) = Cardinality(I)
<1>1. f \in Bijection(I, T)
  BY DEF Bijection, Injection, Surjection, IsInjective
<1>2. ExistsBijection(I, T)
  BY <1>1 DEF ExistsBijection
<1> QED BY <1>2, FS_Bijection

LEMMA SpanIs ==
    ASSUME NEW b \in Nat, NEW n \in Nat \ {0}
    PROVE  /\ \A u : u \in Slob!Span(b, n) <=> u \in Nat /\ InSpan(u, b, n)
           /\ b \in Slob!Span(b, n)
BY DEF Slob!Span, InSpan

\* Spans that are apart are as many as their beginnings, and have no unit in common.
SpansOf(I, lo, len) == {Slob!Span(lo[i], len[i]) : i \in I}

LEMMA SpansApart ==
    ASSUME NEW I, IsFiniteSet(I), NEW lo \in [I -> Nat], NEW len \in [I -> Nat \ {0}],
           \A i, j \in I : i # j => AwayFrom(lo[i], len[i], lo[j], len[j])
    PROVE  LET T == SpansOf(I, lo, len)
           IN  /\ IsFiniteSet(T) /\ Cardinality(T) = Cardinality(I)
               /\ \A a, b \in T : a # b => a \cap b = {}
               /\ \A a \in T : a # {}
               /\ \A u : u \in UNION T <=> u \in Nat /\ \E i \in I : InSpan(u, lo[i], len[i])
<1> DEFINE f == [i \in I |-> Slob!Span(lo[i], len[i])]
           T == SpansOf(I, lo, len)
<1>1. \A i \in I : lo[i] \in Nat /\ len[i] \in Nat \ {0}
  OBVIOUS
<1>2. \A i \in I : /\ \A u : u \in f[i] <=> u \in Nat /\ InSpan(u, lo[i], len[i])
                   /\ lo[i] \in f[i]
  BY <1>1, SpanIs
<1>3. \A i, j \in I : i # j => f[i] \cap f[j] = {}
  <2> SUFFICES ASSUME NEW i \in I, NEW j \in I, i # j, NEW u \in f[i], u \in f[j] PROVE FALSE
    OBVIOUS
  <2>1. u \in Nat /\ InSpan(u, lo[i], len[i]) /\ InSpan(u, lo[j], len[j])
    BY <1>2
  <2>2. AwayFrom(lo[i], len[i], lo[j], len[j])
    OBVIOUS
  <2> QED BY <1>1, <2>1, <2>2, ApartIs
<1>4. T = {f[i] : i \in I}
  BY DEF SpansOf
<1>5. f \in [I -> T] /\ \A t \in T : \E i \in I : f[i] = t
  BY <1>4
<1> HIDE DEF f, T
<1>6. \A i, j \in I : f[i] = f[j] => i = j
  BY <1>2, <1>3
<1>7. IsFiniteSet(T) /\ Cardinality(T) = Cardinality(I)
  BY <1>5, <1>6, SameSize
<1>8. \A a, b \in T : a # b => a \cap b = {}
  BY <1>3, <1>4
<1>9. \A a \in T : a # {}
  BY <1>2, <1>4
<1>10. \A u : u \in UNION T <=> u \in Nat /\ \E i \in I : InSpan(u, lo[i], len[i])
  BY <1>2, <1>4
<1> QED BY <1>7, <1>8, <1>9, <1>10, Zenon DEF T

LEMMA CircleSound ==
    ASSUME HeapGood(heap)
    PROVE  Slob!CircleExact
<1> DEFINE S == DOMAIN heap.next
           n == Slob!Length(heap)
           w == Slob!Walk(heap)
<1>1. /\ Ring(S, heap.next) /\ DOMAIN heap.units = S /\ Gaps(S, heap.units)
      /\ heap.slobfree \in S
  BY DEF HeapGood
<1>2. /\ S \in SUBSET Nat /\ IsFiniteSet(S) /\ 0 \in S
      /\ \A c \in S : /\ heap.next[c] \in S
                      /\ \/ c < heap.next[c] /\ \A d \in S : d <= c \/ heap.next[c] <= d
                         \/ heap.next[c] = 0 /\ \A d \in S : d <= c
  BY <1>1 DEF Ring
<1>3. n = Cardinality(S) /\ WalkOf(S, heap.next, heap.slobfree, w)
  BY WalkIs
<1> HIDE DEF n, w, S
<1>4. {w[i] : i \in 0..(n - 1)} = S
  BY <1>1, <1>3, WalkCovers
<1>5. Slob!Cardinality({b \in S : heap.next[b] <= b}) = 1
  <2>1. PICK top \in S : \A c \in S : c <= top
    BY <1>2, HighestBlock, Zenon
  <2>2. \A b \in S : b \in Nat /\ heap.next[b] \in Nat
    BY <1>2, Zenon
  <2>3. \A b \in S : heap.next[b] <= b <=> b = top
    <3> SUFFICES ASSUME NEW b \in S PROVE heap.next[b] <= b <=> b = top
      OBVIOUS
    <3>1. heap.next[b] <= b => \A d \in S : d <= b
      BY <1>2, <2>2
    <3>2. heap.next[b] <= b => b = top
      BY <2>1, <2>2, <3>1
    <3>3. heap.next[top] <= top
      BY <1>2, <2>1, Zenon
    <3> QED BY <3>2, <3>3
  <2>4. {b \in S : heap.next[b] <= b} = {top}
    BY <2>3
  <2>5. Cardinality({top}) = 1
    BY FS_Singleton, Zenon
  <2>6. Slob!Cardinality({top}) = Cardinality({top})
    BY DEF Slob!Cardinality, Cardinality
  <2> QED BY <2>4, <2>5, <2>6
<1>6. ASSUME NEW b \in S, NEW c \in S PROVE b + heap.units[b] # c
  <2>1. b \in Nat /\ c \in Nat /\ heap.units[b] \in Nat \ {0}
        /\ (b < c => b + heap.units[b] < c)
    BY <1>1, <1>2 DEF Gaps
  <2> QED BY <2>1
<1>7. /\ Slob!arena \in S /\ heap.slobfree \in S /\ DOMAIN heap.units = S
      /\ \A b \in S : heap.next[b] \in S
      /\ {w[i] : i \in 0..(n - 1)} = S
      /\ Slob!Cardinality({b \in S : heap.next[b] <= b}) = 1
      /\ \A b, c \in S : b + heap.units[b] # c
  BY <1>1, <1>2, <1>4, <1>5, <1>6 DEF Slob!arena
<1> QED BY <1>7 DEF Slob!CircleExact, S, n, w

FreeSpans(h) == {Slob!Span(b, h.units[b]) : b \in DOMAIN h.next}
GivenSpans(m) == {Slob!Span(b, m[b]) : b \in DOMAIN m}
NoteSpans(q) == {Slob!Span(q[i].bb, 2) : i \in DOMAIN q}

\* T is n sets of units, no two of which have one in common.
Spread(T, n) ==
    /\ IsFiniteSet(T) /\ Cardinality(T) = n
    /\ \A a, b \in T : a # b => a \cap b = {}
    /\ \A a \in T : a # {}

LEMMA FreeSpread ==
    ASSUME NEW h, HeapGood(h)
    PROVE  /\ Spread(FreeSpans(h), Cardinality(DOMAIN h.next))
           /\ \A u : u \in UNION FreeSpans(h) <=> u \in Nat /\ FreeAt(h, u)
<1> DEFINE I == DOMAIN h.next
           lo == [b \in I |-> b]
           len == [b \in I |-> h.units[b]]
           T == SpansOf(I, lo, len)
<1>1. I \in SUBSET Nat /\ IsFiniteSet(I)
  BY DEF HeapGood, Ring
<1>2. \A b \in I : h.units[b] \in Nat \ {0} /\ \A c \in I : b < c => b + h.units[b] < c
  BY DEF HeapGood, Gaps
<1> HIDE DEF I
<1>3. lo \in [I -> Nat] /\ len \in [I -> Nat \ {0}]
  BY <1>1, <1>2
<1>4. \A b \in I : lo[b] = b /\ len[b] = h.units[b]
  OBVIOUS
<1> HIDE DEF lo, len
<1>5. ASSUME NEW i \in I, NEW j \in I, i # j PROVE AwayFrom(lo[i], len[i], lo[j], len[j])
  <2>1. i \in Nat /\ j \in Nat /\ h.units[i] \in Nat /\ h.units[j] \in Nat
    BY <1>1, <1>2
  <2>2. i < j => i + h.units[i] < j
    BY <1>2
  <2>3. j < i => j + h.units[j] < i
    BY <1>2
  <2>4. AwayFrom(i, h.units[i], j, h.units[j])
    BY <1>5, <2>1, <2>2, <2>3 DEF AwayFrom
  <2> QED BY <1>4, <2>4
<1>6. /\ IsFiniteSet(T) /\ Cardinality(T) = Cardinality(I)
      /\ \A a, b \in T : a # b => a \cap b = {}
      /\ \A a \in T : a # {}
      /\ \A u : u \in UNION T <=> u \in Nat /\ \E i \in I : InSpan(u, lo[i], len[i])
  BY <1>1, <1>3, <1>5, SpansApart, Zenon
<1>7. T = FreeSpans(h)
  BY <1>4 DEF SpansOf, FreeSpans, I
<1> HIDE DEF T
<1>8. \A u : FreeAt(h, u) <=> \E i \in I : InSpan(u, lo[i], len[i])
  BY <1>4 DEF FreeAt, Covers, InSpan, I
<1>9. Spread(T, Cardinality(I))
  BY <1>6 DEF Spread
<1>10. \A u : u \in UNION T <=> u \in Nat /\ FreeAt(h, u)
  BY <1>6, <1>8
<1> QED BY <1>7, <1>9, <1>10 DEF I

LEMMA GivenSpread ==
    ASSUME NEW m, SmallType(m), SmallApart(m)
    PROVE  /\ Spread(GivenSpans(m), Cardinality(DOMAIN m))
           /\ \A u : u \in UNION GivenSpans(m) <=> u \in Nat /\ SmallAt(m, u)
<1> DEFINE I == DOMAIN m
           lo == [b \in I |-> b]
           len == [b \in I |-> m[b]]
           T == SpansOf(I, lo, len)
<1>1. I \in SUBSET Nat /\ IsFiniteSet(I) /\ \A b \in I : m[b] \in Nat \ {0}
  BY DEF SmallType
<1>2. \A i, j \in I : i # j => AwayFrom(i, m[i], j, m[j])
  BY DEF SmallApart
<1> HIDE DEF I
<1>3. lo \in [I -> Nat] /\ len \in [I -> Nat \ {0}]
  BY <1>1
<1>4. \A b \in I : lo[b] = b /\ len[b] = m[b]
  OBVIOUS
<1> HIDE DEF lo, len
<1>5. \A i, j \in I : i # j => AwayFrom(lo[i], len[i], lo[j], len[j])
  BY <1>2, <1>4
<1>6. /\ IsFiniteSet(T) /\ Cardinality(T) = Cardinality(I)
      /\ \A a, b \in T : a # b => a \cap b = {}
      /\ \A a \in T : a # {}
      /\ \A u : u \in UNION T <=> u \in Nat /\ \E i \in I : InSpan(u, lo[i], len[i])
  BY <1>1, <1>3, <1>5, SpansApart, Zenon
<1>7. T = GivenSpans(m)
  BY <1>4 DEF SpansOf, GivenSpans, I
<1> HIDE DEF T
<1>8. \A u : SmallAt(m, u) <=> \E i \in I : InSpan(u, lo[i], len[i])
  BY <1>4 DEF SmallAt, I
<1>9. Spread(T, Cardinality(I))
  BY <1>6 DEF Spread
<1>10. \A u : u \in UNION T <=> u \in Nat /\ SmallAt(m, u)
  BY <1>6, <1>8
<1> QED BY <1>7, <1>9, <1>10 DEF I

LEMMA NotesSpread ==
    ASSUME NEW q \in Seq(Large), NotesApart(q)
    PROVE  /\ Spread(NoteSpans(q), Len(q))
           /\ \A u : u \in UNION NoteSpans(q) <=> u \in Nat /\ NoteAt(q, u)
<1> DEFINE I == DOMAIN q
           lo == [i \in I |-> q[i].bb]
           len == [i \in I |-> 2]
           T == SpansOf(I, lo, len)
<1>1. I = 1..Len(q) /\ Len(q) \in Nat /\ \A i \in I : q[i].bb \in Nat
  <2>1. \A i \in 1..Len(q) : q[i] \in Large
    BY ElementOfSeq
  <2> QED BY <2>1 DEF Large
<1>2. IsFiniteSet(I) /\ Cardinality(I) = Len(q)
  BY <1>1, FS_Interval
<1>3. \A i, j \in I : i # j => AwayFrom(q[i].bb, 2, q[j].bb, 2)
  BY DEF NotesApart
<1> HIDE DEF I
<1>4. lo \in [I -> Nat] /\ len \in [I -> Nat \ {0}]
  BY <1>1
<1>5. \A i \in I : lo[i] = q[i].bb /\ len[i] = 2
  OBVIOUS
<1> HIDE DEF lo, len
<1>6. \A i, j \in I : i # j => AwayFrom(lo[i], len[i], lo[j], len[j])
  BY <1>3, <1>5
<1>7. /\ IsFiniteSet(T) /\ Cardinality(T) = Cardinality(I)
      /\ \A a, b \in T : a # b => a \cap b = {}
      /\ \A a \in T : a # {}
      /\ \A u : u \in UNION T <=> u \in Nat /\ \E i \in I : InSpan(u, lo[i], len[i])
  BY <1>2, <1>4, <1>6, SpansApart, Zenon
<1>8. T = NoteSpans(q)
  BY <1>5 DEF SpansOf, NoteSpans, I
<1> HIDE DEF T
<1>9. \A u : NoteAt(q, u) <=> \E i \in I : InSpan(u, lo[i], len[i])
  BY <1>5 DEF NoteAt, I
<1>10. Spread(T, Len(q))
  BY <1>2, <1>7 DEF Spread
<1>11. \A u : u \in UNION T <=> u \in Nat /\ NoteAt(q, u)
  BY <1>7, <1>9
<1> QED BY <1>8, <1>10, <1>11

LEMMA SpreadTogether ==
    ASSUME NEW T, NEW n, Spread(T, n), NEW V, NEW k, Spread(V, k),
           \A u : ~ (u \in UNION T /\ u \in UNION V)
    PROVE  Spread(T \cup V, n + k)
<1>1. \A a \in T, b \in V : a \cap b = {}
  <2> SUFFICES ASSUME NEW a \in T, NEW b \in V, NEW u \in a, u \in b PROVE FALSE
    OBVIOUS
  <2>1. u \in UNION T
    OBVIOUS
  <2>2. u \in UNION V
    OBVIOUS
  <2> QED BY <2>1, <2>2
<1>2. T \cap V = {}
  BY <1>1 DEF Spread
<1>3. IsFiniteSet(T \cup V) /\ Cardinality(T \cup V) = n + k
  <2>1. IsFiniteSet(T) /\ IsFiniteSet(V) /\ Cardinality(T) = n /\ Cardinality(V) = k
    BY DEF Spread
  <2>2. n \in Nat /\ k \in Nat /\ Cardinality(T \cap V) = 0
    BY <1>2, <2>1, FS_CardinalityType, FS_EmptySet, Zenon
  <2>3. /\ IsFiniteSet(T \cup V)
        /\ Cardinality(T \cup V) = Cardinality(T) + Cardinality(V) - Cardinality(T \cap V)
    BY <2>1, FS_Union
  <2> QED BY <2>1, <2>2, <2>3
<1>4. \A a, b \in T \cup V : a # b => a \cap b = {}
  BY <1>1 DEF Spread
<1>5. \A a \in T \cup V : a # {}
  BY DEF Spread
<1> QED BY <1>3, <1>4, <1>5 DEF Spread

\* Large blocks and the pages taken for small ones.
RunsOf(q) == {Slob!Pages(q[i]) : i \in DOMAIN q}
Singles(pg) == {{p} : p \in pg}

LEMMA RunsSpread ==
    ASSUME NEW q \in Seq(Large), NEW pg \in SUBSET Slob!Page, LargeApart(pg, q)
    PROVE  Spread(RunsOf(q) \cup Singles(pg), Len(q) + Cardinality(pg))
<1> DEFINE I == DOMAIN q
           f == [i \in I |-> Slob!Pages(q[i])]
           T == RunsOf(q)
           V == Singles(pg)
           g == [p \in pg |-> {p}]
<1>1. I = 1..Len(q) /\ Len(q) \in Nat /\ \A i \in I : f[i] # {}
  <2>1. \A i \in 1..Len(q) : q[i] \in Large
    BY ElementOfSeq
  <2>2. \A i \in 1..Len(q) : Slob!Pages(q[i]) # {}
    BY <2>1, FirstOfRun
  <2> QED BY <2>2
<1>2. IsFiniteSet(I) /\ Cardinality(I) = Len(q)
  BY <1>1, FS_Interval
<1>3. \A i, j \in I : i # j => f[i] \cap f[j] = {}
  BY DEF LargeApart
<1>4. T = {f[i] : i \in I} /\ \A i \in I : f[i] \cap pg = {}
  BY DEF RunsOf, LargeApart
<1> HIDE DEF I, f, T
<1>5. Spread(T, Len(q))
  <2>1. f \in [I -> T] /\ \A t \in T : \E i \in I : f[i] = t
    <3>1. f = [i \in I |-> f[i]]
      BY DEF f
    <3> QED BY <1>4, <3>1
  <2>2. \A i, j \in I : f[i] = f[j] => i = j
    BY <1>1, <1>3
  <2>3. IsFiniteSet(T) /\ Cardinality(T) = Len(q)
    BY <1>2, <2>1, <2>2, SameSize
  <2>4. \A a, b \in T : a # b => a \cap b = {}
    BY <1>3, <1>4
  <2>5. \A a \in T : a # {}
    BY <1>1, <1>4
  <2> QED BY <2>3, <2>4, <2>5 DEF Spread
<1>6. Spread(V, Cardinality(pg))
  <2>1. IsFiniteSet(pg)
    BY PageSpans, FS_Subset, Zenon
  <2>2. g \in [pg -> V] /\ \A t \in V : \E p \in pg : g[p] = t
    BY DEF Singles
  <2>3. \A p, o \in pg : g[p] = g[o] => p = o
    OBVIOUS
  <2>4. IsFiniteSet(V) /\ Cardinality(V) = Cardinality(pg)
    <3> HIDE DEF g, V
    <3> QED BY <2>1, <2>2, <2>3, SameSize
  <2>5. \A a, b \in V : a # b => a \cap b = {}
    BY Zenon DEF Singles
  <2>6. \A a \in V : a # {}
    BY Zenon DEF Singles
  <2> QED BY <2>4, <2>5, <2>6 DEF Spread
<1>7. UNION V = pg
  BY DEF Singles
<1> HIDE DEF V
<1>8. \A u : ~ (u \in UNION T /\ u \in UNION V)
  <2> SUFFICES ASSUME NEW u, u \in UNION T, u \in pg PROVE FALSE
    BY <1>7, Zenon
  <2>1. PICK i \in I : u \in f[i]
    BY <1>4
  <2> QED BY <1>4, <2>1
<1>9. Spread(T \cup V, Len(q) + Cardinality(pg))
  BY <1>5, <1>6, <1>8, SpreadTogether
<1> QED BY <1>9 DEF T, V

LEMMA PagesOfUnits ==
    ASSUME NEW pg \in SUBSET Slob!Page
    PROVE  {0} \cup UNION {Slob!Span(Slob!First(p), PageUnits) : p \in pg}
             = {u \in Nat : SlobUnit(pg, u)}
<1> DEFINE U == UNION {Slob!Span(Slob!First(p), PageUnits) : p \in pg}
<1>1. \A p \in pg : \A u : u \in Slob!Span(Slob!First(p), PageUnits)
                           <=> u \in Nat /\ InSpan(u, Slob!First(p), PageUnits)
  <2> SUFFICES ASSUME NEW p \in pg
               PROVE  \A u : u \in Slob!Span(Slob!First(p), PageUnits)
                             <=> u \in Nat /\ InSpan(u, Slob!First(p), PageUnits)
    OBVIOUS
  <2>1. Slob!First(p) \in Nat /\ PageUnits \in Nat \ {0}
    BY PageSpans
  <2> QED BY <2>1, SpanIs
<1>2. \A u : u \in U <=> u \in Nat /\ \E p \in pg : InSpan(u, Slob!First(p), PageUnits)
  BY <1>1
<1> HIDE DEF U
<1>3. \A u : u \in {0} \cup U <=> u \in Nat /\ SlobUnit(pg, u)
  BY <1>2 DEF SlobUnit
<1>4. {0} \cup U = {u \in Nat : SlobUnit(pg, u)}
  BY <1>3
<1> QED BY <1>4 DEF U

LEMMA UnitsSound ==
    ASSUME SlobState(heap, slobs, small, bigblocks)
    PROVE  Slob!UnitsExact
<1> DEFINE q == bigblocks
           F == FreeSpans(heap)
           G == GivenSpans(small)
           N == NoteSpans(q)
           parts == F \cup G \cup N
           runs == RunsOf(q) \cup Singles(slobs)
<1>1. Kept(heap, slobs, small, q) /\ slobs \in SUBSET Slob!Page /\ LargeApart(slobs, q)
  BY DEF SlobState
<1>2. /\ HeapGood(heap) /\ SmallType(small) /\ q \in Seq(Large) /\ OneOwner(heap, small, q)
      /\ \A u \in Nat : SlobUnit(slobs, u)
                        <=> FreeAt(heap, u) \/ SmallAt(small, u) \/ NoteAt(q, u)
  BY <1>1 DEF Kept
<1>3. /\ SmallApart(small) /\ NotesApart(q)
      /\ \A u \in Nat : /\ ~ (FreeAt(heap, u) /\ SmallAt(small, u))
                        /\ ~ (FreeAt(heap, u) /\ NoteAt(q, u))
                        /\ ~ (SmallAt(small, u) /\ NoteAt(q, u))
  BY <1>2 DEF OneOwner
<1>4. /\ Spread(F, Cardinality(DOMAIN heap.next))
      /\ \A u : u \in UNION F <=> u \in Nat /\ FreeAt(heap, u)
  BY <1>2, FreeSpread
<1>5. /\ Spread(G, Cardinality(DOMAIN small))
      /\ \A u : u \in UNION G <=> u \in Nat /\ SmallAt(small, u)
  BY <1>2, <1>3, GivenSpread
<1>6. Spread(N, Len(q)) /\ \A u : u \in UNION N <=> u \in Nat /\ NoteAt(q, u)
  BY <1>2, <1>3, NotesSpread
<1>7. Spread(runs, Len(q) + Cardinality(slobs))
  BY <1>1, <1>2, RunsSpread
<1>8. {0} \cup UNION {Slob!Span(Slob!First(p), PageUnits) : p \in slobs}
        = {u \in Nat : SlobUnit(slobs, u)}
  BY <1>1, PagesOfUnits, Zenon
<1> HIDE DEF F, G, N
<1>9. Spread(parts, Cardinality(DOMAIN heap.next) + Cardinality(DOMAIN small) + Len(q))
  <2>1. \A u : ~ (u \in UNION F /\ u \in UNION G)
    BY <1>3, <1>4, <1>5
  <2>2. Spread(F \cup G, Cardinality(DOMAIN heap.next) + Cardinality(DOMAIN small))
    BY <1>4, <1>5, <2>1, SpreadTogether
  <2>3. \A u : u \in UNION (F \cup G) => u \in UNION F \/ u \in UNION G
    OBVIOUS
  <2>4. \A u : ~ (u \in UNION F /\ u \in UNION N)
    BY <1>3, <1>4, <1>6
  <2>5. \A u : ~ (u \in UNION G /\ u \in UNION N)
    BY <1>3, <1>5, <1>6
  <2>6. \A u : ~ (u \in UNION (F \cup G) /\ u \in UNION N)
    BY <2>3, <2>4, <2>5
  <2> QED BY <1>6, <2>2, <2>6, SpreadTogether
<1>10. UNION parts = {u \in Nat : SlobUnit(slobs, u)}
  <2>1. \A u : u \in UNION parts <=> u \in UNION F \/ u \in UNION G \/ u \in UNION N
    OBVIOUS
  <2>2. \A u : u \in UNION parts <=> u \in Nat /\ SlobUnit(slobs, u)
    BY <1>2, <1>4, <1>5, <1>6, <2>1, Zenon
  <2> HIDE DEF parts
  <2> QED BY <2>2
<1>11. {Slob!Span(b, heap.units[b]) : b \in DOMAIN heap.next} = F
  BY DEF F, FreeSpans
<1>12. {Slob!Span(b, small[b]) : b \in DOMAIN small} = G
  BY DEF G, GivenSpans
<1>13. {Slob!Span(bb.bb, Slob!BigUnits) : bb \in Slob!Range(q)} = N
  BY DEF N, NoteSpans, Slob!Range, Slob!BigUnits
<1>14. {Slob!Pages(bb) : bb \in Slob!Range(q)} \cup {{page} : page \in slobs} = runs
  BY DEF RunsOf, Singles, Slob!Range
<1>15. \A s : Slob!Cardinality(s) = Cardinality(s)
  BY DEF Slob!Cardinality, Cardinality
<1> HIDE DEF parts, runs
<1>16. /\ UNION parts = {Slob!arena} \cup UNION {Slob!Span(Slob!First(page), PageUnits) : page \in slobs}
       /\ \A a, b \in parts : a # b => a \cap b = {}
       /\ Cardinality(N) = Len(q)
       /\ Cardinality(parts) = Cardinality(DOMAIN heap.next) + Cardinality(DOMAIN small) + Len(q)
       /\ Cardinality(runs) = Len(q) + Cardinality(slobs)
       /\ \A r, s \in runs : r # s => r \cap s = {}
  BY <1>6, <1>7, <1>8, <1>9, <1>10, Zenon DEF Spread, Slob!arena
<1>17. parts = F \cup G \cup N
  BY DEF parts
<1> QED BY <1>11, <1>12, <1>13, <1>14, <1>15, <1>16, <1>17, Zenon DEF Slob!UnitsExact

LEMMA SlobStarts == Slob!HeapInit => SlobState(heap, slobs, small, bigblocks)
<1> SUFFICES ASSUME Slob!HeapInit PROVE SlobState(heap, slobs, small, bigblocks)
  OBVIOUS
<1>1. /\ heap.next = [c \in {0} |-> 0] /\ heap.units = [c \in {0} |-> 1] /\ heap.slobfree = 0
      /\ slobs = {} /\ small = <<>> /\ bigblocks = <<>>
  BY DEF Slob!HeapInit, Slob!arena
<1>2. DOMAIN heap.next = {0} /\ DOMAIN heap.units = {0} /\ heap.next[0] = 0 /\ heap.units[0] = 1
  BY <1>1
<1>3. Ring({0}, heap.next)
  <2>1. IsFiniteSet({0})
    BY FS_Singleton
  <2> QED BY <1>2, <2>1 DEF Ring
<1>4. Gaps({0}, heap.units)
  BY <1>2 DEF Gaps
<1>5. HeapGood(heap)
  BY <1>1, <1>2, <1>3, <1>4 DEF HeapGood
<1>6. \A u \in Nat : FreeAt(heap, u) <=> u = 0
  BY <1>2 DEF FreeAt, Covers
<1>7. DOMAIN small = {} /\ DOMAIN bigblocks = {} /\ bigblocks \in Seq(Large)
  BY <1>1
<1>8. (\A u : ~ SmallAt(small, u)) /\ \A u : ~ NoteAt(bigblocks, u)
  BY <1>7 DEF SmallAt, NoteAt
<1>9. SmallType(small)
  BY <1>7, FS_EmptySet DEF SmallType
<1>10. OneOwner(heap, small, bigblocks)
  BY <1>7, <1>8 DEF OneOwner, SmallApart, NotesApart
<1>11. \A u \in Nat : SlobUnit(slobs, u)
                      <=> FreeAt(heap, u) \/ SmallAt(small, u) \/ NoteAt(bigblocks, u)
  BY <1>1, <1>6, <1>8 DEF SlobUnit
<1>12. Kept(heap, slobs, small, bigblocks)
  BY <1>5, <1>7, <1>9, <1>10, <1>11 DEF Kept
<1>13. LargeApart(slobs, bigblocks)
  BY <1>7 DEF LargeApart
<1> QED BY <1>1, <1>12, <1>13 DEF SlobState

LEMMA SlobKept ==
    ASSUME SlobState(heap, slobs, small, bigblocks), Slob!HeapNext
    PROVE  SlobState(heap, slobs, small, bigblocks)'
<1>1. ASSUME NEW n \in 2..(PageUnits - 1), Slob!kmalloc(n)
      PROVE  SlobState(heap, slobs, small, bigblocks)'
  BY <1>1, SmallKept
<1>2. ASSUME NEW order \in Orders, Slob!kmalloc_pages(order)
      PROVE  SlobState(heap, slobs, small, bigblocks)'
  BY <1>2, LargeKept
<1>3. ASSUME NEW b \in DOMAIN small, Slob!kfree(b + 1)
      PROVE  SlobState(heap, slobs, small, bigblocks)'
  BY <1>3, SmallFreed
<1>4. ASSUME NEW bb \in Slob!Range(bigblocks), Slob!kfree(Slob!First(bb.pages))
      PROVE  SlobState(heap, slobs, small, bigblocks)'
  <2>1. PICK t \in DOMAIN bigblocks : bb = bigblocks[t]
    BY DEF Slob!Range
  <2>2. Slob!kfree(Slob!First(bigblocks[t].pages))
    BY <1>4, <2>1
  <2> QED BY <2>2, LargeFreed
<1> QED BY <1>1, <1>2, <1>3, <1>4 DEF Slob!HeapNext

\* However blocks are taken, cut, freed and joined, in any order and of any sizes,
\* the free blocks are one circle in the order of their addresses, no two of them
\* touch, and each unit of the pages taken for small blocks is free or handed out
\* exactly once; large blocks have pages of their own.
THEOREM SlobSound == ResourcesSpec => []SlobExact
<1>1. ResourcesInit => SlobInv
  BY SlobStarts DEF ResourcesInit, SlobInv
<1>2. SlobInv /\ [ResourcesNext]_managers => SlobInv'
  <2> SUFFICES ASSUME SlobInv, [ResourcesNext]_managers, running' = "kmalloc"
               PROVE  SlobState(heap, slobs, small, bigblocks)'
    BY DEF SlobInv
  <2>1. running = "kmalloc" /\ (Slob!HeapNext \/ UNCHANGED kvars)
    BY DEF ResourcesNext, managers
  <2>2. SlobState(heap, slobs, small, bigblocks)
    BY <2>1 DEF SlobInv
  <2>3. CASE Slob!HeapNext
    BY <2>2, <2>3, SlobKept
  <2>4. CASE UNCHANGED kvars
    BY <2>2, <2>4 DEF kvars
  <2> QED BY <2>1, <2>3, <2>4
<1>3. SlobInv => SlobExact
  <2> SUFFICES ASSUME SlobState(heap, slobs, small, bigblocks) PROVE Slob!SlobExact
    BY DEF SlobInv, SlobExact
  <2>1. HeapGood(heap)
    BY DEF SlobState, Kept
  <2> QED BY <2>1, CircleSound, UnitsSound DEF Slob!SlobExact
<1> QED BY <1>1, <1>2, <1>3, PTL DEF ResourcesSpec

------------------------------------------------------------------------------
(* Page replacement *)

VPage == Swap!VPage
Frame == Swap!Frame
Contents == VPage \cup {Swap!stale}
Mapped == {pte[v] : v \in VPage} \cap Frame

SwapTypes ==
    /\ sm \in {"fifo", "clock", "lru"}
    /\ pte \in [VPage -> 0..(NFrames + 1)]
    /\ mem \in [Frame -> Contents] /\ disk \in [VPage -> Contents]
    /\ pra_vaddr \in [Frame -> VPage] /\ age \in [VPage -> 0..MaxAge]
    /\ pra_list \in Seq(Frame)

\* The list has every mapped frame once; without a victim do_pgfault is at work.
SwapLists ==
    /\ \A i, j \in 1..Len(pra_list) : pra_list[i] = pra_list[j] => i = j
    /\ ToSet(pra_list) = Mapped
    /\ \A v \in VPage : pte[v] \in Frame => pra_vaddr[pte[v]] = v
    /\ curr_ptr \in {0} \cup ToSet(pra_list) /\ (sm # "clock" => curr_ptr = 0)
    /\ lost => (pra_list = <<>> \/ sm = "clock") /\ fault # -1
    /\ fault # -1 => fault \in VPage /\ pte[fault] \notin Frame

SwapInv == SwapTypes /\ SwapLists /\ Swap!ContentsKept

LEMMA SwapNumbers ==
    /\ VPage = 0..(NVirtual - 1) /\ Frame = 1..NFrames /\ NVirtual \in Nat \ {0}
    /\ NFrames \in Nat /\ MaxAge \in Nat
    /\ 0 \in VPage /\ 0 \notin Frame /\ NFrames + 1 \notin Frame /\ -1 \notin VPage
    /\ Swap!swapped = NFrames + 1 /\ Swap!nowhere = 0 /\ Swap!head = 0 /\ Swap!stale = -1
    /\ \A v \in VPage : Swap!Resident(v) <=> pte[v] \in Frame
  BY SwapAssumption DEF VPage, Frame, Swap!VPage, Swap!Frame, Swap!swapped, Swap!nowhere,
     Swap!head, Swap!stale, Swap!Resident

\* default_pmm gives a frame that no page and no page table is in.
LEMMA FrameFree ==
    ASSUME Swap!Free # {}
    PROVE  /\ Swap!First \in Frame /\ \A v \in VPage : pte[v] # Swap!First
<1>1. Swap!Free \subseteq Frame /\ Frame \subseteq Nat
  BY SwapNumbers DEF Swap!Free, Frame
<1>2. \E f \in Swap!Free : \A g \in Swap!Free : f <= g
  <2>1. Swap!Free \subseteq Nat
    BY <1>1
  <2> QED BY <2>1, LeastNatural, Zenon
<1>3. Swap!First \in Swap!Free
  BY <1>2 DEF Swap!First
<1> QED BY <1>1, <1>3 DEF Swap!Free, VPage

\* A frame of the list leaves it, and the others stay in their order.
LEMMA FrameLeaves ==
    ASSUME NEW q \in Seq(Frame), NEW i \in 1..Len(q),
           \A j, k \in 1..Len(q) : q[j] = q[k] => j = k
    PROVE  LET r == Swap!RemoveFirst(q, q[i])
           IN  /\ r \in Seq(Frame) /\ Len(r) = Len(q) - 1 /\ Len(q) \in Nat
               /\ \A j \in 1..(Len(q) - 1) : r[j] = IF j < i THEN q[j] ELSE q[j + 1]
               /\ \A j, k \in 1..Len(r) : r[j] = r[k] => j = k
               /\ ToSet(r) = ToSet(q) \ {q[i]}
<1> DEFINE r == Swap!RemoveFirst(q, q[i])
<1>1. r = RemoveFirst(q, q[i])
  BY DEF Swap!RemoveFirst, Swap!SelectInSeq, Swap!Min, Swap!RemoveAt,
         RemoveFirst, SelectInSeq, Min, RemoveAt
<1>2. r = TakenOut(q, i)
  BY <1>1, FirstTaken
<1>3. Len(q) \in Nat /\ DOMAIN q = 1..Len(q)
  BY LenProperties
<1>4. /\ TakenOut(q, i) \in Seq(Frame) /\ Len(TakenOut(q, i)) = Len(q) - 1
      /\ \A j \in 1..(Len(q) - 1) : TakenOut(q, i)[j] = IF j < i THEN q[j] ELSE q[j + 1]
  BY TakenOutProperties
<1> DEFINE w == RemoveFirst(q, q[i])
<1>5. /\ \A j, k \in DOMAIN w : w[j] = w[k] => j = k
      /\ ToSet(w) = ToSet(q) \ {q[i]}
  BY <1>3, LeavesList
<1> HIDE DEF r, w
<1>6. w = r /\ r \in Seq(Frame)
  BY <1>1, <1>2, <1>4 DEF w
<1>7. DOMAIN r = 1..Len(r)
  BY <1>6, LenProperties
<1>8. /\ Len(r) = Len(q) - 1
      /\ \A j \in 1..(Len(q) - 1) : r[j] = IF j < i THEN q[j] ELSE q[j + 1]
  BY <1>2, <1>4
<1>9. /\ \A j, k \in 1..Len(r) : r[j] = r[k] => j = k
      /\ ToSet(r) = ToSet(q) \ {q[i]}
  BY <1>5, <1>6, <1>7, Zenon
<1> QED BY <1>3, <1>6, <1>8, <1>9, Zenon DEF r

\* What Evict does with a frame of the list.
LEMMA EvictKeeps ==
    ASSUME SwapInv, NEW i \in 1..Len(pra_list), Swap!Evict(pra_list[i]),
           curr_ptr' \in {0} \cup (ToSet(pra_list) \ {pra_list[i]}),
           sm # "clock" => curr_ptr' = 0, ~ lost
    PROVE  SwapInv'
<1> DEFINE f == pra_list[i]
           v == pra_vaddr[f]
           r == Swap!RemoveFirst(pra_list, f)
<1>1. /\ pra_list \in Seq(Frame) /\ f \in Frame /\ f \in ToSet(pra_list)
      /\ \A j, k \in 1..Len(pra_list) : pra_list[j] = pra_list[k] => j = k
  <2>1. f \in Frame /\ f \in ToSet(pra_list)
    BY LenProperties, ElementOfSeq DEF SwapInv, SwapTypes, ToSet
  <2> QED BY <2>1, Zenon DEF SwapInv, SwapTypes, SwapLists
<1>2. /\ r \in Seq(Frame) /\ ToSet(r) = ToSet(pra_list) \ {f}
      /\ \A j, k \in 1..Len(r) : r[j] = r[k] => j = k
  BY <1>1, FrameLeaves, Zenon
<1>3. PICK u \in VPage : pte[u] = f
  BY <1>1 DEF SwapInv, SwapLists, Mapped
<1>4. v = u /\ v \in VPage /\ pte[v] = f /\ mem[f] = v
  BY <1>1, <1>3, SwapNumbers DEF SwapInv, SwapLists, Swap!ContentsKept, VPage
<1> HIDE DEF r, v, f
<1>5. /\ pra_list' = r /\ pte' = [pte EXCEPT ![v] = Swap!swapped]
      /\ disk' = [disk EXCEPT ![v] = mem[f]]
      /\ UNCHANGED <<sm, pra_vaddr, mem, fault, lost, age>>
  BY DEF Swap!Evict, Swap!Stored, r, v, f
<1>6. VPage' = VPage /\ Frame' = Frame /\ Contents' = Contents
  BY DEF VPage, Frame, Contents, Swap!VPage, Swap!Frame, Swap!stale
<1>7. /\ pte' \in [VPage -> 0..(NFrames + 1)]
      /\ \A w \in VPage : pte'[w] = IF w = v THEN NFrames + 1 ELSE pte[w]
  <2>1. pte \in [VPage -> 0..(NFrames + 1)] /\ NFrames + 1 \in 0..(NFrames + 1)
    <3>1. pte \in [VPage -> 0..(NFrames + 1)]
      BY DEF SwapInv, SwapTypes
    <3>2. NFrames \in Nat
      BY SwapNumbers
    <3> QED BY <3>1, <3>2
  <2>2. pte' = [pte EXCEPT ![v] = NFrames + 1]
    BY <1>5, SwapNumbers
  <2> QED BY <1>4, <2>1, <2>2
<1>8. /\ disk' \in [VPage -> Contents]
      /\ \A w \in VPage : disk'[w] = IF w = v THEN v ELSE disk[w]
  BY <1>4, <1>5 DEF SwapInv, SwapTypes, Contents
<1>9. SwapTypes'
  BY <1>2, <1>5, <1>6, <1>7, <1>8, Zenon DEF SwapInv, SwapTypes
<1>10. \A w \in VPage : pte'[w] \in Frame => w # v /\ pte[w] \in Frame /\ pte'[w] = pte[w] /\ pte[w] # f
  <2>1. ASSUME NEW w \in VPage, pte'[w] \in Frame PROVE w # v /\ pte'[w] = pte[w] /\ pte[w] # f
    <3>1. w # v
      BY <1>7, <2>1, SwapNumbers
    <3>2. pte[w] # f
      BY <1>4, <1>1, <3>1 DEF SwapInv, SwapLists, v
    <3> QED BY <1>7, <3>1, <3>2
  <2> QED BY <2>1
<1>11. Mapped' = Mapped \ {f}
  <2>1. Mapped' = {pte'[w] : w \in VPage} \cap Frame
    BY <1>6 DEF Mapped
  <2>2. \A g : g \in Mapped' <=> g \in Frame /\ \E w \in VPage : pte'[w] = g
    BY <2>1
  <2>3. \A g : g \in Mapped <=> g \in Frame /\ \E w \in VPage : pte[w] = g
    BY DEF Mapped
  <2>4. \A g : g \in Mapped' <=> g \in Mapped /\ g # f
    BY <1>4, <1>7, <1>10, <2>2, <2>3
  <2> QED BY <2>4
<1>12. SwapLists'
  <2>1. fault' # -1 => fault' \in VPage /\ pte'[fault'] \notin Frame
    BY <1>5, <1>7, SwapNumbers DEF SwapInv, SwapLists
  <2>2. \A w \in VPage : pte'[w] \in Frame => pra_vaddr'[pte'[w]] = w
    BY <1>5, <1>10 DEF SwapInv, SwapLists
  <2>3. curr_ptr' \in {0} \cup ToSet(pra_list')
    BY <1>2, <1>5 DEF f
  <2>4. ToSet(pra_list') = Mapped'
    BY <1>2, <1>5, <1>11 DEF SwapInv, SwapLists
  <2> QED BY <1>2, <1>5, <1>6, <2>1, <2>2, <2>3, <2>4 DEF SwapLists
<1>13. Swap!ContentsKept'
  <2>1. ASSUME NEW w \in VPage
        PROVE  /\ pte'[w] \in Frame => mem'[pte'[w]] = w
               /\ pte'[w] = NFrames + 1 => disk'[w] = w
    <3>1. pte[w] \in Frame => mem[pte[w]] = w
      BY SwapNumbers DEF SwapInv, Swap!ContentsKept, VPage
    <3>2. pte[w] = NFrames + 1 => disk[w] = w
      BY SwapNumbers DEF SwapInv, Swap!ContentsKept, VPage
    <3> QED BY <1>5, <1>7, <1>8, <1>10, <3>1, <3>2
  <2> QED BY <2>1, SwapNumbers, <1>6 DEF Swap!ContentsKept, VPage, Swap!Resident, Frame,
          Swap!swapped, Swap!VPage, Swap!Frame
<1> QED BY <1>9, <1>12, <1>13 DEF SwapInv

\* The clock comes to frames of the list only, and to one at least.
LEMMA ClockStops ==
    ASSUME SwapInv, curr_ptr # 0
    PROVE  \E i \in 1..Len(pra_list) :
              /\ pra_list[i] = Swap!Circle[Swap!Stop]
              /\ Swap!Newer(Swap!Circle[Swap!Stop]) \in {0} \cup (ToSet(pra_list) \ {pra_list[i]})
<1> DEFINE n == Len(pra_list)
           k == Swap!At(curr_ptr)
           a == SubSeq(pra_list, 1, k)
           b == SubSeq(pra_list, k + 1, n)
           c == Swap!Circle
           e == Swap!Stop
           On(f) == \E i \in 1..n : pra_list[i] = f
<1>0. pra_list \in Seq(Frame)
  BY DEF SwapInv, SwapTypes
<1>1. /\ pra_list \in Seq(Frame) /\ n \in Nat /\ DOMAIN pra_list = 1..n
      /\ \A i, j \in 1..n : pra_list[i] = pra_list[j] => i = j
      /\ \A f : f \in ToSet(pra_list) <=> On(f)
  <2>1. pra_list \in Seq(Frame) /\ \A i, j \in 1..n : pra_list[i] = pra_list[j] => i = j
    BY DEF SwapInv, SwapTypes, SwapLists
  <2>2. n \in Nat /\ DOMAIN pra_list = 1..n
    BY <2>1, LenProperties
  <2>3. \A f : f \in ToSet(pra_list) <=> On(f)
    BY <2>2, Zenon DEF ToSet
  <2> QED BY <2>1, <2>2, <2>3
<1>2. \A f : On(f) => Swap!At(f) \in 1..n /\ pra_list[Swap!At(f)] = f
  BY <1>1 DEF Swap!At
<1>3. k \in 1..n
  <2>1. On(curr_ptr)
    BY <1>1 DEF SwapInv, SwapLists
  <2> QED BY <1>2, <2>1
<1> HIDE DEF k
<1>4. /\ a \in Seq(Frame) /\ Len(a) = k /\ \A i \in 1..k : a[i] = pra_list[i]
  <2>1. 1 \in 1..(Len(pra_list) + 1) /\ k \in (1 - 1)..Len(pra_list) /\ k - 1 + 1 = k
    BY <1>1, <1>3
  <2>2. /\ a \in Seq(Frame) /\ Len(a) = k - 1 + 1
        /\ \A i \in 1..(k - 1 + 1) : a[i] = pra_list[1 + i - 1]
    BY <1>0, <2>1, Piece, Zenon
  <2> HIDE DEF a
  <2> QED BY <2>1, <2>2
<1>5. /\ b \in Seq(Frame) /\ Len(b) = n - k /\ \A i \in 1..(n - k) : b[i] = pra_list[k + i]
  <2>1. b = RestOf(pra_list, k)
    BY DEF RestOf
  <2>2. k \in 0..Len(pra_list)
    BY <1>1, <1>3
  <2>3. b \in Seq(Frame)
    BY <1>0, <2>1, <2>2, RestProperties, Zenon
  <2>4. Len(b) = n - k
    BY <1>0, <2>1, <2>2, RestProperties, Zenon
  <2>5. \A i \in 1..(n - k) : b[i] = pra_list[k + i]
    BY <1>0, <2>1, <2>2, RestProperties, Zenon
  <2> HIDE DEF b
  <2> QED BY <2>3, <2>4, <2>5
<1> HIDE DEF a, b
<1>6. /\ c \in Seq(Frame) /\ Len(c) = n
      /\ \A i \in 1..n : On(c[i])
  <2> DEFINE u == Swap!Reverse(a)
             w == Swap!Reverse(b)
  <2>1. c = u \o w
    BY DEF Swap!Circle, a, b, k
  <2>2. /\ u \in Seq(Frame) /\ Len(u) = k /\ \A i \in 1..k : On(u[i])
    <3>1. u = [i \in 1..Len(a) |-> a[(Len(a) - i) + 1]]
      BY DEF Swap!Reverse
    <3>2. \A i \in 1..k : (k - i) + 1 \in 1..k /\ (k - i) + 1 \in 1..n
      BY <1>1, <1>3
    <3>3. \A i \in 1..k : a[(k - i) + 1] \in Frame
      BY <1>4, <3>2, ElementOfSeq
    <3>4. u = [i \in 1..k |-> a[(k - i) + 1]]
      BY <1>4, <3>1
    <3>5. u \in Seq(Frame) /\ Len(u) = k
      <4>1. k \in Nat
        BY <1>3
      <4> HIDE DEF u
      <4> QED BY <3>3, <3>4, <4>1, SeqDef
    <3>6. \A i \in 1..k : u[i] = pra_list[(k - i) + 1]
      BY <1>4, <3>2, <3>4
    <3> HIDE DEF u
    <3> QED BY <3>2, <3>5, <3>6, Zenon
  <2>3. /\ w \in Seq(Frame) /\ Len(w) = n - k /\ \A i \in 1..(n - k) : On(w[i])
    <3> DEFINE m == n - k
    <3>0. m \in Nat
      BY <1>1, <1>3
    <3>1. w = [i \in 1..Len(b) |-> b[(Len(b) - i) + 1]]
      BY DEF Swap!Reverse
    <3>2. \A i \in 1..m : (m - i) + 1 \in 1..m /\ k + ((m - i) + 1) \in 1..n
      BY <1>1, <1>3
    <3>3. Len(b) = m /\ b \in Seq(Frame) /\ \A i \in 1..m : b[i] = pra_list[k + i]
      BY <1>5
    <3> HIDE DEF m
    <3>4. \A i \in 1..m : b[(m - i) + 1] \in Frame
      BY <3>3, <3>2, ElementOfSeq
    <3>5. w = [i \in 1..m |-> b[(m - i) + 1]]
      BY <3>1, <3>3
    <3>6. w \in Seq(Frame) /\ Len(w) = m
      <4> HIDE DEF w
      <4> QED BY <3>0, <3>4, <3>5, SeqDef
    <3>7. \A i \in 1..m : w[i] = pra_list[k + ((m - i) + 1)]
      BY <3>3, <3>2, <3>5, Zenon
    <3> HIDE DEF w
    <3>8. \A i \in 1..m : On(w[i])
      BY <3>2, <3>7, Zenon
    <3> QED BY <3>6, <3>8 DEF m
  <2> HIDE DEF u, w, On, c
  <2>4. /\ u \o w \in Seq(Frame) /\ Len(u \o w) = Len(u) + Len(w)
        /\ \A i \in 1..(Len(u) + Len(w)) : (u \o w)[i] = IF i <= Len(u) THEN u[i] ELSE w[i - Len(u)]
    BY <2>2, <2>3, Joined
  <2>5. /\ c \in Seq(Frame) /\ Len(c) = n
        /\ \A i \in 1..n : c[i] = IF i <= k THEN u[i] ELSE w[i - k]
    BY <1>1, <1>3, <2>1, <2>2, <2>3, <2>4
  <2>6. \A i \in 1..n : (i <= k => i \in 1..k) /\ (~ (i <= k) => i - k \in 1..(n - k))
    BY <1>1, <1>3
  <2> QED BY <2>2, <2>3, <2>5, <2>6
<1>7. e \in 1..n
  <2> DEFINE U == Swap!Unvisited
  <2>1. U \subseteq 1..n
    BY <1>6, LenProperties DEF Swap!Unvisited
  <2>2. e = IF U = {} THEN 1 ELSE CHOOSE i \in U : \A j \in U : i <= j
    BY DEF Swap!Stop
  <2>3. U # {} => \E i \in U : \A j \in U : i <= j
    <3>1. U \subseteq Nat
      BY <2>1
    <3> QED BY <3>1, LeastNatural, Zenon
  <2>4. 1 \in 1..n
    BY <1>1, <1>3
  <2> HIDE DEF U, e
  <2> QED BY <2>1, <2>2, <2>3, <2>4, Zenon
<1> DEFINE f == c[e]
<1>8. On(f)
  BY <1>6, <1>7
<1>9. Swap!At(f) \in 1..n /\ pra_list[Swap!At(f)] = f
  BY <1>2, <1>8
<1> DEFINE i == Swap!At(f)
<1>10. Swap!Newer(f) = IF i = 1 THEN 0 ELSE pra_list[i - 1]
  BY SwapNumbers DEF Swap!Newer
<1> HIDE DEF f, i, On
<1>11. i # 1 => pra_list[i - 1] \in ToSet(pra_list) /\ pra_list[i - 1] # pra_list[i]
  <2> SUFFICES ASSUME i # 1 PROVE pra_list[i - 1] \in ToSet(pra_list) /\ pra_list[i - 1] # pra_list[i]
    OBVIOUS
  <2>1. i \in 1..n
    BY <1>9 DEF i
  <2>2. i - 1 \in 1..n /\ i - 1 # i
    BY <1>1, <2>1
  <2> QED BY <1>1, <2>1, <2>2 DEF On
<1>12. i \in 1..n /\ pra_list[i] = f
  BY <1>9 DEF i
<1>13. Swap!Newer(f) \in {0} \cup (ToSet(pra_list) \ {pra_list[i]})
  BY <1>10, <1>11
<1> QED BY <1>12, <1>13 DEF f

LEMMA SwapOutKeeps ==
    ASSUME SwapInv, Swap!swap_out
    PROVE  SwapInv'
<1>1. /\ ~ lost /\ pra_list # <<>> /\ pra_list \in Seq(Frame)
      /\ Len(pra_list) \in Nat /\ Len(pra_list) \in 1..Len(pra_list)
  <2>1. ~ lost /\ pra_list # <<>> /\ pra_list \in Seq(Frame)
    BY DEF Swap!swap_out, Swap!Needed, SwapInv, SwapTypes
  <2> QED BY <2>1
<1>2. CASE sm # "clock" /\ Swap!Evict(Swap!Victim) /\ UNCHANGED <<visited, curr_ptr>>
  <2>1. Swap!Victim = pra_list[Len(pra_list)]
    BY DEF Swap!Victim, Swap!Last
  <2>2. curr_ptr = 0
    BY <1>2 DEF SwapInv, SwapLists
  <2> QED BY <1>1, <1>2, <2>1, <2>2, EvictKeeps
<1>3. CASE /\ sm = "clock" /\ curr_ptr # 0 /\ Swap!Evict(Swap!Circle[Swap!Stop])
           /\ curr_ptr' = Swap!Newer(Swap!Circle[Swap!Stop])
  <2>1. PICK i \in 1..Len(pra_list) :
              /\ pra_list[i] = Swap!Circle[Swap!Stop]
              /\ Swap!Newer(Swap!Circle[Swap!Stop]) \in {0} \cup (ToSet(pra_list) \ {pra_list[i]})
    BY <1>3, ClockStops
  <2> QED BY <1>1, <1>3, <2>1, EvictKeeps
<1> QED BY <1>2, <1>3, SwapNumbers DEF Swap!swap_out

\* Nothing of what the invariant is about changes.
LEMMA SameSwap ==
    ASSUME SwapInv,
           UNCHANGED <<sm, pte, mem, disk, pra_vaddr, age, pra_list, curr_ptr>>,
           fault' # -1 => fault' \in VPage /\ pte[fault'] \notin Frame,
           lost' => (pra_list = <<>> \/ sm = "clock") /\ fault' # -1
    PROVE  SwapInv'
<1>1. VPage' = VPage /\ Frame' = Frame /\ Contents' = Contents
  BY DEF VPage, Frame, Contents, Swap!VPage, Swap!Frame, Swap!stale
<1>2. SwapTypes'
  BY <1>1 DEF SwapInv, SwapTypes
<1>3. Mapped' = Mapped
  BY <1>1 DEF Mapped
<1>4. SwapLists'
  BY <1>1, <1>3 DEF SwapInv, SwapLists
<1>5. Swap!ContentsKept'
  BY DEF SwapInv, Swap!ContentsKept, Swap!Resident, Swap!VPage, Swap!Frame, Swap!swapped
<1> QED BY <1>2, <1>4, <1>5 DEF SwapInv

LEMMA UseKeeps ==
    ASSUME SwapInv, NEW v \in VPage, NEW write \in BOOLEAN, Swap!use(v, write)
    PROVE  SwapInv'
<1>1. VPage' = VPage /\ Frame' = Frame /\ Contents' = Contents
  BY DEF VPage, Frame, Contents, Swap!VPage, Swap!Frame, Swap!stale
<1>2. /\ pte[v] \in Frame /\ fault = -1
      /\ UNCHANGED <<sm, pte, pra_vaddr, age, pra_list, curr_ptr, fault, lost>>
  BY SwapNumbers DEF Swap!use
<1>3. CASE ~ write
  <2>1. UNCHANGED <<mem, disk>>
    BY <1>3 DEF Swap!use
  <2> QED BY <1>2, <2>1, SameSwap DEF SwapInv, SwapLists
<1>4. CASE write
  <2> DEFINE m == Swap!Outdated(mem, v)
  <2>1. mem' = [m EXCEPT ![pte[v]] = v] /\ disk' = Swap!Outdated(disk, v)
    BY <1>4 DEF Swap!use
  <2>2. v \in Contents /\ -1 \in Contents
    BY SwapNumbers DEF Contents
  <2>3. /\ m \in [Frame -> Contents]
        /\ \A f \in Frame : m[f] = IF mem[f] = v THEN -1 ELSE mem[f]
    BY <2>2, SwapNumbers DEF Swap!Outdated, SwapInv, SwapTypes
  <2>4. /\ disk' \in [VPage -> Contents]
        /\ \A w \in VPage : disk'[w] = IF disk[w] = v THEN -1 ELSE disk[w]
    BY <2>1, <2>2, SwapNumbers DEF Swap!Outdated, SwapInv, SwapTypes
  <2> HIDE DEF m
  <2>5. /\ mem' \in [Frame -> Contents]
        /\ \A f \in Frame : mem'[f] = IF f = pte[v] THEN v ELSE m[f]
    BY <1>2, <2>1, <2>2, <2>3
  <2>6. SwapTypes'
    BY <1>1, <1>2, <2>4, <2>5 DEF SwapInv, SwapTypes
  <2>7. SwapLists'
    BY <1>1, <1>2 DEF SwapInv, SwapLists, Mapped
  <2>8. ASSUME NEW w \in VPage
        PROVE  /\ pte'[w] \in Frame => mem'[pte'[w]] = w
               /\ pte'[w] = NFrames + 1 => disk'[w] = w
    <3>1. pte'[w] = pte[w]
      BY <1>2
    <3>2. pte[w] \in Frame => mem[pte[w]] = w
      BY SwapNumbers DEF SwapInv, Swap!ContentsKept, VPage
    <3>3. pte[w] = NFrames + 1 => disk[w] = w
      BY SwapNumbers DEF SwapInv, Swap!ContentsKept, VPage
    <3>4. pte[w] = NFrames + 1 => w # v
      BY <1>2, SwapNumbers
    <3>5. pte[w] \in Frame /\ pte[w] = pte[v] => w = v
      BY DEF SwapInv, SwapLists
    <3>6. pte[w] \in Frame => mem'[pte[w]] = w
      BY <2>3, <2>5, <3>2, <3>5
    <3>7. pte[w] = NFrames + 1 => disk'[w] = w
      BY <2>4, <3>3, <3>4
    <3> QED BY <3>1, <3>6, <3>7
  <2>9. Swap!ContentsKept'
    BY <2>8, SwapNumbers, <1>1 DEF Swap!ContentsKept, VPage, Swap!Resident, Frame,
       Swap!swapped, Swap!VPage, Swap!Frame
  <2> QED BY <2>6, <2>7, <2>9 DEF SwapInv
<1> QED BY <1>3, <1>4

\* do_pgfault maps the page to a frame that was free and gives it what it had.
LEMMA MapKeeps ==
    ASSUME SwapInv, Swap!map_page
    PROVE  SwapInv'
<1> DEFINE f == Swap!First
           v == fault
           r == <<f>> \o pra_list
           age1 == [w \in VPage |-> IF w = v THEN 0
                                    ELSE IF sm = "fifo" /\ Swap!Resident(w) THEN Swap!Older(age[w])
                                    ELSE age[w]]
<1>1. VPage' = VPage /\ Frame' = Frame /\ Contents' = Contents
  BY DEF VPage, Frame, Contents, Swap!VPage, Swap!Frame, Swap!stale
<1>2. /\ f \in Frame /\ \A w \in VPage : pte[w] # f
      /\ v \in VPage /\ pte[v] \notin Frame /\ ~ lost
  <2>1. Swap!Free # {} /\ fault # -1 /\ ~ lost
    BY DEF Swap!map_page, Swap!Given
  <2> QED BY <2>1, FrameFree DEF SwapInv, SwapLists
<1>3. /\ pte' = [pte EXCEPT ![v] = f]
      /\ mem' = [mem EXCEPT ![f] = IF pte[v] = NFrames + 1 THEN disk[v] ELSE v]
      /\ pra_list' = r
      /\ pra_vaddr' = [pra_vaddr EXCEPT ![f] = v]
      /\ curr_ptr' = IF sm = "clock" THEN Swap!Current(f) ELSE 0
      /\ age' = age1
      /\ fault' = -1 /\ UNCHANGED <<sm, disk, lost>>
  BY SwapNumbers DEF Swap!map_page, VPage
<1>4. age1 \in [VPage -> 0..MaxAge]
  <2>1. \A w \in VPage : age[w] \in 0..MaxAge
    BY DEF SwapInv, SwapTypes
  <2> QED BY <2>1, SwapNumbers DEF Swap!Older
<1>5. /\ pra_list \in Seq(Frame) /\ f \notin ToSet(pra_list)
      /\ \A i, j \in DOMAIN pra_list : pra_list[i] = pra_list[j] => i = j
  <2>1. pra_list \in Seq(Frame)
    BY DEF SwapInv, SwapTypes
  <2>2. DOMAIN pra_list = 1..Len(pra_list)
    BY <2>1, LenProperties
  <2>3. f \notin Mapped
    BY <1>2 DEF Mapped
  <2> QED BY <2>1, <2>2, <2>3 DEF SwapInv, SwapLists
<1>6. r \in Seq(Frame)
  BY <1>2, <1>5, JoinsList
<1>7. \A i, j \in DOMAIN r : r[i] = r[j] => i = j
  BY <1>2, <1>5, JoinsList
<1>8. ToSet(r) = ToSet(pra_list) \cup {f}
  BY <1>2, <1>5, JoinsList
<1> HIDE DEF r, f, v, age1
<1>9. /\ pte' \in [VPage -> 0..(NFrames + 1)]
      /\ \A w \in VPage : pte'[w] = IF w = v THEN f ELSE pte[w]
  <2>1. f \in 0..(NFrames + 1)
    BY <1>2, SwapNumbers
  <2> QED BY <1>2, <1>3, <2>1 DEF SwapInv, SwapTypes
<1>10. pte[v] = NFrames + 1 => disk[v] = v
  BY <1>2, SwapNumbers DEF SwapInv, Swap!ContentsKept, VPage
<1>11. /\ mem' \in [Frame -> Contents]
       /\ \A g \in Frame : mem'[g] = IF g = f THEN v ELSE mem[g]
  <2>1. v \in Contents
    BY <1>2 DEF Contents
  <2> QED BY <1>2, <1>3, <1>10, <2>1 DEF SwapInv, SwapTypes
<1>12. /\ pra_vaddr' \in [Frame -> VPage]
       /\ \A g \in Frame : pra_vaddr'[g] = IF g = f THEN v ELSE pra_vaddr[g]
  BY <1>2, <1>3 DEF SwapInv, SwapTypes
<1>13. SwapTypes'
  BY <1>1, <1>3, <1>4, <1>6, <1>9, <1>11, <1>12 DEF SwapInv, SwapTypes
<1>14. Mapped' = Mapped \cup {f}
  <2>1. \A g : g \in Mapped' <=> g \in Frame /\ \E w \in VPage : pte'[w] = g
    BY <1>1 DEF Mapped
  <2>2. \A g : g \in Mapped <=> g \in Frame /\ \E w \in VPage : pte[w] = g
    BY DEF Mapped
  <2>3. \A g : g \in Mapped' <=> g \in Mapped \/ g = f
    BY <1>2, <1>9, <2>1, <2>2
  <2> QED BY <2>3
<1>15. SwapLists'
  <2>1. ToSet(pra_list') = Mapped'
    BY <1>3, <1>8, <1>14 DEF SwapInv, SwapLists
  <2>2. \A i, j \in 1..Len(pra_list') : pra_list'[i] = pra_list'[j] => i = j
    <3>1. DOMAIN r = 1..Len(r)
      BY <1>6, LenProperties
    <3> QED BY <1>3, <1>7, <3>1
  <2>3. \A w \in VPage : pte'[w] \in Frame => pra_vaddr'[pte'[w]] = w
    BY <1>2, <1>9, <1>12 DEF SwapInv, SwapLists
  <2>4. curr_ptr' \in {0} \cup ToSet(pra_list') /\ (sm' # "clock" => curr_ptr' = 0)
    BY <1>3, <1>8, SwapNumbers DEF SwapInv, SwapLists, Swap!Current
  <2>5. ~ lost' /\ fault' = -1
    BY <1>2, <1>3
  <2> QED BY <1>1, <2>1, <2>2, <2>3, <2>4, <2>5 DEF SwapLists
<1>16. Swap!ContentsKept'
  <2>1. ASSUME NEW w \in VPage
        PROVE  /\ pte'[w] \in Frame => mem'[pte'[w]] = w
               /\ pte'[w] = NFrames + 1 => disk'[w] = w
    <3>1. pte[w] \in Frame => mem[pte[w]] = w
      BY SwapNumbers DEF SwapInv, Swap!ContentsKept, VPage
    <3>2. pte[w] = NFrames + 1 => disk[w] = w
      BY SwapNumbers DEF SwapInv, Swap!ContentsKept, VPage
    <3> QED BY <1>2, <1>3, <1>9, <1>11, <3>1, <3>2, SwapNumbers
  <2> QED BY <2>1, SwapNumbers, <1>1 DEF Swap!ContentsKept, VPage, Swap!Resident, Frame,
          Swap!swapped, Swap!VPage, Swap!Frame
<1> QED BY <1>13, <1>15, <1>16 DEF SwapInv

-----------------------------------------------------------------------------
(* _lru_tick_event *)

\* What the loop has come to after n rounds: the frames it passed whose pages were
\* used are in front, and the others are in their order.
InFront(n, f) ==
    /\ pra_vaddr[f] \in touched
    /\ \E i \in 1..Len(pra_list) : i > Len(pra_list) - n /\ pra_list[i] = f
Ticked(q, n) ==
    /\ q \in Seq(Frame) /\ ToSet(q) = ToSet(pra_list)
    /\ \A i, j \in 1..Len(q) : q[i] = q[j] => i = j
    /\ \A i, j \in 1..Len(q) :
          i < j => \/ InFront(n, q[i])
                   \/ ~ InFront(n, q[j]) /\ age[pra_vaddr[q[i]]] <= age[pra_vaddr[q[j]]]

AgesInv ==
    sm # "clock" => \A i, j \in 1..Len(pra_list) :
        i < j => age[pra_vaddr[pra_list[i]]] <= age[pra_vaddr[pra_list[j]]]

\* One round of the loop.
LEMMA TickRound ==
    ASSUME SwapInv, NEW n \in Nat, n < Len(pra_list), NEW q, Ticked(q, n)
    PROVE  LET f == pra_list[Len(pra_list) - n]
           IN  Swap!ToFront(q, f) \in Seq(Frame) /\ Ticked(Swap!ToFront(q, f), n + 1)
<1> DEFINE len == Len(pra_list)
           f == pra_list[len - n]
           r == Swap!ToFront(q, f)
           A(g) == age[pra_vaddr[g]]
<1>1. /\ pra_list \in Seq(Frame) /\ len \in Nat /\ len - n \in 1..len
      /\ \A i, j \in 1..len : pra_list[i] = pra_list[j] => i = j
      /\ f \in ToSet(pra_list) /\ f \in Frame
  <2>1. pra_list \in Seq(Frame) /\ \A i, j \in 1..len : pra_list[i] = pra_list[j] => i = j
    BY DEF SwapInv, SwapTypes, SwapLists
  <2>2. len \in Nat /\ len - n \in 1..len /\ DOMAIN pra_list = 1..len
    BY <2>1, LenProperties
  <2>3. f \in Frame /\ f \in ToSet(pra_list)
    BY <2>1, <2>2, ElementOfSeq DEF ToSet
  <2> QED BY <2>1, <2>2, <2>3
<1>2. /\ q \in Seq(Frame) /\ ToSet(q) = ToSet(pra_list)
      /\ \A i, j \in 1..Len(q) : q[i] = q[j] => i = j
      /\ Len(q) \in Nat /\ DOMAIN q = 1..Len(q)
  BY LenProperties DEF Ticked
<1>3. \A i, j \in 1..Len(q) : i < j => InFront(n, q[i]) \/ (~ InFront(n, q[j]) /\ A(q[i]) <= A(q[j]))
  BY DEF Ticked
<1>4. \A g : g # f => (InFront(n + 1, g) <=> InFront(n, g))
  BY <1>1 DEF InFront
<1>5. InFront(n + 1, f) <=> pra_vaddr[f] \in touched
  <2>1. len - n > len - (n + 1)
    BY <1>1
  <2> QED BY <1>1, <2>1 DEF InFront
<1>6. CASE pra_vaddr[f] \notin touched
  <2>1. r = q
    BY <1>6 DEF Swap!ToFront
  <2>2. \A g : InFront(n + 1, g) <=> InFront(n, g)
    <3>1. ~ InFront(n, f) /\ ~ InFront(n + 1, f)
      BY <1>6 DEF InFront
    <3> QED BY <1>4, <3>1
  <2> HIDE DEF r
  <2> QED BY <1>2, <1>3, <2>1, <2>2 DEF Ticked, r
<1>7. CASE pra_vaddr[f] \in touched
  <2>1. PICK k \in 1..Len(q) : q[k] = f
    <3>1. f \in ToSet(q)
      BY <1>1, <1>2
    <3> QED BY <1>2, <3>1 DEF ToSet
  <2> DEFINE s == Swap!RemoveFirst(q, q[k])
             N == Len(q) - 1
  <2>0. q \in Seq(Frame) /\ \A i, j \in 1..Len(q) : q[i] = q[j] => i = j
    BY <1>2
  <2>2. s \in Seq(Frame) /\ Len(s) = N
    BY <2>0, FrameLeaves, Zenon
  <2>3. \A j \in 1..N : s[j] = IF j < k THEN q[j] ELSE q[j + 1]
    BY <2>0, FrameLeaves, Zenon
  <2>4. \A i, j \in 1..Len(s) : s[i] = s[j] => i = j
    BY <2>0, FrameLeaves, Zenon
  <2>5. ToSet(s) = ToSet(q) \ {f}
    <3>1. ToSet(s) = ToSet(q) \ {q[k]}
      BY <2>0, FrameLeaves, Zenon
    <3> QED BY <2>1, <3>1
  <2>6. r = <<f>> \o s
    BY <1>7, <2>1 DEF Swap!ToFront
  <2> HIDE DEF f, r, s
  <2>7. f \notin ToSet(s) /\ \A i, j \in DOMAIN s : s[i] = s[j] => i = j
    BY <2>2, <2>4, <2>5, LenProperties
  <2> DEFINE t == <<f>> \o s
  <2>8. t \in Seq(Frame) /\ Len(t) = Len(s) + 1
    BY <1>1, <2>2, <2>7, JoinsList
  <2>9. t[1] = f /\ \A i \in 1..Len(s) : t[i + 1] = s[i]
    <3>1. t[1] = f
      BY <1>1, <2>2, <2>7, JoinsList
    <3>2. \A i \in 1..Len(s) : t[i + 1] = s[i]
      BY <1>1, <2>2, <2>7, JoinsList
    <3> QED BY <3>1, <3>2
  <2>10. \A i, j \in DOMAIN t : t[i] = t[j] => i = j
    BY <1>1, <2>2, <2>7, JoinsList, Zenon
  <2>11. ToSet(t) = ToSet(s) \cup {f}
    BY <1>1, <2>2, <2>7, JoinsList
  <2> HIDE DEF t
  <2>19. r = t
    BY <2>6 DEF t
  <2>12. N \in Nat /\ Len(t) = N + 1 /\ DOMAIN t = 1..(N + 1) /\ N + 1 = Len(q)
    BY <1>2, <2>1, <2>2, <2>8, LenProperties
  <2>13. \A i, j \in 1..N : i < j => InFront(n, s[i]) \/ (~ InFront(n, s[j]) /\ A(s[i]) <= A(s[j]))
    <3> TAKE i, j \in 1..N
    <3> HAVE i < j
    <3>1. PICK a \in 1..Len(q) : s[i] = q[a] /\ a = IF i < k THEN i ELSE i + 1
      BY <2>3, <2>12
    <3>2. PICK b \in 1..Len(q) : s[j] = q[b] /\ b = IF j < k THEN j ELSE j + 1
      BY <2>3, <2>12
    <3>3. a < b
      BY <3>1, <3>2
    <3> QED BY <1>3, <3>1, <3>2, <3>3, Zenon
  <2>14. \A i \in 1..N : s[i] # f
    <3>1. DOMAIN s = 1..N
      BY <2>2, LenProperties
    <3> QED BY <2>7, <3>1 DEF ToSet
  <2>15. ASSUME NEW i \in 1..Len(t), NEW j \in 1..Len(t), i < j
         PROVE  InFront(n + 1, t[i]) \/ (~ InFront(n + 1, t[j]) /\ A(t[i]) <= A(t[j]))
    <3>1. CASE i = 1
      BY <1>5, <1>7, <2>9, <3>1
    <3>2. CASE i # 1
      <4>1. i - 1 \in 1..N /\ j - 1 \in 1..N /\ i - 1 < j - 1 /\ (i - 1) + 1 = i /\ (j - 1) + 1 = j
        BY <2>12, <2>15, <3>2
      <4>2. t[i] = s[i - 1] /\ t[j] = s[j - 1]
        BY <2>2, <2>9, <4>1, Zenon
      <4>3. InFront(n, t[i]) \/ (~ InFront(n, t[j]) /\ A(t[i]) <= A(t[j]))
        BY <2>13, <4>1, <4>2
      <4>4. t[i] # f /\ t[j] # f
        BY <2>14, <4>1, <4>2, Zenon
      <4> QED BY <1>4, <4>3, <4>4
    <3> QED BY <3>1, <3>2
  <2>16. ToSet(t) = ToSet(pra_list)
    BY <1>1, <1>2, <2>5, <2>11
  <2>17. \A i, j \in 1..Len(t) : t[i] = t[j] => i = j
    BY <2>10, <2>12
  <2>18. Ticked(t, n + 1)
    BY <2>8, <2>15, <2>16, <2>17 DEF Ticked
  <2> QED BY <2>8, <2>18, <2>19 DEF r, f
<1> QED BY <1>6, <1>7

\* The whole loop: what was used is in front, the rest is in its order.
LEMMA UsedGoFirst ==
    ASSUME SwapInv, AgesInv, sm = "lru"
    PROVE  Ticked(Swap!UsedFirst, Len(pra_list))
<1> DEFINE len == Len(pra_list)
           K == Seq(Frame)
           Go(n, q) == Swap!ToFront(q, pra_list[len + 1 - n])
           step == [n \in 1..len |-> [q \in K |-> IF Go(n, q) \in K THEN Go(n, q) ELSE q]]
           Is(f) == f = [n \in 0..len |-> IF n = 0 THEN pra_list ELSE Go(n, f[n - 1])]
           after == CHOOSE f : Is(f)
<1>1. pra_list \in K /\ len \in Nat
  BY LenProperties DEF SwapInv, SwapTypes
<1>2. Ticked(pra_list, 0)
  <2>1. \A f : ~ InFront(0, f)
    BY <1>1 DEF InFront
  <2> QED BY <1>1, <2>1 DEF Ticked, SwapInv, SwapLists, AgesInv
<1>3. ASSUME NEW q, NEW n \in Nat, n + 1 <= len, Ticked(q, n)
      PROVE  Go(n + 1, q) \in K /\ Ticked(Go(n + 1, q), n + 1)
  <2>1. n < len /\ len + 1 - (n + 1) = len - n
    BY <1>1, <1>3
  <2> QED BY <1>3, <2>1, TickRound
<1> HIDE DEF Go
<1>4. PICK f : Repeats(f, K, pra_list, step, len)
  <2>1. step \in [1..len -> [K -> K]]
    <3> HIDE DEF K, len
    <3> QED OBVIOUS
  <2> HIDE DEF step, K, len, Is, after
  <2> QED BY <1>1, <2>1, Repeated, Zenon
<1>5. /\ f[0] = pra_list
      /\ \A n \in 0..len : f[n] \in K
      /\ \A n \in 1..len : f[n] = step[n][f[n - 1]]
  <2> HIDE DEF step, K
  <2> QED BY <1>1, <1>4 DEF Repeats
<1>6. \A n \in 1..len : \A q \in K : step[n][q] = IF Go(n, q) \in K THEN Go(n, q) ELSE q
  <2> HIDE DEF K, len
  <2> QED OBVIOUS
<1> HIDE DEF step, K
<1>7. \A n \in 0..len : Ticked(f[n], n)
  <2> DEFINE S == {n \in Nat : n <= len => Ticked(f[n], n)}
  <2>1. 0 \in S
    BY <1>2, <1>5
  <2>2. ASSUME NEW n \in Nat, n \in S PROVE n + 1 \in S
    <3> SUFFICES ASSUME n + 1 <= len PROVE Ticked(f[n + 1], n + 1)
      OBVIOUS
    <3>1. n \in 0..len /\ n + 1 \in 1..len /\ (n + 1) - 1 = n
      BY <1>1
    <3>2. Ticked(f[n], n)
      BY <2>2, <3>1
    <3>3. Go(n + 1, f[n]) \in K /\ Ticked(Go(n + 1, f[n]), n + 1)
      BY <1>3, <3>2
    <3>4. f[n + 1] = Go(n + 1, f[n])
      BY <1>5, <1>6, <3>1, <3>3
    <3> QED BY <3>3, <3>4
  <2> HIDE DEF S
  <2>3. Nat \subseteq S
    BY <2>1, <2>2, SetInduction
  <2> QED BY <2>3 DEF S
<1>8. Is(f)
  <2>1. ASSUME NEW n \in 0..len PROVE f[n] = IF n = 0 THEN pra_list ELSE Go(n, f[n - 1])
    <3>1. CASE n = 0
      BY <1>5, <3>1
    <3>2. CASE n # 0
      <4>1. n - 1 \in 0..len /\ n - 1 \in Nat /\ (n - 1) + 1 = n /\ n \in 1..len
        BY <1>1, <3>2
      <4>2. Go(n, f[n - 1]) \in K
        BY <1>3, <1>7, <4>1
      <4>3. f[n] = Go(n, f[n - 1])
        BY <1>5, <1>6, <4>1, <4>2
      <4> QED BY <3>2, <4>3
    <3> QED BY <3>1, <3>2
  <2>2. f = [n \in 0..len |-> f[n]]
    BY <1>4 DEF Repeats
  <2> QED BY <2>1, <2>2
<1>9. ASSUME NEW g, Is(g) PROVE g = f
  <2> DEFINE S == {n \in Nat : n <= len => g[n] = f[n]}
  <2>1. 0 \in S
    BY <1>8, <1>9
  <2>2. ASSUME NEW n \in Nat, n \in S PROVE n + 1 \in S
    <3> SUFFICES ASSUME n + 1 <= len PROVE g[n + 1] = f[n + 1]
      OBVIOUS
    <3>1. n \in 0..len /\ n + 1 \in 0..len /\ n + 1 # 0 /\ (n + 1) - 1 = n
      BY <1>1
    <3>2. g[n] = f[n]
      BY <2>2, <3>1
    <3> QED BY <1>8, <1>9, <3>1, <3>2
  <2> HIDE DEF S
  <2>3. Nat \subseteq S
    BY <2>1, <2>2, SetInduction
  <2>4. \A n \in 0..len : g[n] = f[n]
    BY <2>3 DEF S
  <2> QED BY <1>8, <1>9, <2>4
<1>10. after = f
  <2> HIDE DEF Is
  <2> QED BY <1>8, <1>9
<1>11. Swap!UsedFirst = f[len]
  BY <1>10, Zenon DEF Swap!UsedFirst, Go
<1> QED BY <1>1, <1>7, <1>11

LEMMA TickKeeps ==
    ASSUME SwapInv, AgesInv, Swap!lru_tick_event
    PROVE  SwapInv' /\ AgesInv'
<1> DEFINE r == Swap!UsedFirst
           age1 == [v \in VPage |-> IF v \in touched \/ ~ Swap!Resident(v) THEN 0
                                    ELSE Swap!Older(age[v])]
           len == Len(pra_list)
<1>1. /\ sm = "lru" /\ fault = -1 /\ pra_list' = r /\ age' = age1
      /\ UNCHANGED <<sm, pte, pra_vaddr, curr_ptr, mem, disk, fault, lost>>
  BY DEF Swap!lru_tick_event, VPage
<1>2. Ticked(r, len)
  BY <1>1, UsedGoFirst
<1>3. VPage' = VPage /\ Frame' = Frame /\ Contents' = Contents
  BY DEF VPage, Frame, Contents, Swap!VPage, Swap!Frame, Swap!stale
<1>4. \A w \in VPage : age[w] \in 0..MaxAge
  BY DEF SwapInv, SwapTypes
<1>5. age1 \in [VPage -> 0..MaxAge]
  BY <1>4, SwapNumbers DEF Swap!Older
<1>6. \A v \in VPage : pte[v] \in Frame => age1[v] = IF v \in touched THEN 0 ELSE Swap!Older(age[v])
  BY SwapNumbers
<1> HIDE DEF r, age1
<1>7. SwapTypes'
  BY <1>1, <1>2, <1>3, <1>5 DEF SwapInv, SwapTypes, Ticked
<1>8. SwapLists'
  BY <1>1, <1>2, <1>3 DEF SwapInv, SwapLists, Ticked, Mapped
<1>9. Swap!ContentsKept'
  BY <1>1 DEF SwapInv, Swap!ContentsKept, Swap!Resident, Swap!VPage, Swap!Frame, Swap!swapped
<1>10. AgesInv'
  <2>1. pra_list \in Seq(Frame) /\ len \in Nat /\ DOMAIN pra_list = 1..len /\ r \in Seq(Frame)
    BY <1>2, LenProperties DEF SwapInv, SwapTypes, Ticked
  <2>2. ASSUME NEW i \in 1..Len(r)
        PROVE  /\ r[i] \in Mapped /\ pra_vaddr[r[i]] \in VPage /\ pte[pra_vaddr[r[i]]] \in Frame
               /\ InFront(len, r[i]) <=> pra_vaddr[r[i]] \in touched
    <3>1. r[i] \in ToSet(r) /\ ToSet(r) = ToSet(pra_list)
      BY <1>2, <2>1, LenProperties, Zenon DEF Ticked, ToSet
    <3>2. r[i] \in Mapped
      BY <3>1 DEF SwapInv, SwapLists
    <3>3. PICK v \in VPage : pte[v] = r[i] /\ r[i] \in Frame
      BY <3>2 DEF Mapped
    <3>4. pra_vaddr[r[i]] = v
      BY <3>3 DEF SwapInv, SwapLists
    <3>5. \E j \in 1..len : pra_list[j] = r[i]
      BY <2>1, <3>1, Zenon DEF ToSet
    <3>6. \E j \in 1..len : j > len - len /\ pra_list[j] = r[i]
      BY <2>1, <3>5
    <3> QED BY <3>2, <3>3, <3>4, <3>6 DEF InFront
  <2>3. ASSUME NEW i \in 1..Len(r), NEW j \in 1..Len(r), i < j
        PROVE  age1[pra_vaddr[r[i]]] <= age1[pra_vaddr[r[j]]]
    <3> DEFINE v == pra_vaddr[r[i]]
               w == pra_vaddr[r[j]]
    <3>1. /\ v \in VPage /\ pte[v] \in Frame /\ (InFront(len, r[i]) <=> v \in touched)
          /\ w \in VPage /\ pte[w] \in Frame /\ (InFront(len, r[j]) <=> w \in touched)
      BY <2>2
    <3>2. v \in touched \/ (w \notin touched /\ age[v] <= age[w])
      <4>1. InFront(len, r[i]) \/ (~ InFront(len, r[j]) /\ age[v] <= age[w])
        BY <1>2, <2>3 DEF Ticked
      <4> QED BY <3>1, <4>1
    <3>3. /\ age1[v] = IF v \in touched THEN 0 ELSE Swap!Older(age[v])
          /\ age1[w] = IF w \in touched THEN 0 ELSE Swap!Older(age[w])
      BY <1>6, <3>1
    <3> HIDE DEF v, w
    <3>4. age[v] \in Nat /\ age[w] \in Nat /\ age1[v] \in Nat /\ age1[w] \in Nat
      <4>1. age[v] \in 0..MaxAge /\ age[w] \in 0..MaxAge
        BY <1>4, <3>1
      <4>2. age1[v] \in 0..MaxAge /\ age1[w] \in 0..MaxAge
        BY <1>5, <3>1
      <4> QED BY <4>1, <4>2
    <3>5. age1[v] <= age1[w]
      BY <3>2, <3>3, <3>4, SwapNumbers DEF Swap!Older
    <3> QED BY <3>5 DEF v, w
  <2> QED BY <1>1, <2>3 DEF AgesInv
<1> QED BY <1>7, <1>8, <1>9, <1>10 DEF SwapInv

\* The list of fifo and lru is in the order of age.
LEMMA AgesStep ==
    ASSUME SwapInv, AgesInv, SwapInv', Swap!SwapNext
    PROVE  AgesInv'
<1> DEFINE len == Len(pra_list)
<1>1. /\ pra_list \in Seq(Frame) /\ len \in Nat
      /\ \A i, j \in 1..len : pra_list[i] = pra_list[j] => i = j
      /\ \A i \in 1..len : pra_list[i] \in Frame
  <2>1. pra_list \in Seq(Frame) /\ \A i, j \in 1..len : pra_list[i] = pra_list[j] => i = j
    BY DEF SwapInv, SwapTypes, SwapLists
  <2>2. len \in Nat /\ \A i \in 1..len : pra_list[i] \in Frame
    BY <2>1, LenProperties, ElementOfSeq
  <2> QED BY <2>1, <2>2
<1>2. CASE Swap!swap_out
  <2> SUFFICES ASSUME sm # "clock" PROVE AgesInv'
    BY <1>2 DEF AgesInv, Swap!swap_out, Swap!Evict
  <2>1. /\ Swap!Evict(pra_list[len]) /\ pra_list # <<>>
    BY <1>2 DEF Swap!swap_out, Swap!Victim, Swap!Last
  <2>2. len \in 1..len
    BY <1>1, <2>1
  <2> DEFINE r == Swap!RemoveFirst(pra_list, pra_list[len])
  <2>3. Len(r) = len - 1
    BY <1>1, <2>2, FrameLeaves
  <2>4. \A j \in 1..(len - 1) : r[j] = IF j < len THEN pra_list[j] ELSE pra_list[j + 1]
    BY <1>1, <2>2, FrameLeaves, Zenon
  <2>5. pra_list' = r /\ UNCHANGED <<sm, age, pra_vaddr>>
    BY <2>1 DEF Swap!Evict
  <2> HIDE DEF r
  <2>6. \A j \in 1..(len - 1) : j \in 1..len /\ r[j] = pra_list[j]
    BY <1>1, <2>4
  <2> QED BY <2>3, <2>5, <2>6 DEF AgesInv
<1>3. CASE Swap!map_page
  <2> SUFFICES ASSUME sm # "clock" PROVE AgesInv'
    BY <1>3, Zenon DEF AgesInv, Swap!map_page
  <2> DEFINE f == Swap!First
             v == fault
             r == <<f>> \o pra_list
  <2>1. /\ f \in Frame /\ \A w \in VPage : pte[w] # f
        /\ v \in VPage /\ pte[v] \notin Frame
    <3>1. Swap!Free # {} /\ fault # -1
      BY <1>3 DEF Swap!map_page, Swap!Given
    <3> QED BY <3>1, FrameFree DEF SwapInv, SwapLists
  <2>2. /\ pra_list' = r /\ pra_vaddr' = [pra_vaddr EXCEPT ![f] = v] /\ UNCHANGED sm
        /\ age' = [w \in VPage |-> IF w = v THEN 0
                                   ELSE IF sm = "fifo" /\ pte[w] \in Frame THEN Swap!Older(age[w])
                                   ELSE age[w]]
    BY <1>3, SwapNumbers DEF Swap!map_page, VPage, Frame, Swap!Resident
  <2>3. f \notin ToSet(pra_list) /\ \A i, j \in DOMAIN pra_list : pra_list[i] = pra_list[j] => i = j
    <3>1. f \notin Mapped
      BY <2>1 DEF Mapped
    <3> QED BY <1>1, <3>1, LenProperties DEF SwapInv, SwapLists
  <2>4. Len(r) = len + 1
    BY <1>1, <2>1, <2>3, JoinsList
  <2>5. r[1] = f
    BY <1>1, <2>1, <2>3, JoinsList
  <2>6. \A i \in 1..len : r[i + 1] = pra_list[i]
    BY <1>1, <2>1, <2>3, JoinsList
  <2> HIDE DEF r, f, v
  <2>7. \A g \in Frame : pra_vaddr'[g] = IF g = f THEN v ELSE pra_vaddr[g]
    BY <2>2 DEF SwapInv, SwapTypes
  <2>8. ASSUME NEW i \in 1..len
        PROVE  /\ pra_vaddr[pra_list[i]] \in VPage /\ pte[pra_vaddr[pra_list[i]]] \in Frame
               /\ pra_list[i] # f /\ pra_vaddr'[pra_list[i]] = pra_vaddr[pra_list[i]]
    <3>1. pra_list[i] \in ToSet(pra_list)
      BY <1>1, LenProperties DEF ToSet
    <3>2. PICK w \in VPage : pte[w] = pra_list[i] /\ pra_list[i] \in Frame
      BY <3>1 DEF SwapInv, SwapLists, Mapped
    <3>3. pra_vaddr[pra_list[i]] = w
      BY <3>2 DEF SwapInv, SwapLists
    <3>4. pra_list[i] # f
      BY <2>3, <3>1
    <3> QED BY <2>7, <3>2, <3>3, <3>4
  <2>9. \A w \in VPage : age[w] \in 0..MaxAge
    BY DEF SwapInv, SwapTypes
  <2>10. /\ age'[v] = 0
         /\ \A w \in VPage : w # v /\ pte[w] \in Frame =>
               age'[w] = IF sm = "fifo" THEN Swap!Older(age[w]) ELSE age[w]
    BY <2>1, <2>2
  <2>11. \A w \in VPage : age'[w] \in Nat
    BY <2>2, <2>9, SwapNumbers DEF Swap!Older
  <2>12. ASSUME NEW i \in 1..Len(r), NEW j \in 1..Len(r), i < j
         PROVE  age'[pra_vaddr'[r[i]]] <= age'[pra_vaddr'[r[j]]]
    <3>1. j - 1 \in 1..len /\ (j - 1) + 1 = j
      BY <1>1, <2>4, <2>12
    <3>2. r[j] = pra_list[j - 1]
      BY <2>6, <3>1
    <3> DEFINE y == pra_vaddr[pra_list[j - 1]]
    <3>3. y \in VPage /\ pte[y] \in Frame /\ y # v /\ pra_vaddr'[r[j]] = y
      BY <2>1, <2>8, <3>1, <3>2
    <3>4. CASE i = 1
      <4>1. pra_vaddr'[r[i]] = v
        BY <2>1, <2>5, <2>7, <3>4
      <4> QED BY <2>10, <2>11, <3>3, <4>1
    <3>5. CASE i # 1
      <4>1. i - 1 \in 1..len /\ (i - 1) + 1 = i /\ i - 1 < j - 1
        BY <1>1, <2>4, <2>12, <3>5
      <4>2. r[i] = pra_list[i - 1]
        BY <2>6, <4>1
      <4> DEFINE x == pra_vaddr[pra_list[i - 1]]
      <4>3. x \in VPage /\ pte[x] \in Frame /\ x # v /\ pra_vaddr'[r[i]] = x
        BY <2>1, <2>8, <4>1, <4>2
      <4>4. age[x] <= age[y]
        BY <3>1, <4>1 DEF AgesInv
      <4> HIDE DEF x, y
      <4>5. age[x] \in Nat /\ age[y] \in Nat
        BY <2>9, <3>3, <4>3
      <4>6. /\ age'[x] = IF sm = "fifo" THEN Swap!Older(age[x]) ELSE age[x]
            /\ age'[y] = IF sm = "fifo" THEN Swap!Older(age[y]) ELSE age[y]
        BY <2>10, <3>3, <4>3
      <4>7. age[x] <= MaxAge /\ age[y] <= MaxAge
        BY <2>9, <3>3, <4>3
      <4>8. age'[x] <= age'[y]
        BY <4>4, <4>5, <4>6, <4>7, SwapNumbers DEF Swap!Older
      <4> QED BY <3>3, <4>3, <4>8
    <3> QED BY <1>1, <2>4, <3>4, <3>5
  <2> QED BY <2>2, <2>12 DEF AgesInv
<1>4. CASE Swap!lru_tick_event
  BY <1>4, TickKeeps
<1>5. ASSUME UNCHANGED <<sm, pra_list, pra_vaddr, age>> PROVE AgesInv'
  BY <1>5 DEF AgesInv
<1>6. CASE Swap!swap_out_nothing
  BY <1>5, <1>6 DEF Swap!swap_out_nothing
<1>7. CASE Swap!get_pte
  BY <1>5, <1>7 DEF Swap!get_pte
<1>8. ASSUME NEW v \in VPage, Swap!pgfault(v) \/ \E write \in BOOLEAN : Swap!use(v, write)
      PROVE  AgesInv'
  BY <1>5, <1>8 DEF Swap!pgfault, Swap!use
<1> QED BY <1>2, <1>3, <1>4, <1>6, <1>7, <1>8 DEF Swap!SwapNext, VPage

LEMMA SwapStep ==
    ASSUME SwapInv, AgesInv, Swap!SwapNext
    PROVE  SwapInv' /\ AgesInv'
<1> SUFFICES SwapInv'
  BY AgesStep
<1>1. CASE Swap!swap_out
  BY <1>1, SwapOutKeeps
<1>2. CASE Swap!map_page
  BY <1>2, MapKeeps
<1>3. CASE Swap!lru_tick_event
  BY <1>3, TickKeeps
<1>4. CASE Swap!swap_out_nothing
  <2>1. /\ UNCHANGED <<sm, pte, mem, disk, pra_vaddr, age, pra_list, curr_ptr, fault>>
        /\ fault # -1 /\ (pra_list = <<>> \/ sm = "clock")
    BY <1>4 DEF Swap!swap_out_nothing, Swap!Needed
  <2> QED BY <2>1, SameSwap DEF SwapInv, SwapLists
<1>5. CASE Swap!get_pte
  <2>1. UNCHANGED <<sm, pte, mem, disk, pra_vaddr, age, pra_list, curr_ptr, fault, lost>>
    BY <1>5 DEF Swap!get_pte
  <2> QED BY <2>1, SameSwap DEF SwapInv, SwapLists
<1>6. ASSUME NEW v \in VPage, Swap!pgfault(v) PROVE SwapInv'
  <2>1. /\ UNCHANGED <<sm, pte, mem, disk, pra_vaddr, age, pra_list, curr_ptr, lost>>
        /\ fault = -1 /\ fault' = v /\ pte[v] \notin Frame
    BY <1>6, SwapNumbers DEF Swap!pgfault
  <2> QED BY <2>1, SameSwap DEF SwapInv, SwapLists
<1>7. ASSUME NEW v \in VPage, NEW write \in BOOLEAN, Swap!use(v, write) PROVE SwapInv'
  BY <1>7, UseKeeps
<1> QED BY <1>1, <1>2, <1>3, <1>4, <1>5, <1>6, <1>7 DEF Swap!SwapNext, VPage

LEMMA SwapStarts ==
    ASSUME Swap!SwapInit
    PROVE  SwapInv /\ AgesInv
<1>1. /\ sm \in {"fifo", "clock", "lru"} /\ pte = [v \in VPage |-> 0] /\ pra_list = <<>>
      /\ pra_vaddr = [f \in Frame |-> 0] /\ mem = [f \in Frame |-> -1]
      /\ disk = [v \in VPage |-> -1] /\ fault = -1 /\ lost = FALSE /\ curr_ptr = 0
      /\ age = [v \in VPage |-> 0]
  BY SwapNumbers DEF Swap!SwapInit, VPage, Frame
<1>2. SwapTypes
  <2>1. -1 \in Contents /\ 0 \in 0..MaxAge /\ 0 \in 0..(NFrames + 1) /\ 0 \in VPage
    BY SwapNumbers DEF Contents
  <2>2. <<>> \in Seq(Frame)
    OBVIOUS
  <2> QED BY <1>1, <2>1, <2>2 DEF SwapTypes
<1>3. SwapLists
  <2>1. Mapped = {} /\ ToSet(<<>>) = {}
    BY <1>1, SwapNumbers DEF Mapped, ToSet
  <2> QED BY <1>1, <2>1, SwapNumbers DEF SwapLists
<1>4. Swap!ContentsKept
  BY <1>1, SwapNumbers DEF Swap!ContentsKept, VPage
<1>5. AgesInv
  BY <1>1 DEF AgesInv
<1> QED BY <1>2, <1>3, <1>4, <1>5 DEF SwapInv

\* What the other managers do leaves the pages that are swapped alone.
LEMMA SwapKept ==
    ASSUME SwapInv, AgesInv, [ResourcesNext]_managers
    PROVE  SwapInv' /\ AgesInv'
<1>1. CASE Swap!SwapNext
  BY <1>1, SwapStep
<1>2. CASE UNCHANGED swvars
  <2>1. UNCHANGED <<sm, pte, mem, disk, pra_vaddr, age, pra_list, curr_ptr, fault, lost>>
    BY <1>2 DEF swvars
  <2>2. SwapInv'
    BY <2>1, SameSwap DEF SwapInv, SwapLists
  <2>3. AgesInv'
    BY <2>1 DEF AgesInv
  <2> QED BY <2>2, <2>3
<1>3. Swap!SwapNext \/ UNCHANGED swvars
  BY DEF ResourcesNext, managers
<1> QED BY <1>1, <1>2, <1>3

\* A page that was written comes back as it was, in its frame or from the disk,
\* and the list of pages that may be swapped out has every mapped frame once,
\* after any faults, ticks and evictions with each of the three managers.
THEOREM SwapSound == ResourcesSpec => []SwapExact
<1> DEFINE Inv == SwapInv /\ AgesInv
<1>1. ResourcesInit => Inv
  BY SwapStarts DEF ResourcesInit
<1>2. Inv /\ [ResourcesNext]_managers => Inv'
  BY SwapKept
<1>3. Inv => SwapExact
  <2> SUFFICES ASSUME Inv PROVE Swap!ContentsKept /\ Swap!ListExact
    BY DEF SwapExact
  <2>1. Swap!Typed
    BY DEF SwapInv, SwapTypes, Swap!Typed, VPage, Frame, Contents
  <2>2. Swap!IsInjective(pra_list) /\ Swap!ToSet(pra_list) = Mapped
    <3>1. Swap!ToSet(pra_list) = ToSet(pra_list)
      BY DEF Swap!ToSet, ToSet
    <3>2. DOMAIN pra_list = 1..Len(pra_list)
      BY LenProperties DEF SwapInv, SwapTypes
    <3> QED BY <3>1, <3>2 DEF SwapInv, SwapLists, Swap!IsInjective
  <2> QED BY <2>1, <2>2, SwapNumbers DEF SwapInv, SwapLists, Swap!ListExact, Mapped, VPage, Frame
<1> HIDE DEF Inv
<1> QED BY <1>1, <1>2, <1>3, PTL DEF ResourcesSpec

\* fifo evicts a page that came no later than any other page in memory, lru one
\* that has not been used for at least as many ticks.
THEOREM OldestEvicted == ResourcesSpec => EvictsOldest
<1> DEFINE Inv == SwapInv /\ AgesInv
<1>1. ResourcesInit => Inv
  BY SwapStarts DEF ResourcesInit
<1>2. Inv /\ [ResourcesNext]_managers => Inv'
  BY SwapKept
<1>3. Inv /\ [ResourcesNext]_managers => [running = "swap" => Swap!EvictsOldest]_pte
  <2> SUFFICES ASSUME Inv, Swap!SwapNext, pte' # pte PROVE Swap!EvictsOldest
    BY DEF ResourcesNext, managers, swvars
  <2> SUFFICES ASSUME NEW v \in VPage, NEW w \in VPage, pte[v] \in Frame, pte'[v] = NFrames + 1,
                      pte[w] \in Frame, sm # "clock"
               PROVE  age[v] >= age[w]
    BY SwapNumbers DEF Swap!EvictsOldest, VPage
  <2>1. CASE Swap!swap_out
    <3> DEFINE len == Len(pra_list)
               f == pra_list[len]
    <3>1. Swap!Evict(f) /\ pra_list # <<>>
      BY <2>1 DEF Swap!swap_out, Swap!Victim, Swap!Last
    <3>2. pra_list \in Seq(Frame) /\ len \in Nat /\ DOMAIN pra_list = 1..len /\ len \in 1..len
      <4>1. pra_list \in Seq(Frame)
        BY DEF SwapInv, SwapTypes
      <4> QED BY <3>1, <4>1
    <3>3. pte' = [pte EXCEPT ![pra_vaddr[f]] = NFrames + 1]
      BY <3>1, SwapNumbers DEF Swap!Evict
    <3>4. v = pra_vaddr[f]
      BY <3>3, SwapNumbers DEF SwapInv, SwapTypes
    <3>5. PICK i \in 1..len : pra_list[i] = pte[w]
      <4>1. pte[w] \in ToSet(pra_list)
        BY DEF SwapInv, SwapLists, Mapped
      <4> QED BY <3>2, <4>1 DEF ToSet
    <3>6. w = pra_vaddr[pra_list[i]]
      BY <3>5 DEF SwapInv, SwapLists
    <3>7. age[v] \in Nat /\ age[w] \in Nat
      <4>1. age \in [VPage -> 0..MaxAge]
        BY DEF SwapInv, SwapTypes
      <4>2. age[v] \in 0..MaxAge /\ age[w] \in 0..MaxAge
        BY <4>1
      <4>3. MaxAge \in Nat
        BY SwapNumbers
      <4> QED BY <4>2, <4>3
    <3>8. i = len \/ i < len
      <4>1. len \in Nat /\ i \in 1..len
        BY <3>2, <3>5
      <4> HIDE DEF len, f
      <4> QED BY <4>1
    <3>9. CASE i = len
      BY <3>4, <3>6, <3>7, <3>9
    <3>10. CASE i < len
      <4>1. age[w] <= age[v]
        BY <3>2, <3>4, <3>5, <3>6, <3>10 DEF AgesInv
      <4> QED BY <3>7, <4>1
    <3> QED BY <3>8, <3>9, <3>10
  <2>2. CASE Swap!map_page
    <3>1. fault \in VPage /\ pte[fault] \notin Frame /\ pte' = [pte EXCEPT ![fault] = Swap!First]
      BY <2>2 DEF Swap!map_page, Swap!Given, SwapInv, SwapLists
    <3>2. pte'[v] = pte[v]
      BY <3>1 DEF SwapInv, SwapTypes
    <3> QED BY <3>2, SwapNumbers
  <2> QED BY <2>1, <2>2 DEF Swap!SwapNext, Swap!swap_out_nothing, Swap!get_pte, Swap!lru_tick_event,
          Swap!pgfault, Swap!use
<1> HIDE DEF Inv
<1> QED BY <1>1, <1>2, <1>3, PTL DEF ResourcesSpec, EvictsOldest
==============================================================================
