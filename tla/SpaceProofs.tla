------------------------------ MODULE SpaceProofs ------------------------------
(***************************************************************************)
(* The pages that do_fork, do_execve, do_exit and page faults of lab8 take *)
(* and give back, for any number of processes and pages and any programs;  *)
(* and the numbers and relatives of any number of processes.               *)
(***************************************************************************)
EXTENDS Resources, QueueLemmas, FiniteSetTheorems

FinNat == {s \in SUBSET Nat : IsFiniteSet(s)}
Area == {a \in [start : Nat, end : Nat] : a.start < a.end}

Segment == {s \in [start : Nat, filled : Nat, end : Nat] : s.start < s.end}

\* What do_fork, do_execve and do_exit work on.
Work == [areas : Seq(Area), dirs : FinNat, tables : FinNat, ptes : FinNat,
         free : Int, lost : Int, reads : Int, ok : BOOLEAN, short : BOOLEAN, panic : BOOLEAN]

Total(m) == m.free + m.lost + Cardinality(m.dirs) + Cardinality(m.tables) + Cardinality(m.ptes)

\* Every table hangs below a level-0 directory.
Rooted(m) == \A t \in m.tables : Spaces!PDofTable(t) \in m.dirs

Same(m, n) == n.areas = m.areas /\ n.reads = m.reads /\ n.panic = m.panic

LEMMA SpaceNumbers ==
    /\ PerLevel \in Nat \ {0}
    /\ \A v \in Nat : Spaces!PTof(v) \in Nat /\ Spaces!PDof(v) \in Nat
    /\ \A t \in Nat : Spaces!PDofTable(t) \in Nat
    /\ \A v : Spaces!PDofTable(Spaces!PTof(v)) = Spaces!PDof(v)
<1>1. PerLevel \in Nat \ {0}
  BY SpacesAssumption
<1>2. \A v \in Nat : v \div PerLevel \in Nat
  BY <1>1
<1> QED BY <1>1, <1>2 DEF Spaces!PTof, Spaces!PDof, Spaces!PDofTable

LEMMA CountAdd ==
    ASSUME NEW s \in FinNat, NEW i \in Nat
    PROVE  /\ s \cup {i} \in FinNat /\ Cardinality(s) \in Nat
           /\ Cardinality(s \cup {i}) = IF i \in s THEN Cardinality(s) ELSE Cardinality(s) + 1
<1>1. IsFiniteSet(s) /\ s \subseteq Nat
  BY DEF FinNat
<1>2. IsFiniteSet(s \cup {i}) /\ Cardinality(s) \in Nat
      /\ Cardinality(s \cup {i}) = IF i \in s THEN Cardinality(s) ELSE Cardinality(s) + 1
  BY <1>1, FS_AddElement, FS_CardinalityType
<1> QED BY <1>1, <1>2 DEF FinNat

LEMMA CountSplit ==
    ASSUME NEW s \in FinNat, NEW t
    PROVE  /\ s \cap t \in FinNat /\ s \ t \in FinNat
           /\ Cardinality(s) \in Nat /\ Cardinality(s \cap t) \in Nat
           /\ Cardinality(s \ t) = Cardinality(s) - Cardinality(s \cap t)
<1>1. IsFiniteSet(s) /\ s \subseteq Nat
  BY DEF FinNat
<1>2. IsFiniteSet(s \cap t) /\ IsFiniteSet(s \ t)
  BY <1>1, FS_Subset
<1>3. Cardinality(s \ t) = Cardinality(s) - Cardinality(s \cap t)
  BY <1>1, FS_Difference
<1> QED BY <1>1, <1>2, <1>3, FS_CardinalityType DEF FinNat

-----------------------------------------------------------------------------
(* Page tables *)

\* What valid entries for the table of v add to m: pages become tables.
Reached(m, t, v) ==
    /\ t \in Work /\ Same(m, t) /\ t.ptes = m.ptes /\ t.lost = m.lost /\ Total(t) = Total(m)
    /\ t.ok => m.ok /\ Spaces!PTof(v) \in t.tables
    /\ m.tables \subseteq t.tables
    /\ Rooted(m) => Rooted(t)

LEMMA Spent ==
    ASSUME NEW m \in Work
    PROVE  LET e == Spaces!NoMemory(m)
           IN  /\ e \in Work /\ Same(m, e) /\ ~e.ok
               /\ e.dirs = m.dirs /\ e.tables = m.tables /\ e.ptes = m.ptes
               /\ e.free = m.free /\ e.lost = m.lost
<1> DEFINE e == Spaces!NoMemory(m)
<1>1. e = [m EXCEPT !.ok = FALSE, !.short = TRUE]
  BY DEF Spaces!NoMemory
<1> HIDE DEF e
<1>2. e \in Work
  BY <1>1 DEF Work
<1>3. Same(m, e)
  BY <1>1 DEF Work, Same
<1>4. e.dirs = m.dirs /\ e.tables = m.tables /\ e.ptes = m.ptes /\ e.free = m.free /\ e.lost = m.lost
  BY <1>1 DEF Work
<1>5. ~e.ok
  BY <1>1 DEF Work
<1> QED BY <1>2, <1>3, <1>4, <1>5 DEF e

\* A page taken for entry i of the directory, or of its level-0 directory.
LEMMA EntryDirs ==
    ASSUME NEW m \in Work, NEW i \in Nat
    PROVE  LET e == Spaces!Entry(m, "dirs", i)
           IN  /\ e \in Work /\ Same(m, e) /\ e.tables = m.tables /\ e.ptes = m.ptes
               /\ e.lost = m.lost /\ Total(e) = Total(m)
               /\ m.dirs \subseteq e.dirs /\ (e.ok => m.ok /\ i \in e.dirs)
<1> DEFINE e == Spaces!Entry(m, "dirs", i)
<1>1. m.dirs \in FinNat /\ m.tables \in FinNat /\ m.ptes \in FinNat /\ m.free \in Int /\ m.lost \in Int
  BY DEF Work
<1>2. /\ m.dirs \cup {i} \in FinNat /\ Cardinality(m.dirs) \in Nat
      /\ Cardinality(m.dirs \cup {i})
             = IF i \in m.dirs THEN Cardinality(m.dirs) ELSE Cardinality(m.dirs) + 1
      /\ Cardinality(m.tables) \in Nat /\ Cardinality(m.ptes) \in Nat
  BY <1>1, CountAdd
<1>3. CASE i \in m.dirs
  <2>1. e = m
    BY <1>3 DEF Spaces!Entry
  <2> QED BY <1>3, <2>1 DEF Same
<1>4. CASE i \notin m.dirs /\ m.free = 0
  <2>1. e = Spaces!NoMemory(m)
    BY <1>4 DEF Spaces!Entry
  <2> HIDE DEF e
  <2> QED BY <2>1, <1>4, Spent DEF Total, e
<1>5. CASE i \notin m.dirs /\ m.free # 0
  <2>1. e = [m EXCEPT !.dirs = m.dirs \cup {i}, !.free = m.free - 1]
    BY <1>5 DEF Spaces!Entry
  <2> HIDE DEF e
  <2>2. m.free - 1 \in Int
    BY <1>1
  <2>3. e \in Work
    BY <1>2, <2>1, <2>2 DEF Work
  <2>4. Same(m, e) /\ e.ok = m.ok
    BY <2>1 DEF Work, Same
  <2>5. /\ e.ptes = m.ptes /\ e.lost = m.lost /\ e.tables = m.tables
        /\ e.dirs = m.dirs \cup {i} /\ e.free = m.free - 1
    BY <2>1 DEF Work
  <2>6. Total(e) = Total(m)
    BY <1>1, <1>2, <1>5, <2>5 DEF Total
  <2> QED BY <2>3, <2>4, <2>5, <2>6 DEF e
<1> QED BY <1>3, <1>4, <1>5

LEMMA EntryTables ==
    ASSUME NEW m \in Work, NEW i \in Nat
    PROVE  LET e == Spaces!Entry(m, "tables", i)
           IN  /\ e \in Work /\ Same(m, e) /\ e.dirs = m.dirs /\ e.ptes = m.ptes
               /\ e.lost = m.lost /\ Total(e) = Total(m)
               /\ e.tables \in {m.tables, m.tables \cup {i}} /\ (e.ok => m.ok /\ i \in e.tables)
<1> DEFINE e == Spaces!Entry(m, "tables", i)
<1>1. m.dirs \in FinNat /\ m.tables \in FinNat /\ m.ptes \in FinNat /\ m.free \in Int /\ m.lost \in Int
  BY DEF Work
<1>2. /\ m.tables \cup {i} \in FinNat /\ Cardinality(m.tables) \in Nat
      /\ Cardinality(m.tables \cup {i})
             = IF i \in m.tables THEN Cardinality(m.tables) ELSE Cardinality(m.tables) + 1
      /\ Cardinality(m.dirs) \in Nat /\ Cardinality(m.ptes) \in Nat
  BY <1>1, CountAdd
<1>3. CASE i \in m.tables
  <2>1. e = m
    BY <1>3 DEF Spaces!Entry
  <2> QED BY <1>3, <2>1 DEF Same
<1>4. CASE i \notin m.tables /\ m.free = 0
  <2>1. e = Spaces!NoMemory(m)
    BY <1>4 DEF Spaces!Entry
  <2> HIDE DEF e
  <2> QED BY <2>1, <1>4, Spent DEF Total, e
<1>5. CASE i \notin m.tables /\ m.free # 0
  <2>1. e = [m EXCEPT !.tables = m.tables \cup {i}, !.free = m.free - 1]
    BY <1>5 DEF Spaces!Entry
  <2> HIDE DEF e
  <2>2. m.free - 1 \in Int
    BY <1>1
  <2>3. e \in Work
    BY <1>2, <2>1, <2>2 DEF Work
  <2>4. Same(m, e) /\ e.ok = m.ok
    BY <2>1 DEF Work, Same
  <2>5. /\ e.ptes = m.ptes /\ e.lost = m.lost /\ e.dirs = m.dirs
        /\ e.tables = m.tables \cup {i} /\ e.free = m.free - 1
    BY <2>1 DEF Work
  <2>6. Total(e) = Total(m)
    BY <1>1, <1>2, <1>5, <2>5 DEF Total
  <2> QED BY <2>3, <2>4, <2>5, <2>6 DEF e
<1> QED BY <1>3, <1>4, <1>5

LEMMA TablesReached ==
    ASSUME NEW m \in Work, NEW v \in Nat
    PROVE  Reached(m, Spaces!get_pte(m, v), v)
<1> DEFINE d == Spaces!Entry(m, "dirs", Spaces!PDof(v))
           t == Spaces!Entry(d, "tables", Spaces!PTof(v))
<1>1. Spaces!PDof(v) \in Nat /\ Spaces!PTof(v) \in Nat
      /\ Spaces!PDofTable(Spaces!PTof(v)) = Spaces!PDof(v)
  BY SpaceNumbers
<1>2. /\ d \in Work /\ Same(m, d) /\ d.tables = m.tables /\ d.ptes = m.ptes
      /\ d.lost = m.lost /\ Total(d) = Total(m)
      /\ m.dirs \subseteq d.dirs /\ (d.ok => m.ok /\ Spaces!PDof(v) \in d.dirs)
  BY <1>1, EntryDirs
<1>3. /\ t \in Work /\ Same(d, t) /\ t.dirs = d.dirs /\ t.ptes = d.ptes
      /\ t.lost = d.lost /\ Total(t) = Total(d)
      /\ t.tables \in {d.tables, d.tables \cup {Spaces!PTof(v)}}
      /\ (t.ok => d.ok /\ Spaces!PTof(v) \in t.tables)
  BY <1>1, <1>2, EntryTables
<1>4. Spaces!get_pte(m, v) = IF d.ok THEN t ELSE d
  BY DEF Spaces!get_pte
<1> HIDE DEF d, t
<1>5. CASE ~d.ok
  <2>1. Rooted(m) => Rooted(d)
    BY <1>2 DEF Rooted
  <2> QED BY <1>2, <1>4, <1>5, <2>1 DEF Reached
<1>6. CASE d.ok
  <2>1. Rooted(m) => Rooted(t)
    BY <1>1, <1>2, <1>3, <1>6 DEF Rooted
  <2>2. Same(m, t)
    BY <1>2, <1>3 DEF Same
  <2> QED BY <1>2, <1>3, <1>4, <1>6, <2>1, <2>2 DEF Reached
<1> QED BY <1>5, <1>6
-----------------------------------------------------------------------------
(* Pages *)

LEMMA WorkNumbers ==
    ASSUME NEW m \in Work
    PROVE  /\ m.free \in Int /\ m.lost \in Int /\ m.reads \in Int /\ Total(m) \in Int
           /\ Cardinality(m.dirs) \in Nat /\ Cardinality(m.tables) \in Nat
           /\ Cardinality(m.ptes) \in Nat
           /\ m.dirs \in FinNat /\ m.tables \in FinNat /\ m.ptes \in FinNat
<1>1. /\ m.dirs \in FinNat /\ m.tables \in FinNat /\ m.ptes \in FinNat
      /\ m.free \in Int /\ m.lost \in Int /\ m.reads \in Int
  BY DEF Work
<1>2. /\ Cardinality(m.dirs) \in Nat /\ Cardinality(m.tables) \in Nat
      /\ Cardinality(m.ptes) \in Nat
  BY <1>1, CountAdd
<1> QED BY <1>1, <1>2 DEF Total

\* What an operation on page v may change.
Paged(m, n, v) ==
    /\ n \in Work /\ n.areas = m.areas /\ n.lost = m.lost /\ (m.panic => n.panic)
    /\ n.ptes \in {m.ptes, m.ptes \cup {v}}
    /\ v \notin m.ptes => Total(n) = Total(m)
    /\ Spaces!Hangs(m) /\ Spaces!find_vma(m, v) # {} => Spaces!Hangs(n)

LEMMA ReachedHangs ==
    ASSUME NEW m \in Work, NEW t, NEW v, Reached(m, t, v), Spaces!Hangs(m)
    PROVE  Spaces!Hangs(t)
BY DEF Reached, Same, Rooted, Spaces!Hangs, Spaces!find_vma

\* The page v itself, once its table is there.
LEMMA PageEntered ==
    ASSUME NEW t \in Work, NEW v \in Nat, NEW x \in Int, NEW n,
           n.ptes = t.ptes \cup {v}, n.free = t.free - x, n.areas = t.areas,
           n.dirs = t.dirs, n.tables = t.tables, n.lost = t.lost
    PROVE  /\ v \notin t.ptes => Total(n) = Total(t) - x + 1
           /\ Spaces!Hangs(t) /\ Spaces!find_vma(t, v) # {} /\ Spaces!PTof(v) \in t.tables
              => Spaces!Hangs(n)
<1>1. t.ptes \in FinNat /\ Total(t) \in Int /\ t.free \in Int /\ t.lost \in Int
      /\ Cardinality(t.dirs) \in Nat /\ Cardinality(t.tables) \in Nat
  BY WorkNumbers
<1>2. /\ Cardinality(t.ptes) \in Nat
      /\ v \notin t.ptes => Cardinality(t.ptes \cup {v}) = Cardinality(t.ptes) + 1
  BY <1>1, CountAdd
<1>3. v \notin t.ptes => Total(n) = Total(t) - x + 1
  BY <1>1, <1>2 DEF Total
<1>4. ASSUME Spaces!Hangs(t), Spaces!find_vma(t, v) # {}, Spaces!PTof(v) \in t.tables
      PROVE  Spaces!Hangs(n)
  BY <1>4 DEF Spaces!Hangs, Spaces!find_vma
<1> QED BY <1>3, <1>4

LEMMA FreeChanged ==
    ASSUME NEW m \in Work, NEW x \in Int
    PROVE  LET n == [m EXCEPT !.free = x]
           IN  /\ n \in Work /\ Same(m, n) /\ n.ok = m.ok /\ n.dirs = m.dirs
               /\ n.tables = m.tables /\ n.ptes = m.ptes /\ n.lost = m.lost
               /\ Total(n) = Total(m) - m.free + x
               /\ Spaces!Hangs(m) => Spaces!Hangs(n)
<1> DEFINE n == [m EXCEPT !.free = x]
<1>1. n \in Work
  BY DEF Work
<1>2. Same(m, n) /\ n.ok = m.ok
  BY DEF Work, Same
<1>3. n.dirs = m.dirs /\ n.tables = m.tables /\ n.ptes = m.ptes /\ n.lost = m.lost /\ n.free = x
  BY DEF Work
<1> HIDE DEF n
<1>4. Total(n) = Total(m) - m.free + x
  <2>1. /\ m.free \in Int /\ m.lost \in Int
        /\ Cardinality(m.dirs) \in Nat /\ Cardinality(m.tables) \in Nat
        /\ Cardinality(m.ptes) \in Nat
    BY WorkNumbers
  <2> QED BY <1>3, <2>1 DEF Total
<1>5. Spaces!Hangs(m) => Spaces!Hangs(n)
  BY <1>2, <1>3 DEF Same, Spaces!Hangs, Spaces!find_vma
<1> QED BY <1>1, <1>2, <1>3, <1>4, <1>5 DEF n

LEMMA PageAllocated ==
    ASSUME NEW m \in Work, NEW v \in Nat
    PROVE  Paged(m, Spaces!pgdir_alloc_page(m, v), v)
<1> DEFINE k == [m EXCEPT !.free = m.free - 1]
           t == Spaces!get_pte(k, v)
           n == Spaces!pgdir_alloc_page(m, v)
<1> SUFFICES Paged(m, n, v)
  OBVIOUS
<1>0. m.free \in Int /\ m.lost \in Int /\ Total(m) \in Int
  BY WorkNumbers
<1>1. /\ k \in Work /\ Same(m, k) /\ k.ok = m.ok /\ k.dirs = m.dirs
      /\ k.tables = m.tables /\ k.ptes = m.ptes /\ k.lost = m.lost
      /\ Total(k) = Total(m) - m.free + (m.free - 1)
      /\ Spaces!Hangs(m) => Spaces!Hangs(k)
  <2>1. m.free - 1 \in Int
    BY <1>0
  <2> QED BY <2>1, FreeChanged
<1>2. n = IF m.free = 0 THEN Spaces!NoMemory(m)
          ELSE IF t.ok THEN [t EXCEPT !.ptes = t.ptes \cup {v}] ELSE [t EXCEPT !.free = t.free + 1]
  BY DEF Spaces!pgdir_alloc_page
<1> HIDE DEF k
<1>3. Reached(k, t, v)
  BY <1>1, TablesReached
<1> HIDE DEF t, n
<1>4. t \in Work /\ Same(m, t) /\ t.ptes = m.ptes /\ t.lost = m.lost /\ Total(t) = Total(m) - 1
      /\ (t.ok => Spaces!PTof(v) \in t.tables)
  BY <1>0, <1>1, <1>3 DEF Reached, Same
<1>5. Spaces!Hangs(m) => Spaces!Hangs(t)
  BY <1>1, <1>3, ReachedHangs
<1>6. t.free \in Int /\ t.ptes \in FinNat /\ Total(t) \in Int
  BY <1>4, WorkNumbers
<1>7. CASE m.free = 0
  <2>1. n = Spaces!NoMemory(m)
    BY <1>2, <1>7
  <2>2. /\ n \in Work /\ Same(m, n) /\ n.dirs = m.dirs /\ n.tables = m.tables
        /\ n.ptes = m.ptes /\ n.free = m.free /\ n.lost = m.lost
    BY <2>1, Spent
  <2> QED BY <2>2 DEF Paged, Same, Total, Spaces!Hangs, Spaces!find_vma
<1>8. CASE m.free # 0 /\ t.ok
  <2>1. n = [t EXCEPT !.ptes = t.ptes \cup {v}]
    BY <1>2, <1>8
  <2>2. t.ptes \cup {v} \in FinNat
    BY <1>6, CountAdd
  <2>3. n \in Work
    BY <1>4, <2>1, <2>2 DEF Work
  <2>4. /\ n.ptes = t.ptes \cup {v} /\ n.free = t.free /\ n.areas = t.areas
        /\ n.dirs = t.dirs /\ n.tables = t.tables /\ n.lost = t.lost
    BY <1>4, <2>1 DEF Work
  <2>5. n.panic = t.panic
    BY <1>4, <2>1 DEF Work
  <2>6. /\ v \notin t.ptes => Total(n) = Total(t) - 0 + 1
        /\ Spaces!Hangs(t) /\ Spaces!find_vma(t, v) # {} /\ Spaces!PTof(v) \in t.tables
              => Spaces!Hangs(n)
    <3>1. n.free = t.free - 0 /\ 0 \in Int
      BY <1>6, <2>4
    <3> QED BY <1>4, <2>4, <3>1, PageEntered
  <2>7. v \notin m.ptes => Total(n) = Total(m)
    BY <1>0, <1>4, <2>6
  <2>8. Spaces!Hangs(m) /\ Spaces!find_vma(m, v) # {} => Spaces!Hangs(n)
    BY <1>4, <1>5, <1>8, <2>6 DEF Same, Spaces!find_vma
  <2> QED BY <1>4, <2>3, <2>4, <2>5, <2>7, <2>8 DEF Paged, Same
<1>9. CASE m.free # 0 /\ ~t.ok
  <2>1. n = [t EXCEPT !.free = t.free + 1]
    BY <1>2, <1>9
  <2>2. /\ n \in Work /\ Same(t, n) /\ n.ptes = t.ptes /\ n.lost = t.lost
        /\ Total(n) = Total(t) - t.free + (t.free + 1)
        /\ Spaces!Hangs(t) => Spaces!Hangs(n)
    <3>1. t.free + 1 \in Int
      BY <1>6
    <3> QED BY <1>4, <2>1, <3>1, FreeChanged
  <2> QED BY <1>0, <1>4, <1>5, <1>6, <2>2 DEF Paged, Same
<1> QED BY <1>7, <1>8, <1>9

LEMMA Unchanged ==
    ASSUME NEW m \in Work, NEW v
    PROVE  Paged(m, m, v)
BY DEF Paged

\* The operations only say more of how the work goes.
LEMMA Reported ==
    ASSUME NEW m \in Work, NEW n, NEW v, Paged(m, n, v),
           NEW k \in Work, k.areas = n.areas, k.lost = n.lost, n.panic => k.panic, k.ptes = n.ptes,
           k.dirs = n.dirs, k.tables = n.tables, k.free = n.free
    PROVE  Paged(m, k, v)
<1>1. Total(k) = Total(n)
  BY DEF Total
<1>2. Spaces!Hangs(n) => Spaces!Hangs(k)
  BY DEF Spaces!Hangs, Spaces!find_vma
<1> QED BY <1>1, <1>2 DEF Paged

LEMMA PageCopied ==
    ASSUME NEW m \in Work, NEW from, NEW v \in Nat
    PROVE  Paged(m, Spaces!CopyPage(m, from, v), v)
<1> DEFINE t == Spaces!get_pte(m, v)
           n == Spaces!CopyPage(m, from, v)
<1> SUFFICES Paged(m, n, v)
  OBVIOUS
<1>1. n = IF ~Spaces!Going(m) \/ v \notin from.ptes THEN m
          ELSE IF ~t.ok THEN t
          ELSE IF t.free = 0 THEN [t EXCEPT !.panic = TRUE, !.short = TRUE]
          ELSE [t EXCEPT !.ptes = t.ptes \cup {v}, !.free = t.free - 1]
  BY DEF Spaces!CopyPage
<1>2. Reached(m, t, v)
  BY TablesReached
<1> HIDE DEF t, n
<1>3. t \in Work /\ Same(m, t) /\ t.ptes = m.ptes /\ t.lost = m.lost /\ Total(t) = Total(m)
      /\ (t.ok => Spaces!PTof(v) \in t.tables)
  BY <1>2 DEF Reached
<1>4. Spaces!Hangs(m) => Spaces!Hangs(t)
  BY <1>2, ReachedHangs
<1>5. Paged(m, t, v)
  BY <1>3, <1>4 DEF Paged, Same
<1>6. t.free \in Int /\ t.ptes \in FinNat /\ Total(t) \in Int
  BY <1>3, WorkNumbers
<1>7. CASE n = m
  BY <1>7, Unchanged
<1>8. CASE n = t
  BY <1>5, <1>8
<1>9. CASE n = [t EXCEPT !.panic = TRUE, !.short = TRUE]
  <2>1. n \in Work
    BY <1>3, <1>9 DEF Work
  <2>2. n.areas = t.areas /\ n.lost = t.lost /\ n.panic /\ n.ptes = t.ptes
        /\ n.dirs = t.dirs /\ n.tables = t.tables /\ n.free = t.free
    BY <1>3, <1>9 DEF Work
  <2> QED BY <1>5, <2>1, <2>2, Reported
<1>10. CASE t.ok /\ n = [t EXCEPT !.ptes = t.ptes \cup {v}, !.free = t.free - 1]
  <2>1. t.ptes \cup {v} \in FinNat /\ t.free - 1 \in Int
    <3>1. t.ptes \cup {v} \in FinNat
      BY <1>6, CountAdd
    <3> QED BY <1>6, <3>1
  <2>2. n \in Work
    BY <1>3, <1>10, <2>1 DEF Work
  <2>3. /\ n.ptes = t.ptes \cup {v} /\ n.free = t.free - 1 /\ n.areas = t.areas
        /\ n.dirs = t.dirs /\ n.tables = t.tables /\ n.lost = t.lost
    BY <1>3, <1>10 DEF Work
  <2>4. n.panic = t.panic
    BY <1>3, <1>10 DEF Work
  <2>5. /\ v \notin t.ptes => Total(n) = Total(t) - 1 + 1
        /\ Spaces!Hangs(t) /\ Spaces!find_vma(t, v) # {} /\ Spaces!PTof(v) \in t.tables
              => Spaces!Hangs(n)
    BY <1>3, <2>3, PageEntered
  <2>6. v \notin m.ptes => Total(n) = Total(m)
    BY <1>3, <1>6, <2>5
  <2>7. Spaces!Hangs(m) /\ Spaces!find_vma(m, v) # {} => Spaces!Hangs(n)
    BY <1>3, <1>4, <1>10, <2>5 DEF Same, Spaces!find_vma
  <2> QED BY <1>3, <2>2, <2>3, <2>4, <2>6, <2>7 DEF Paged, Same
<1> QED BY <1>1, <1>7, <1>8, <1>9, <1>10

LEMMA PageLoaded ==
    ASSUME NEW m \in Work, NEW v \in Nat, NEW filled
    PROVE  Paged(m, Spaces!LoadPage(m, v, filled), v)
<1> DEFINE n == Spaces!pgdir_alloc_page(m, v)
           k == Spaces!LoadPage(m, v, filled)
<1> SUFFICES Paged(m, k, v)
  OBVIOUS
<1>1. k \in {m, n, [n EXCEPT !.ok = FALSE], [n EXCEPT !.reads = n.reads - 1]}
  BY DEF Spaces!LoadPage, Spaces!Failed
<1>2. Paged(m, n, v)
  BY PageAllocated
<1> HIDE DEF n, k
<1>3. n \in Work /\ n.reads - 1 \in Int
  BY <1>2, WorkNumbers DEF Paged
<1>4. CASE k = m
  BY <1>4, Unchanged
<1>5. CASE k = n
  BY <1>2, <1>5
<1>6. CASE k = [n EXCEPT !.ok = FALSE]
  <2>1. k \in Work
    BY <1>3, <1>6 DEF Work
  <2>2. k.areas = n.areas /\ k.lost = n.lost /\ k.panic = n.panic /\ k.ptes = n.ptes
        /\ k.dirs = n.dirs /\ k.tables = n.tables /\ k.free = n.free
    BY <1>3, <1>6 DEF Work
  <2> QED BY <1>2, <2>1, <2>2, Reported
<1>7. CASE k = [n EXCEPT !.reads = n.reads - 1]
  <2>1. k \in Work
    BY <1>3, <1>7 DEF Work
  <2>2. k.areas = n.areas /\ k.lost = n.lost /\ k.panic = n.panic /\ k.ptes = n.ptes
        /\ k.dirs = n.dirs /\ k.tables = n.tables /\ k.free = n.free
    BY <1>3, <1>7 DEF Work
  <2> QED BY <1>2, <2>1, <2>2, Reported
<1> QED BY <1>1, <1>4, <1>5, <1>6, <1>7

\* A run of operations on the pages w, which are new and lie in areas.
PagesDone(m, n) ==
    /\ n \in Work /\ n.areas = m.areas /\ n.lost = m.lost /\ (m.panic => n.panic)
    /\ Total(n) = Total(m)
    /\ Spaces!Hangs(m) => Spaces!Hangs(n)

LEMMA PagesInOrder ==
    ASSUME NEW l \in Nat, NEW w \in [1..l -> Nat], NEW m \in Work,
           \A i, j \in 1..l : i # j => w[i] # w[j],
           \A i \in 1..l : w[i] \notin m.ptes /\ Spaces!find_vma(m, w[i]) # {},
           NEW f \in [0..l -> Work], f[0] = m,
           \A j \in 1..l : Paged(f[j - 1], f[j], w[j])
    PROVE  PagesDone(m, f[l])
<1> DEFINE Before(j) == {w[i] : i \in 1..j}
           Good(j) == PagesDone(m, f[j]) /\ f[j].ptes \subseteq m.ptes \cup Before(j)
<1>1. Good(0)
  BY DEF PagesDone
<1>2. ASSUME NEW j \in 1..l, Good(j - 1)
      PROVE  Good(j)
  <2>1. w[j] \in Nat /\ Paged(f[j - 1], f[j], w[j])
    OBVIOUS
  <2>2. w[j] \notin f[j - 1].ptes
    <3>1. w[j] \notin Before(j - 1)
      <4>1. \A i \in 1..(j - 1) : i \in 1..l /\ i # j
        OBVIOUS
      <4> QED BY <4>1
    <3> QED BY <1>2, <3>1
  <2>3. Before(j) = Before(j - 1) \cup {w[j]}
    <3>1. 1..j = (1..(j - 1)) \cup {j}
      OBVIOUS
    <3> QED BY <3>1
  <2>4. f[j].ptes \subseteq m.ptes \cup Before(j)
    <3> HIDE DEF Before
    <3>1. f[j].ptes \in {f[j - 1].ptes, f[j - 1].ptes \cup {w[j]}}
      BY <2>1 DEF Paged
    <3> QED BY <1>2, <2>3, <3>1
  <2>5. Spaces!find_vma(f[j - 1], w[j]) # {}
    BY <1>2 DEF PagesDone, Spaces!find_vma
  <2>6. PagesDone(m, f[j])
    <3> HIDE DEF Before
    <3> QED BY <1>2, <2>1, <2>2, <2>5 DEF PagesDone, Paged
  <2> QED BY <2>4, <2>6
<1>3. Good(l)
  <2> DEFINE S == {j \in Nat : j <= l => Good(j)}
  <2> HIDE DEF Good
  <2>1. 0 \in S
    BY <1>1
  <2>2. \A j \in Nat : j \in S => j + 1 \in S
    <3>1. ASSUME NEW j \in Nat, j \in S, j + 1 <= l PROVE Good(j + 1)
      <4>1. j + 1 \in 1..l /\ (j + 1) - 1 = j /\ Good(j)
        BY <3>1
      <4> QED BY <1>2, <4>1
    <3> QED BY <3>1
  <2>3. Nat \subseteq S
    BY <2>1, <2>2, SetInduction
  <2> QED BY <2>3
<1> QED BY <1>3
-----------------------------------------------------------------------------
(* Areas *)

\* Areas come in order and share no page.
Apart(q) == \A i, j \in 1..Len(q) : i < j => q[i].end <= q[j].start

LEMMA GreatestOf ==
    ASSUME NEW n \in Nat, NEW s \in SUBSET (0..n), s # {}
    PROVE  Spaces!Max(s) \in s /\ \A k \in s : k <= Spaces!Max(s)
<1> DEFINE T == {n - k : k \in s}
<1>1. T \subseteq Nat /\ T # {}
  <2>1. \A k \in s : n - k \in Nat
    OBVIOUS
  <2> QED BY <2>1
<1>2. PICK least \in T : \A t \in T : least <= t
  <2> HIDE DEF T
  <2> QED BY <1>1, LeastNatural
<1>3. PICK k \in s : least = n - k
  BY <1>2
<1>4. \A j \in s : k >= j
  <2> TAKE j \in s
  <2>1. n - j \in T
    OBVIOUS
  <2>2. n - k <= n - j
    BY <1>2, <1>3, <2>1
  <2>3. j \in Int /\ k \in Int
    OBVIOUS
  <2> QED BY <2>2, <2>3
<1>5. \E x \in s : \A y \in s : x >= y
  BY <1>4
<1>6. Spaces!Max(s) \in s /\ \A y \in s : Spaces!Max(s) >= y
  BY <1>5 DEF Spaces!Max
<1>7. \A y \in s : y \in Int
  OBVIOUS
<1> QED BY <1>6, <1>7

LEMMA AreaInserted ==
    ASSUME NEW q \in Seq(Area), NEW k \in 0..Len(q), NEW a \in Area, NEW t \in Seq(Area)
    PROVE  LET r == SubSeq(q, 1, k) \o <<a>> \o t
           IN  /\ r \in Seq(Area) /\ Len(r) = k + 1 + Len(t)
               /\ \A j \in 1..k : r[j] = q[j]
               /\ r[k + 1] = a
               /\ \A j \in 1..Len(t) : r[k + 1 + j] = t[j]
<1>1. Inserted(q, k, a, t) \in Seq(Area)
  BY InsertedProperties
<1>2. Len(Inserted(q, k, a, t)) = k + 1 + Len(t)
  BY InsertedProperties
<1>3. \A j \in 1..k : Inserted(q, k, a, t)[j] = q[j]
  BY InsertedProperties
<1>4. Inserted(q, k, a, t)[k + 1] = a
  BY InsertedProperties
<1>5. \A j \in 1..Len(t) : Inserted(q, k, a, t)[k + 1 + j] = t[j]
  BY InsertedProperties
<1> QED BY <1>1, <1>2, <1>3, <1>4, <1>5 DEF Inserted

\* insert_vma_struct takes a place behind the last area that begins no later.
LEMMA AreaPlaced ==
    ASSUME NEW q \in Seq(Area), Apart(q), NEW a \in Area, NEW k \in 0..Len(q),
           \A i \in 1..Len(q) : (q[i].start <= a.start) <=> i <= k,
           ~ (k > 0 /\ q[k].end > a.start),
           ~ (k < Len(q) /\ a.end > q[k + 1].start)
    PROVE  LET r == SubSeq(q, 1, k) \o <<a>> \o SubSeq(q, k + 1, Len(q))
           IN  /\ r \in Seq(Area) /\ Apart(r)
               /\ \E i \in 1..Len(r) : r[i] = a
               /\ \A i \in 1..Len(q) : \E j \in 1..Len(r) : r[j] = q[i]
               /\ \A i \in 1..Len(q) : q[i].end <= a.start \/ a.end <= q[i].start
<1> DEFINE n == Len(q)
           t == SubSeq(q, k + 1, n)
           r == SubSeq(q, 1, k) \o <<a>> \o t
<1>1. n \in Nat /\ \A i \in 1..n : q[i] \in Area
  OBVIOUS
<1>0. Len(q) = n /\ k \in 0..n
  OBVIOUS
<1>2. t \in Seq(Area) /\ Len(t) = n - k /\ \A j \in 1..(n - k) : t[j] = q[k + j]
  OBVIOUS
<1>3. /\ r \in Seq(Area) /\ Len(r) = k + 1 + Len(t)
      /\ \A j \in 1..k : r[j] = q[j]
      /\ r[k + 1] = a
      /\ \A j \in 1..Len(t) : r[k + 1 + j] = t[j]
  <2>1. t \in Seq(Area)
    BY <1>2
  <2> HIDE DEF t
  <2> QED BY <2>1, AreaInserted
<1> HIDE DEF t, r, n
<1>4. Len(r) = n + 1 /\ \A j \in (k + 2)..(n + 1) : r[j] = q[j - 1]
  <2>1. Len(r) = n + 1
    BY <1>0, <1>1, <1>2, <1>3
  <2>2. ASSUME NEW j \in (k + 2)..(n + 1) PROVE r[j] = q[j - 1]
    <3>1. j - k - 1 \in 1..Len(t) /\ k + 1 + (j - k - 1) = j /\ k + (j - k - 1) = j - 1
      BY <1>0, <1>1, <1>2
    <3>2. r[k + 1 + (j - k - 1)] = t[j - k - 1]
      BY <1>3, <3>1
    <3>3. t[j - k - 1] = q[k + (j - k - 1)]
      BY <1>2, <3>1
    <3> QED BY <3>1, <3>2, <3>3
  <2> QED BY <2>1, <2>2
<1>5. \A i \in 1..n : q[i].start \in Nat /\ q[i].end \in Nat /\ q[i].start < q[i].end
  BY <1>1 DEF Area
<1>6. a.start \in Nat /\ a.end \in Nat /\ a.start < a.end
  BY DEF Area
<1>7. \A i \in 1..n : i <= k => q[i].end <= a.start
  <2> SUFFICES ASSUME NEW i \in 1..n, i <= k PROVE q[i].end <= a.start
    OBVIOUS
  <2>1. k \in 1..n /\ q[k].end <= a.start
    BY <1>0, <1>1, <1>5, <1>6
  <2>2. i = k \/ q[i].end <= q[k].start
    BY <2>1 DEF Apart
  <2> QED BY <1>5, <1>6, <2>1, <2>2
<1>8. \A i \in 1..n : i > k => a.end <= q[i].start
  <2> SUFFICES ASSUME NEW i \in 1..n, i > k PROVE a.end <= q[i].start
    OBVIOUS
  <2>1. k + 1 \in 1..n /\ a.end <= q[k + 1].start
    BY <1>0, <1>1, <1>5, <1>6
  <2>2. i = k + 1 \/ q[k + 1].end <= q[i].start
    BY <1>0, <1>1, <2>1 DEF Apart
  <2> QED BY <1>5, <1>6, <2>1, <2>2
<1>9. Apart(r)
  <2> SUFFICES ASSUME NEW i \in 1..(n + 1), NEW j \in 1..(n + 1), i < j
               PROVE  r[i].end <= r[j].start
    BY <1>4 DEF Apart
  <2>1. CASE j <= k
    <3>1. r[i] = q[i] /\ r[j] = q[j] /\ i \in 1..n /\ j \in 1..n
      BY <1>0, <1>1, <1>3, <2>1
    <3> QED BY <1>0, <3>1 DEF Apart
  <2>2. CASE j = k + 1
    <3>1. r[i] = q[i] /\ r[j] = a /\ i \in 1..n /\ i <= k
      BY <1>0, <1>1, <1>3, <2>2
    <3> QED BY <1>7, <3>1
  <2>3. CASE j > k + 1 /\ i <= k
    <3>1. r[i] = q[i] /\ r[j] = q[j - 1] /\ i \in 1..n /\ j - 1 \in 1..n /\ i < j - 1
      BY <1>0, <1>1, <1>3, <1>4, <2>3
    <3> QED BY <1>0, <3>1 DEF Apart
  <2>4. CASE j > k + 1 /\ i = k + 1
    <3>1. r[i] = a /\ r[j] = q[j - 1] /\ j - 1 \in 1..n /\ j - 1 > k
      BY <1>0, <1>1, <1>3, <1>4, <2>4
    <3> QED BY <1>8, <3>1
  <2>5. CASE i > k + 1
    <3>1. r[i] = q[i - 1] /\ r[j] = q[j - 1] /\ i - 1 \in 1..n /\ j - 1 \in 1..n /\ i - 1 < j - 1
      BY <1>0, <1>1, <1>4, <2>5
    <3> QED BY <1>0, <3>1 DEF Apart
  <2> QED BY <1>0, <1>1, <2>1, <2>2, <2>3, <2>4, <2>5
<1>10. \E i \in 1..Len(r) : r[i] = a
  <2>1. k + 1 \in 1..Len(r)
    BY <1>0, <1>1, <1>4
  <2> QED BY <1>3, <2>1
<1>11. \A i \in 1..n : \E j \in 1..Len(r) : r[j] = q[i]
  <2> SUFFICES ASSUME NEW i \in 1..n PROVE \E j \in 1..Len(r) : r[j] = q[i]
    OBVIOUS
  <2>1. CASE i <= k
    <3>1. r[i] = q[i] /\ i \in 1..Len(r)
      BY <1>0, <1>1, <1>3, <1>4, <2>1
    <3> QED BY <3>1
  <2>2. CASE i > k
    <3>1. i + 1 \in (k + 2)..(n + 1) /\ i + 1 \in 1..Len(r) /\ (i + 1) - 1 = i
      BY <1>0, <1>1, <1>4, <2>2
    <3>2. r[i + 1] = q[i]
      BY <1>4, <3>1
    <3> QED BY <3>1, <3>2
  <2> QED BY <1>0, <1>1, <2>1, <2>2
<1>12. \A i \in 1..n : q[i].end <= a.start \/ a.end <= q[i].start
  BY <1>7, <1>8
<1>13. r \in Seq(Area)
  BY <1>3
<1> QED BY <1>9, <1>10, <1>11, <1>12, <1>13 DEF r, t, n

\* What insert_vma_struct makes of m.
AreaEntered(m, n, a) ==
    /\ n \in Work /\ n.dirs = m.dirs /\ n.tables = m.tables /\ n.ptes = m.ptes
    /\ n.free = m.free /\ n.lost = m.lost
    /\ Apart(m.areas) /\ Spaces!Hangs(m) /\ ~n.panic
       => /\ Apart(n.areas) /\ Spaces!Hangs(n)
          /\ \A v \in Spaces!Within(a) : v \notin n.ptes /\ Spaces!find_vma(n, v) # {}

LEMMA AreasEntered ==
    ASSUME NEW m \in Work, NEW a \in Area
    PROVE  AreaEntered(m, Spaces!insert_vma_struct(m, a), a)
<1> DEFINE q == m.areas
           n == Len(q)
           s == {0} \cup {i \in 1..n : q[i].start <= a.start}
           k == Spaces!Max(s)
           r == SubSeq(q, 1, k) \o <<a>> \o SubSeq(q, k + 1, n)
           bad == \/ k > 0 /\ q[k].end > a.start
                  \/ k < n /\ a.end > q[k + 1].start
           e == Spaces!insert_vma_struct(m, a)
<1> SUFFICES AreaEntered(m, e, a)
  OBVIOUS
<1>1. q \in Seq(Area) /\ n \in Nat /\ DOMAIN q = 1..n /\ \A i \in 1..n : q[i] \in Area
  BY DEF Work
<1>2. k \in s /\ \A i \in s : i <= k
  <2>1. s \in SUBSET (0..n) /\ s # {}
    BY <1>1
  <2> HIDE DEF s
  <2> QED BY <1>1, <2>1, GreatestOf
<1>3. e = [m EXCEPT !.areas = r, !.panic = bad]
  BY <1>1 DEF Spaces!insert_vma_struct
<1>4. bad \in BOOLEAN
  OBVIOUS
<1> HIDE DEF e
<1>5. k \in 0..n /\ \A i \in 1..n : q[i].start <= a.start => i <= k
  BY <1>1, <1>2
<1>6. k > 0 => q[k].start <= a.start
  BY <1>2
<1> HIDE DEF k
<1>7. r \in Seq(Area)
  <2> DEFINE t == SubSeq(q, k + 1, n)
  <2>1. t \in Seq(Area)
    BY <1>1, <1>5
  <2> HIDE DEF t
  <2>2. SubSeq(q, 1, k) \o <<a>> \o t \in Seq(Area)
    BY <1>1, <1>5, <2>1, AreaInserted
  <2> QED BY <2>2 DEF t
<1>8. ASSUME Apart(q), ~ bad
      PROVE  /\ Apart(r)
             /\ \E i \in 1..Len(r) : r[i] = a
             /\ \A i \in 1..Len(q) : \E j \in 1..Len(r) : r[j] = q[i]
             /\ \A i \in 1..Len(q) : q[i].end <= a.start \/ a.end <= q[i].start
  <2>1. \A i \in 1..n : q[i].start \in Nat /\ q[i].end \in Nat /\ q[i].start < q[i].end
    BY <1>1 DEF Area
  <2>2. ASSUME NEW i \in 1..n, i <= k PROVE q[i].start <= a.start
    <3>1. k \in 1..n /\ q[k].start <= a.start
      BY <1>1, <1>5, <1>6, <2>2
    <3>2. i = k \/ q[i].end <= q[k].start
      BY <1>8, <2>2, <3>1 DEF Apart
    <3>3. a.start \in Nat
      BY DEF Area
    <3> QED BY <2>1, <3>1, <3>2, <3>3
  <2>3. \A i \in 1..Len(q) : (q[i].start <= a.start) <=> i <= k
    BY <1>5, <2>2
  <2>4. k \in 0..Len(q) /\ ~ (k > 0 /\ q[k].end > a.start)
        /\ ~ (k < Len(q) /\ a.end > q[k + 1].start)
    BY <1>5, <1>8
  <2> QED BY <1>1, <1>8, <2>3, <2>4, AreaPlaced
<1>10. q = m.areas
  OBVIOUS
<1> HIDE DEF r, bad, n, q
<1>9. e \in Work
  BY <1>3, <1>4, <1>7 DEF Work
<1>11. /\ e.areas = r /\ e.panic = bad /\ e.dirs = m.dirs /\ e.tables = m.tables /\ e.ptes = m.ptes
       /\ e.free = m.free /\ e.lost = m.lost
  BY <1>3 DEF Work
<1>12. ASSUME Apart(m.areas), Spaces!Hangs(m), ~e.panic
       PROVE  /\ Apart(e.areas) /\ Spaces!Hangs(e)
              /\ \A v \in Spaces!Within(a) : v \notin e.ptes /\ Spaces!find_vma(e, v) # {}
  <2>1. /\ Apart(r)
        /\ \E i \in 1..Len(r) : r[i] = a
        /\ \A i \in 1..Len(q) : \E j \in 1..Len(r) : r[j] = q[i]
        /\ \A i \in 1..Len(q) : q[i].end <= a.start \/ a.end <= q[i].start
    BY <1>8, <1>10, <1>11, <1>12
  <2>2. DOMAIN q = 1..Len(q) /\ DOMAIN r = 1..Len(r)
    BY <1>1, <1>7
  <2>3. ASSUME NEW v, Spaces!find_vma(m, v) # {} PROVE Spaces!find_vma(e, v) # {}
    <3>1. PICK i \in 1..Len(q) : v \in Spaces!Within(q[i])
      BY <1>10, <2>2, <2>3 DEF Spaces!find_vma
    <3>2. PICK j \in 1..Len(r) : r[j] = q[i]
      BY <2>1
    <3> QED BY <1>11, <2>2, <3>1, <3>2 DEF Spaces!find_vma
  <2>4. Spaces!Hangs(e)
    BY <1>11, <1>12, <2>3 DEF Spaces!Hangs
  <2>5. ASSUME NEW v \in Spaces!Within(a) PROVE Spaces!find_vma(e, v) # {}
    BY <1>11, <2>1, <2>2 DEF Spaces!find_vma
  <2>6. ASSUME NEW v \in Spaces!Within(a), v \in e.ptes PROVE FALSE
    <3>1. Spaces!find_vma(m, v) # {}
      BY <1>11, <1>12, <2>6 DEF Spaces!Hangs
    <3>2. PICK i \in 1..Len(q) : v \in Spaces!Within(q[i])
      BY <1>10, <2>2, <3>1 DEF Spaces!find_vma
    <3>3. q[i].start \in Nat /\ q[i].end \in Nat /\ a.start \in Nat /\ a.end \in Nat
      <4>1. q[i] \in Area
        BY <1>1, <2>2, <3>2
      <4> QED BY <4>1 DEF Area
    <3>4. q[i].end <= a.start \/ a.end <= q[i].start
      BY <2>1, <3>2
    <3> QED BY <2>6, <3>2, <3>3, <3>4 DEF Spaces!Within
  <2> QED BY <1>11, <2>1, <2>4, <2>5, <2>6
<1> QED BY <1>9, <1>11, <1>12 DEF AreaEntered
-----------------------------------------------------------------------------
(* Folds of the operations *)

Folded(it, n, x, step) == \E f : RunOf(f, Work, x, n, step) /\ it[1..n] = f[n]

LEMMA FoldedBySteps ==
    ASSUME NEW x \in Work, NEW n \in Nat, NEW step \in [1..n -> [Work -> Work]],
           NEW it, it[1..0] = x, GoesOn(it, Work, n, step)
    PROVE  Folded(it, n, x, step)
<1>1. \E f : RunOf(f, Work, x, n, step) /\ it[1..n] = f[n]
  BY StepsInOrder
<1> QED BY <1>1 DEF Folded

CopiedPages(m, from, q) == Spaces!FoldLeft(LAMBDA k, v : Spaces!CopyPage(k, from, v), m, q)
LoadedPages(m, filled, q) == Spaces!FoldLeft(LAMBDA k, v : Spaces!LoadPage(k, v, filled), m, q)
FreedTables(m, a, q) == Spaces!FoldLeft(LAMBDA k, d : Spaces!FreeTables(k, a, d), m, q)
CopiedRanges(m, from, q) == Spaces!FoldLeft(LAMBDA k, a : Spaces!copy_range(k, from, a), m, q)

CopyRun(m, from, q) ==
    \E f : /\ f \in [0..Len(q) -> Work] /\ f[0] = m
           /\ \A j \in 1..Len(q) : f[j] = Spaces!CopyPage(f[j - 1], from, q[j])
           /\ CopiedPages(m, from, q) = f[Len(q)]

LEMMA CopyFolds ==
    ASSUME NEW m \in Work, NEW q \in Seq(Nat), NEW from,
           \A k \in Work, x \in Nat : Spaces!CopyPage(k, from, x) \in Work
    PROVE  CopyRun(m, from, q)
<1> DEFINE n == Len(q)
           Op(k, x) == Spaces!CopyPage(k, from, x)
           step == [j \in 1..n |-> [k \in Work |-> Op(k, q[j])]]
           Is(g) == g = [s \in SUBSET (1..n) |->
                            IF s = {} THEN m ELSE Op(g[s \ {Max(s)}], q[Max(s)])]
           it == CHOOSE g : Is(g)
<1>1. n \in Nat /\ DOMAIN q = 1..n /\ \A j \in 1..n : q[j] \in Nat
  OBVIOUS
<1>2. CopiedPages(m, from, q) = it[1..n]
  BY <1>1, Zenon DEF Spaces!FoldLeft, Spaces!MapThenFoldSet, Spaces!Max, Max, CopiedPages
<1> HIDE DEF Op, n
<1>3. \A j \in 1..n : step[j] \in [Work -> Work]
  BY <1>1 DEF Op
<1>4. step \in [1..n -> [Work -> Work]]
  BY <1>3
<1>5. PICK g : Steps(g, Work, n, m, step)
  BY <1>1, <1>4, StepsExist
<1>6. \A s \in SUBSET (1..n) : s # {} => Max(s) \in 1..n /\ s \ {Max(s)} \in SUBSET (1..n)
  BY <1>1, GreatestPlace
<1>7. Is(g)
  BY <1>5, <1>6 DEF Steps
<1>8. Is(it)
  BY <1>7, Zenon
<1> HIDE DEF it
<1>9. it[1..0] = m
  BY <1>8
<1>10. ASSUME NEW j \in 1..n, it[1..(j - 1)] \in Work
       PROVE  it[1..j] = step[j][it[1..(j - 1)]]
  <2>1. /\ Max(1..j) = j /\ (1..j) \ {j} = 1..(j - 1)
        /\ 1..j \in SUBSET (1..n) /\ 1..j # {}
    BY <1>1, FirstPlaces
  <2>2. it[1..j] = Op(it[1..(j - 1)], q[j])
    BY <1>8, <2>1
  <2> QED BY <1>10, <2>2
<1>11. GoesOn(it, Work, n, step)
  BY <1>10 DEF GoesOn
<1>12. PICK f : RunOf(f, Work, m, n, step) /\ it[1..n] = f[n]
  <2> HIDE DEF step, Is
  <2>1. n \in Nat
    BY <1>1
  <2>2. Folded(it, n, m, step)
    BY <2>1, <1>4, <1>9, <1>11, FoldedBySteps
  <2> QED BY <2>2 DEF Folded
<1>13. f \in [0..n -> Work] /\ f[0] = m
  BY <1>12 DEF RunOf
<1>14. ASSUME NEW j \in 1..n PROVE f[j] = Op(f[j - 1], q[j])
  <2>1. f[j - 1] \in Work
    BY <1>1, <1>13
  <2> QED BY <1>12, <2>1 DEF RunOf
<1> QED BY <1>2, <1>12, <1>13, <1>14 DEF n, Op, CopyRun

LoadRun(m, filled, q) ==
    \E f : /\ f \in [0..Len(q) -> Work] /\ f[0] = m
           /\ \A j \in 1..Len(q) : f[j] = Spaces!LoadPage(f[j - 1], q[j], filled)
           /\ LoadedPages(m, filled, q) = f[Len(q)]

LEMMA LoadFolds ==
    ASSUME NEW m \in Work, NEW q \in Seq(Nat), NEW filled,
           \A k \in Work, x \in Nat : Spaces!LoadPage(k, x, filled) \in Work
    PROVE  LoadRun(m, filled, q)
<1> DEFINE n == Len(q)
           Op(k, x) == Spaces!LoadPage(k, x, filled)
           step == [j \in 1..n |-> [k \in Work |-> Op(k, q[j])]]
           Is(g) == g = [s \in SUBSET (1..n) |->
                            IF s = {} THEN m ELSE Op(g[s \ {Max(s)}], q[Max(s)])]
           it == CHOOSE g : Is(g)
<1>1. n \in Nat /\ DOMAIN q = 1..n /\ \A j \in 1..n : q[j] \in Nat
  OBVIOUS
<1>2. LoadedPages(m, filled, q) = it[1..n]
  BY <1>1, Zenon DEF Spaces!FoldLeft, Spaces!MapThenFoldSet, Spaces!Max, Max, LoadedPages
<1> HIDE DEF Op, n
<1>3. \A j \in 1..n : step[j] \in [Work -> Work]
  BY <1>1 DEF Op
<1>4. step \in [1..n -> [Work -> Work]]
  BY <1>3
<1>5. PICK g : Steps(g, Work, n, m, step)
  BY <1>1, <1>4, StepsExist
<1>6. \A s \in SUBSET (1..n) : s # {} => Max(s) \in 1..n /\ s \ {Max(s)} \in SUBSET (1..n)
  BY <1>1, GreatestPlace
<1>7. Is(g)
  BY <1>5, <1>6 DEF Steps
<1>8. Is(it)
  BY <1>7, Zenon
<1> HIDE DEF it
<1>9. it[1..0] = m
  BY <1>8
<1>10. ASSUME NEW j \in 1..n, it[1..(j - 1)] \in Work
       PROVE  it[1..j] = step[j][it[1..(j - 1)]]
  <2>1. /\ Max(1..j) = j /\ (1..j) \ {j} = 1..(j - 1)
        /\ 1..j \in SUBSET (1..n) /\ 1..j # {}
    BY <1>1, FirstPlaces
  <2>2. it[1..j] = Op(it[1..(j - 1)], q[j])
    BY <1>8, <2>1
  <2> QED BY <1>10, <2>2
<1>11. GoesOn(it, Work, n, step)
  BY <1>10 DEF GoesOn
<1>12. PICK f : RunOf(f, Work, m, n, step) /\ it[1..n] = f[n]
  <2> HIDE DEF step, Is
  <2>1. n \in Nat
    BY <1>1
  <2>2. Folded(it, n, m, step)
    BY <2>1, <1>4, <1>9, <1>11, FoldedBySteps
  <2> QED BY <2>2 DEF Folded
<1>13. f \in [0..n -> Work] /\ f[0] = m
  BY <1>12 DEF RunOf
<1>14. ASSUME NEW j \in 1..n PROVE f[j] = Op(f[j - 1], q[j])
  <2>1. f[j - 1] \in Work
    BY <1>1, <1>13
  <2> QED BY <1>12, <2>1 DEF RunOf
<1> QED BY <1>2, <1>12, <1>13, <1>14 DEF n, Op, LoadRun

LEMMA AllocFolds ==
    ASSUME NEW m \in Work, NEW q \in Seq(Nat),
           \A k \in Work, x \in Nat : Spaces!pgdir_alloc_page(k, x) \in Work
    PROVE  \E f : /\ f \in [0..Len(q) -> Work] /\ f[0] = m
                  /\ \A j \in 1..Len(q) : f[j] = Spaces!pgdir_alloc_page(f[j - 1], q[j])
                  /\ Spaces!FoldLeft(Spaces!pgdir_alloc_page, m, q) = f[Len(q)]
<1> DEFINE n == Len(q)
           Op(k, x) == Spaces!pgdir_alloc_page(k, x)
           step == [j \in 1..n |-> [k \in Work |-> Op(k, q[j])]]
           Is(g) == g = [s \in SUBSET (1..n) |->
                            IF s = {} THEN m ELSE Op(g[s \ {Max(s)}], q[Max(s)])]
           it == CHOOSE g : Is(g)
<1>1. n \in Nat /\ DOMAIN q = 1..n /\ \A j \in 1..n : q[j] \in Nat
  OBVIOUS
<1>2. Spaces!FoldLeft(Spaces!pgdir_alloc_page, m, q) = it[1..n]
  BY <1>1, Zenon DEF Spaces!FoldLeft, Spaces!MapThenFoldSet, Spaces!Max, Max
<1> HIDE DEF Op, n
<1>3. \A j \in 1..n : step[j] \in [Work -> Work]
  BY <1>1 DEF Op
<1>4. step \in [1..n -> [Work -> Work]]
  BY <1>3
<1>5. PICK g : Steps(g, Work, n, m, step)
  BY <1>1, <1>4, StepsExist
<1>6. \A s \in SUBSET (1..n) : s # {} => Max(s) \in 1..n /\ s \ {Max(s)} \in SUBSET (1..n)
  BY <1>1, GreatestPlace
<1>7. Is(g)
  BY <1>5, <1>6 DEF Steps
<1>8. Is(it)
  BY <1>7, Zenon
<1> HIDE DEF it
<1>9. it[1..0] = m
  BY <1>8
<1>10. ASSUME NEW j \in 1..n, it[1..(j - 1)] \in Work
       PROVE  it[1..j] = step[j][it[1..(j - 1)]]
  <2>1. /\ Max(1..j) = j /\ (1..j) \ {j} = 1..(j - 1)
        /\ 1..j \in SUBSET (1..n) /\ 1..j # {}
    BY <1>1, FirstPlaces
  <2>2. it[1..j] = Op(it[1..(j - 1)], q[j])
    BY <1>8, <2>1
  <2> QED BY <1>10, <2>2
<1>11. GoesOn(it, Work, n, step)
  BY <1>10 DEF GoesOn
<1>12. PICK f : RunOf(f, Work, m, n, step) /\ it[1..n] = f[n]
  <2> HIDE DEF step, Is
  <2>1. n \in Nat
    BY <1>1
  <2>2. Folded(it, n, m, step)
    BY <2>1, <1>4, <1>9, <1>11, FoldedBySteps
  <2> QED BY <2>2 DEF Folded
<1>13. f \in [0..n -> Work] /\ f[0] = m
  BY <1>12 DEF RunOf
<1>14. ASSUME NEW j \in 1..n PROVE f[j] = Op(f[j - 1], q[j])
  <2>1. f[j - 1] \in Work
    BY <1>1, <1>13
  <2> QED BY <1>12, <2>1 DEF RunOf
<1> QED BY <1>2, <1>12, <1>13, <1>14 DEF n, Op

LEMMA UnmapFolds ==
    ASSUME NEW m \in Work, NEW q \in Seq(Area),
           \A k \in Work, x \in Area : Spaces!unmap_range(k, x) \in Work
    PROVE  \E f : /\ f \in [0..Len(q) -> Work] /\ f[0] = m
                  /\ \A j \in 1..Len(q) : f[j] = Spaces!unmap_range(f[j - 1], q[j])
                  /\ Spaces!FoldLeft(Spaces!unmap_range, m, q) = f[Len(q)]
<1> DEFINE n == Len(q)
           Op(k, x) == Spaces!unmap_range(k, x)
           step == [j \in 1..n |-> [k \in Work |-> Op(k, q[j])]]
           Is(g) == g = [s \in SUBSET (1..n) |->
                            IF s = {} THEN m ELSE Op(g[s \ {Max(s)}], q[Max(s)])]
           it == CHOOSE g : Is(g)
<1>1. n \in Nat /\ DOMAIN q = 1..n /\ \A j \in 1..n : q[j] \in Area
  OBVIOUS
<1>2. Spaces!FoldLeft(Spaces!unmap_range, m, q) = it[1..n]
  BY <1>1, Zenon DEF Spaces!FoldLeft, Spaces!MapThenFoldSet, Spaces!Max, Max
<1> HIDE DEF Op, n
<1>3. \A j \in 1..n : step[j] \in [Work -> Work]
  BY <1>1 DEF Op
<1>4. step \in [1..n -> [Work -> Work]]
  BY <1>3
<1>5. PICK g : Steps(g, Work, n, m, step)
  BY <1>1, <1>4, StepsExist
<1>6. \A s \in SUBSET (1..n) : s # {} => Max(s) \in 1..n /\ s \ {Max(s)} \in SUBSET (1..n)
  BY <1>1, GreatestPlace
<1>7. Is(g)
  BY <1>5, <1>6 DEF Steps
<1>8. Is(it)
  BY <1>7, Zenon
<1> HIDE DEF it
<1>9. it[1..0] = m
  BY <1>8
<1>10. ASSUME NEW j \in 1..n, it[1..(j - 1)] \in Work
       PROVE  it[1..j] = step[j][it[1..(j - 1)]]
  <2>1. /\ Max(1..j) = j /\ (1..j) \ {j} = 1..(j - 1)
        /\ 1..j \in SUBSET (1..n) /\ 1..j # {}
    BY <1>1, FirstPlaces
  <2>2. it[1..j] = Op(it[1..(j - 1)], q[j])
    BY <1>8, <2>1
  <2> QED BY <1>10, <2>2
<1>11. GoesOn(it, Work, n, step)
  BY <1>10 DEF GoesOn
<1>12. PICK f : RunOf(f, Work, m, n, step) /\ it[1..n] = f[n]
  <2> HIDE DEF step, Is
  <2>1. n \in Nat
    BY <1>1
  <2>2. Folded(it, n, m, step)
    BY <2>1, <1>4, <1>9, <1>11, FoldedBySteps
  <2> QED BY <2>2 DEF Folded
<1>13. f \in [0..n -> Work] /\ f[0] = m
  BY <1>12 DEF RunOf
<1>14. ASSUME NEW j \in 1..n PROVE f[j] = Op(f[j - 1], q[j])
  <2>1. f[j - 1] \in Work
    BY <1>1, <1>13
  <2> QED BY <1>12, <2>1 DEF RunOf
<1> QED BY <1>2, <1>12, <1>13, <1>14 DEF n, Op

TableRun(m, a, q) ==
    \E f : /\ f \in [0..Len(q) -> Work] /\ f[0] = m
           /\ \A j \in 1..Len(q) : f[j] = Spaces!FreeTables(f[j - 1], a, q[j])
           /\ FreedTables(m, a, q) = f[Len(q)]

LEMMA TableFolds ==
    ASSUME NEW m \in Work, NEW q \in Seq(Nat), NEW a,
           \A k \in Work, x \in Nat : Spaces!FreeTables(k, a, x) \in Work
    PROVE  TableRun(m, a, q)
<1> DEFINE n == Len(q)
           Op(k, x) == Spaces!FreeTables(k, a, x)
           step == [j \in 1..n |-> [k \in Work |-> Op(k, q[j])]]
           Is(g) == g = [s \in SUBSET (1..n) |->
                            IF s = {} THEN m ELSE Op(g[s \ {Max(s)}], q[Max(s)])]
           it == CHOOSE g : Is(g)
<1>1. n \in Nat /\ DOMAIN q = 1..n /\ \A j \in 1..n : q[j] \in Nat
  OBVIOUS
<1>2. FreedTables(m, a, q) = it[1..n]
  BY <1>1, Zenon DEF Spaces!FoldLeft, Spaces!MapThenFoldSet, Spaces!Max, Max, FreedTables
<1> HIDE DEF Op, n
<1>3. \A j \in 1..n : step[j] \in [Work -> Work]
  BY <1>1 DEF Op
<1>4. step \in [1..n -> [Work -> Work]]
  BY <1>3
<1>5. PICK g : Steps(g, Work, n, m, step)
  BY <1>1, <1>4, StepsExist
<1>6. \A s \in SUBSET (1..n) : s # {} => Max(s) \in 1..n /\ s \ {Max(s)} \in SUBSET (1..n)
  BY <1>1, GreatestPlace
<1>7. Is(g)
  BY <1>5, <1>6 DEF Steps
<1>8. Is(it)
  BY <1>7, Zenon
<1> HIDE DEF it
<1>9. it[1..0] = m
  BY <1>8
<1>10. ASSUME NEW j \in 1..n, it[1..(j - 1)] \in Work
       PROVE  it[1..j] = step[j][it[1..(j - 1)]]
  <2>1. /\ Max(1..j) = j /\ (1..j) \ {j} = 1..(j - 1)
        /\ 1..j \in SUBSET (1..n) /\ 1..j # {}
    BY <1>1, FirstPlaces
  <2>2. it[1..j] = Op(it[1..(j - 1)], q[j])
    BY <1>8, <2>1
  <2> QED BY <1>10, <2>2
<1>11. GoesOn(it, Work, n, step)
  BY <1>10 DEF GoesOn
<1>12. PICK f : RunOf(f, Work, m, n, step) /\ it[1..n] = f[n]
  <2> HIDE DEF step, Is
  <2>1. n \in Nat
    BY <1>1
  <2>2. Folded(it, n, m, step)
    BY <2>1, <1>4, <1>9, <1>11, FoldedBySteps
  <2> QED BY <2>2 DEF Folded
<1>13. f \in [0..n -> Work] /\ f[0] = m
  BY <1>12 DEF RunOf
<1>14. ASSUME NEW j \in 1..n PROVE f[j] = Op(f[j - 1], q[j])
  <2>1. f[j - 1] \in Work
    BY <1>1, <1>13
  <2> QED BY <1>12, <2>1 DEF RunOf
<1> QED BY <1>2, <1>12, <1>13, <1>14 DEF n, Op, TableRun

LEMMA ExitFolds ==
    ASSUME NEW m \in Work, NEW q \in Seq(Area),
           \A k \in Work, x \in Area : Spaces!exit_range(k, x) \in Work
    PROVE  \E f : /\ f \in [0..Len(q) -> Work] /\ f[0] = m
                  /\ \A j \in 1..Len(q) : f[j] = Spaces!exit_range(f[j - 1], q[j])
                  /\ Spaces!FoldLeft(Spaces!exit_range, m, q) = f[Len(q)]
<1> DEFINE n == Len(q)
           Op(k, x) == Spaces!exit_range(k, x)
           step == [j \in 1..n |-> [k \in Work |-> Op(k, q[j])]]
           Is(g) == g = [s \in SUBSET (1..n) |->
                            IF s = {} THEN m ELSE Op(g[s \ {Max(s)}], q[Max(s)])]
           it == CHOOSE g : Is(g)
<1>1. n \in Nat /\ DOMAIN q = 1..n /\ \A j \in 1..n : q[j] \in Area
  OBVIOUS
<1>2. Spaces!FoldLeft(Spaces!exit_range, m, q) = it[1..n]
  BY <1>1, Zenon DEF Spaces!FoldLeft, Spaces!MapThenFoldSet, Spaces!Max, Max
<1> HIDE DEF Op, n
<1>3. \A j \in 1..n : step[j] \in [Work -> Work]
  BY <1>1 DEF Op
<1>4. step \in [1..n -> [Work -> Work]]
  BY <1>3
<1>5. PICK g : Steps(g, Work, n, m, step)
  BY <1>1, <1>4, StepsExist
<1>6. \A s \in SUBSET (1..n) : s # {} => Max(s) \in 1..n /\ s \ {Max(s)} \in SUBSET (1..n)
  BY <1>1, GreatestPlace
<1>7. Is(g)
  BY <1>5, <1>6 DEF Steps
<1>8. Is(it)
  BY <1>7, Zenon
<1> HIDE DEF it
<1>9. it[1..0] = m
  BY <1>8
<1>10. ASSUME NEW j \in 1..n, it[1..(j - 1)] \in Work
       PROVE  it[1..j] = step[j][it[1..(j - 1)]]
  <2>1. /\ Max(1..j) = j /\ (1..j) \ {j} = 1..(j - 1)
        /\ 1..j \in SUBSET (1..n) /\ 1..j # {}
    BY <1>1, FirstPlaces
  <2>2. it[1..j] = Op(it[1..(j - 1)], q[j])
    BY <1>8, <2>1
  <2> QED BY <1>10, <2>2
<1>11. GoesOn(it, Work, n, step)
  BY <1>10 DEF GoesOn
<1>12. PICK f : RunOf(f, Work, m, n, step) /\ it[1..n] = f[n]
  <2> HIDE DEF step, Is
  <2>1. n \in Nat
    BY <1>1
  <2>2. Folded(it, n, m, step)
    BY <2>1, <1>4, <1>9, <1>11, FoldedBySteps
  <2> QED BY <2>2 DEF Folded
<1>13. f \in [0..n -> Work] /\ f[0] = m
  BY <1>12 DEF RunOf
<1>14. ASSUME NEW j \in 1..n PROVE f[j] = Op(f[j - 1], q[j])
  <2>1. f[j - 1] \in Work
    BY <1>1, <1>13
  <2> QED BY <1>12, <2>1 DEF RunOf
<1> QED BY <1>2, <1>12, <1>13, <1>14 DEF n, Op

RangeRun(m, from, q) ==
    \E f : /\ f \in [0..Len(q) -> Work] /\ f[0] = m
           /\ \A j \in 1..Len(q) : f[j] = Spaces!copy_range(f[j - 1], from, q[j])
           /\ CopiedRanges(m, from, q) = f[Len(q)]

LEMMA RangeFolds ==
    ASSUME NEW m \in Work, NEW q \in Seq(Area), NEW from,
           \A k \in Work, x \in Area : Spaces!copy_range(k, from, x) \in Work
    PROVE  RangeRun(m, from, q)
<1> DEFINE n == Len(q)
           Op(k, x) == Spaces!copy_range(k, from, x)
           step == [j \in 1..n |-> [k \in Work |-> Op(k, q[j])]]
           Is(g) == g = [s \in SUBSET (1..n) |->
                            IF s = {} THEN m ELSE Op(g[s \ {Max(s)}], q[Max(s)])]
           it == CHOOSE g : Is(g)
<1>1. n \in Nat /\ DOMAIN q = 1..n /\ \A j \in 1..n : q[j] \in Area
  OBVIOUS
<1>2. CopiedRanges(m, from, q) = it[1..n]
  BY <1>1, Zenon DEF Spaces!FoldLeft, Spaces!MapThenFoldSet, Spaces!Max, Max, CopiedRanges
<1> HIDE DEF Op, n
<1>3. \A j \in 1..n : step[j] \in [Work -> Work]
  BY <1>1 DEF Op
<1>4. step \in [1..n -> [Work -> Work]]
  BY <1>3
<1>5. PICK g : Steps(g, Work, n, m, step)
  BY <1>1, <1>4, StepsExist
<1>6. \A s \in SUBSET (1..n) : s # {} => Max(s) \in 1..n /\ s \ {Max(s)} \in SUBSET (1..n)
  BY <1>1, GreatestPlace
<1>7. Is(g)
  BY <1>5, <1>6 DEF Steps
<1>8. Is(it)
  BY <1>7, Zenon
<1> HIDE DEF it
<1>9. it[1..0] = m
  BY <1>8
<1>10. ASSUME NEW j \in 1..n, it[1..(j - 1)] \in Work
       PROVE  it[1..j] = step[j][it[1..(j - 1)]]
  <2>1. /\ Max(1..j) = j /\ (1..j) \ {j} = 1..(j - 1)
        /\ 1..j \in SUBSET (1..n) /\ 1..j # {}
    BY <1>1, FirstPlaces
  <2>2. it[1..j] = Op(it[1..(j - 1)], q[j])
    BY <1>8, <2>1
  <2> QED BY <1>10, <2>2
<1>11. GoesOn(it, Work, n, step)
  BY <1>10 DEF GoesOn
<1>12. PICK f : RunOf(f, Work, m, n, step) /\ it[1..n] = f[n]
  <2> HIDE DEF step, Is
  <2>1. n \in Nat
    BY <1>1
  <2>2. Folded(it, n, m, step)
    BY <2>1, <1>4, <1>9, <1>11, FoldedBySteps
  <2> QED BY <2>2 DEF Folded
<1>13. f \in [0..n -> Work] /\ f[0] = m
  BY <1>12 DEF RunOf
<1>14. ASSUME NEW j \in 1..n PROVE f[j] = Op(f[j - 1], q[j])
  <2>1. f[j - 1] \in Work
    BY <1>1, <1>13
  <2> QED BY <1>12, <2>1 DEF RunOf
<1> QED BY <1>2, <1>12, <1>13, <1>14 DEF n, Op, RangeRun

LEMMA SegmentFolds ==
    ASSUME NEW m \in Work, NEW q \in Seq(Segment),
           \A k \in Work, x \in Segment : Spaces!LoadSegment(k, x) \in Work
    PROVE  \E f : /\ f \in [0..Len(q) -> Work] /\ f[0] = m
                  /\ \A j \in 1..Len(q) : f[j] = Spaces!LoadSegment(f[j - 1], q[j])
                  /\ Spaces!FoldLeft(Spaces!LoadSegment, m, q) = f[Len(q)]
<1> DEFINE n == Len(q)
           Op(k, x) == Spaces!LoadSegment(k, x)
           step == [j \in 1..n |-> [k \in Work |-> Op(k, q[j])]]
           Is(g) == g = [s \in SUBSET (1..n) |->
                            IF s = {} THEN m ELSE Op(g[s \ {Max(s)}], q[Max(s)])]
           it == CHOOSE g : Is(g)
<1>1. n \in Nat /\ DOMAIN q = 1..n /\ \A j \in 1..n : q[j] \in Segment
  OBVIOUS
<1>2. Spaces!FoldLeft(Spaces!LoadSegment, m, q) = it[1..n]
  BY <1>1, Zenon DEF Spaces!FoldLeft, Spaces!MapThenFoldSet, Spaces!Max, Max
<1> HIDE DEF Op, n
<1>3. \A j \in 1..n : step[j] \in [Work -> Work]
  BY <1>1 DEF Op
<1>4. step \in [1..n -> [Work -> Work]]
  BY <1>3
<1>5. PICK g : Steps(g, Work, n, m, step)
  BY <1>1, <1>4, StepsExist
<1>6. \A s \in SUBSET (1..n) : s # {} => Max(s) \in 1..n /\ s \ {Max(s)} \in SUBSET (1..n)
  BY <1>1, GreatestPlace
<1>7. Is(g)
  BY <1>5, <1>6 DEF Steps
<1>8. Is(it)
  BY <1>7, Zenon
<1> HIDE DEF it
<1>9. it[1..0] = m
  BY <1>8
<1>10. ASSUME NEW j \in 1..n, it[1..(j - 1)] \in Work
       PROVE  it[1..j] = step[j][it[1..(j - 1)]]
  <2>1. /\ Max(1..j) = j /\ (1..j) \ {j} = 1..(j - 1)
        /\ 1..j \in SUBSET (1..n) /\ 1..j # {}
    BY <1>1, FirstPlaces
  <2>2. it[1..j] = Op(it[1..(j - 1)], q[j])
    BY <1>8, <2>1
  <2> QED BY <1>10, <2>2
<1>11. GoesOn(it, Work, n, step)
  BY <1>10 DEF GoesOn
<1>12. PICK f : RunOf(f, Work, m, n, step) /\ it[1..n] = f[n]
  <2> HIDE DEF step, Is
  <2>1. n \in Nat
    BY <1>1
  <2>2. Folded(it, n, m, step)
    BY <2>1, <1>4, <1>9, <1>11, FoldedBySteps
  <2> QED BY <2>2 DEF Folded
<1>13. f \in [0..n -> Work] /\ f[0] = m
  BY <1>12 DEF RunOf
<1>14. ASSUME NEW j \in 1..n PROVE f[j] = Op(f[j - 1], q[j])
  <2>1. f[j - 1] \in Work
    BY <1>1, <1>13
  <2> QED BY <1>12, <2>1 DEF RunOf
<1> QED BY <1>2, <1>12, <1>13, <1>14 DEF n, Op
-----------------------------------------------------------------------------
(* The pages of a range *)

\* Every page of w is new to m and lies in one of its areas.
Room(m, w) == \A i \in DOMAIN w : w[i] \notin m.ptes /\ Spaces!find_vma(m, w[i]) # {}

\* What operations on pages make of m, and more of it if there is room.
PagesRun(m, n, w) ==
    /\ n \in Work /\ (m.panic => n.panic)
    /\ Room(m, w) => PagesDone(m, n)

LEMMA RunInOrder ==
    ASSUME NEW w \in Seq(Nat), NEW m \in Work,
           \A i, j \in 1..Len(w) : i # j => w[i] # w[j],
           NEW f \in [0..Len(w) -> Work], f[0] = m,
           \A j \in 1..Len(w) : Paged(f[j - 1], f[j], w[j])
    PROVE  PagesRun(m, f[Len(w)], w)
<1> DEFINE l == Len(w)
<1>1. l \in Nat /\ DOMAIN w = 1..l /\ w \in [1..l -> Nat] /\ l = Len(w)
  OBVIOUS
<1> HIDE DEF l
<1>2. m.panic => f[l].panic
  <2> SUFFICES ASSUME m.panic PROVE f[l].panic
    OBVIOUS
  <2> DEFINE S == {j \in Nat : j <= l => f[j].panic}
  <2>1. 0 \in S
    OBVIOUS
  <2>2. \A j \in Nat : j \in S => j + 1 \in S
    <3>1. ASSUME NEW j \in Nat, j \in S, j + 1 <= l PROVE f[j + 1].panic
      <4>1. j + 1 \in 1..l /\ (j + 1) - 1 = j /\ f[j].panic
        BY <1>1, <3>1
      <4>2. Paged(f[j], f[j + 1], w[j + 1])
        BY <1>1, <4>1
      <4> QED BY <4>1, <4>2 DEF Paged
    <3> QED BY <3>1
  <2>3. Nat \subseteq S
    BY <2>1, <2>2, SetInduction
  <2> QED BY <1>1, <2>3
<1>3. ASSUME Room(m, w) PROVE PagesDone(m, f[l])
  <2>1. \A i \in 1..l : w[i] \notin m.ptes /\ Spaces!find_vma(m, w[i]) # {}
    BY <1>1, <1>3 DEF Room
  <2> QED BY <1>1, <2>1, PagesInOrder
<1>4. f[l] \in Work
  BY <1>1
<1> QED BY <1>1, <1>2, <1>3, <1>4 DEF PagesRun

LEMMA PagesOfRange ==
    ASSUME NEW b \in Nat, NEW c \in Nat, b <= c
    PROVE  LET w == [i \in 1..(c - b) |-> b + i - 1]
           IN  /\ w \in Seq(Nat)
               /\ \A i, j \in 1..Len(w) : i # j => w[i] # w[j]
               /\ \A i \in DOMAIN w : w[i] \in b..(c - 1)
<1> DEFINE w == [i \in 1..(c - b) |-> b + i - 1]
<1>1. c - b \in Nat /\ \A i \in 1..(c - b) : b + i - 1 \in Nat
  OBVIOUS
<1>2. w \in Seq(Nat) /\ Len(w) = c - b
  BY <1>1
<1> QED BY <1>1, <1>2

\* The areas of a program and those of a process are areas of pages.
LEMMA PagesOfArea ==
    ASSUME NEW a, a.start \in Nat, a.end \in Nat, a.start < a.end
    PROVE  /\ Spaces!Pages(a) \in Seq(Nat)
           /\ \A i, j \in 1..Len(Spaces!Pages(a)) : i # j => Spaces!Pages(a)[i] # Spaces!Pages(a)[j]
           /\ \A i \in DOMAIN Spaces!Pages(a) : Spaces!Pages(a)[i] \in Spaces!Within(a)
BY PagesOfRange DEF Spaces!Pages, Spaces!Within

LEMMA RangeCopied ==
    ASSUME NEW m \in Work, NEW from, NEW a \in Area
    PROVE  PagesRun(m, CopiedPages(m, from, Spaces!Pages(a)), Spaces!Pages(a))
<1> DEFINE w == Spaces!Pages(a)
<1>1. w \in Seq(Nat) /\ \A i, j \in 1..Len(w) : i # j => w[i] # w[j]
  BY PagesOfArea DEF Area
<1> HIDE DEF w
<1>2. \A k \in Work, x \in Nat : Paged(k, Spaces!CopyPage(k, from, x), x)
  BY PageCopied
<1>3. \A k \in Work, x \in Nat : Spaces!CopyPage(k, from, x) \in Work
  BY <1>2 DEF Paged
<1>4. PICK f : /\ f \in [0..Len(w) -> Work] /\ f[0] = m
               /\ \A j \in 1..Len(w) : f[j] = Spaces!CopyPage(f[j - 1], from, w[j])
               /\ CopiedPages(m, from, w) = f[Len(w)]
  <2>1. CopyRun(m, from, w)
    BY <1>1, <1>3, CopyFolds
  <2> QED BY <2>1 DEF CopyRun
<1>5. ASSUME NEW j \in 1..Len(w) PROVE Paged(f[j - 1], f[j], w[j])
  <2>1. j - 1 \in 0..Len(w) /\ w[j] \in Nat
    BY <1>1
  <2>2. f[j - 1] \in Work
    BY <1>4, <2>1
  <2> QED BY <1>2, <1>4, <2>1, <2>2
<1>6. PagesRun(m, f[Len(w)], w)
  BY <1>1, <1>4, <1>5, RunInOrder
<1> QED BY <1>4, <1>6 DEF w

LEMMA RangeLoaded ==
    ASSUME NEW m \in Work, NEW s \in Segment
    PROVE  PagesRun(m, LoadedPages(m, s.filled, Spaces!Pages(s)), Spaces!Pages(s))
<1> DEFINE w == Spaces!Pages(s)
           filled == s.filled
<1>1. w \in Seq(Nat) /\ \A i, j \in 1..Len(w) : i # j => w[i] # w[j]
  BY PagesOfArea DEF Segment
<1> HIDE DEF w, filled
<1>2. \A k \in Work, x \in Nat : Paged(k, Spaces!LoadPage(k, x, filled), x)
  BY PageLoaded
<1>3. \A k \in Work, x \in Nat : Spaces!LoadPage(k, x, filled) \in Work
  BY <1>2 DEF Paged
<1>4. PICK f : /\ f \in [0..Len(w) -> Work] /\ f[0] = m
               /\ \A j \in 1..Len(w) : f[j] = Spaces!LoadPage(f[j - 1], w[j], filled)
               /\ LoadedPages(m, filled, w) = f[Len(w)]
  <2>1. LoadRun(m, filled, w)
    BY <1>1, <1>3, LoadFolds
  <2> QED BY <2>1 DEF LoadRun
<1>5. ASSUME NEW j \in 1..Len(w) PROVE Paged(f[j - 1], f[j], w[j])
  <2>1. j - 1 \in 0..Len(w) /\ w[j] \in Nat
    BY <1>1
  <2>2. f[j - 1] \in Work
    BY <1>4, <2>1
  <2> QED BY <1>2, <1>4, <2>1, <2>2
<1>6. PagesRun(m, f[Len(w)], w)
  BY <1>1, <1>4, <1>5, RunInOrder
<1> QED BY <1>4, <1>6 DEF w, filled

LEMMA RangeAllocated ==
    ASSUME NEW m \in Work, NEW w \in Seq(Nat), \A i, j \in 1..Len(w) : i # j => w[i] # w[j]
    PROVE  PagesRun(m, Spaces!FoldLeft(Spaces!pgdir_alloc_page, m, w), w)
<1>2. \A k \in Work, x \in Nat : Paged(k, Spaces!pgdir_alloc_page(k, x), x)
  BY PageAllocated
<1>3. \A k \in Work, x \in Nat : Spaces!pgdir_alloc_page(k, x) \in Work
  BY <1>2 DEF Paged
<1>4. PICK f : /\ f \in [0..Len(w) -> Work] /\ f[0] = m
               /\ \A j \in 1..Len(w) : f[j] = Spaces!pgdir_alloc_page(f[j - 1], w[j])
               /\ Spaces!FoldLeft(Spaces!pgdir_alloc_page, m, w) = f[Len(w)]
  BY <1>3, AllocFolds
<1>5. ASSUME NEW j \in 1..Len(w) PROVE Paged(f[j - 1], f[j], w[j])
  <2>1. j - 1 \in 0..Len(w) /\ w[j] \in Nat
    OBVIOUS
  <2>2. f[j - 1] \in Work
    BY <1>4, <2>1
  <2> QED BY <1>2, <1>4, <2>1, <2>2
<1>6. PagesRun(m, f[Len(w)], w)
  BY <1>4, <1>5, RunInOrder
<1> QED BY <1>4, <1>6

-----------------------------------------------------------------------------
(* What is given back *)

\* Pages and tables change places, none is lost from the count.
Regained(m, n) ==
    /\ n \in Work /\ n.areas = m.areas /\ n.panic = m.panic /\ Total(n) = Total(m)

LEMMA SameCount == \A s : Spaces!Cardinality(s) = Cardinality(s)
BY DEF Spaces!Cardinality, Cardinality

LEMMA RangeUnmapped ==
    ASSUME NEW m \in Work, NEW a
    PROVE  LET n == Spaces!unmap_range(m, a)
           IN  Regained(m, n) /\ n.ptes = m.ptes \ Spaces!Within(a)
<1> DEFINE n == Spaces!unmap_range(m, a)
           b == Spaces!Within(a)
           c == Cardinality(m.ptes \cap b)
<1>1. /\ m.free \in Int /\ m.lost \in Int /\ Total(m) \in Int
      /\ Cardinality(m.dirs) \in Nat /\ Cardinality(m.tables) \in Nat
      /\ Cardinality(m.ptes) \in Nat /\ m.ptes \in FinNat
  BY WorkNumbers
<1>2. n = [m EXCEPT !.ptes = m.ptes \ b, !.free = m.free + c]
  <2>1. n = [m EXCEPT !.ptes = m.ptes \ b, !.free = m.free + Spaces!Cardinality(m.ptes \cap b)]
    BY DEF Spaces!unmap_range
  <2> QED BY <2>1, SameCount
<1> HIDE DEF b, n
<1>3. /\ m.ptes \ b \in FinNat /\ c \in Nat
      /\ Cardinality(m.ptes \ b) = Cardinality(m.ptes) - c
  BY <1>1, CountSplit
<1> HIDE DEF c
<1>4. m.free + c \in Int
  BY <1>1, <1>3
<1>5. n \in Work
  BY <1>2, <1>3, <1>4 DEF Work
<1>6. n.areas = m.areas /\ n.panic = m.panic
  BY <1>2 DEF Work
<1>7. n.ptes = m.ptes \ b /\ n.free = m.free + c /\ n.dirs = m.dirs /\ n.tables = m.tables
      /\ n.lost = m.lost
  BY <1>2 DEF Work
<1>8. Total(n) = Total(m)
  BY <1>1, <1>3, <1>7 DEF Total
<1> QED BY <1>5, <1>6, <1>7, <1>8 DEF Regained, b, n

\* FreeTables frees the empty tables of the range, and the directory; the tables
\* that it cuts off are lost.
LEMMA TablesFreed ==
    ASSUME NEW m \in Work, NEW a, NEW d
    PROVE  LET n == Spaces!FreeTables(m, a, d)
           IN  Regained(m, n) /\ n.ptes = m.ptes
<1> DEFINE n == Spaces!FreeTables(m, a, d)
           range == {t \in Spaces!PTof(a.start)..Spaces!PTof(a.end - 1) : Spaces!PDofTable(t) = d}
           empty == {t \in range \cap m.tables : \A v \in m.ptes : Spaces!PTof(v) # t}
           left  == m.tables \ empty
           free_pd0 == range \subseteq m.tables
           cut   == IF free_pd0 THEN {t \in left : Spaces!PDofTable(t) = d} ELSE {}
           one   == IF free_pd0 THEN 1 ELSE 0
           dirs  == IF free_pd0 THEN m.dirs \ {d} ELSE m.dirs
<1> SUFFICES Regained(m, n) /\ n.ptes = m.ptes
  OBVIOUS
<1>1. /\ m.free \in Int /\ m.lost \in Int /\ Total(m) \in Int
      /\ Cardinality(m.dirs) \in Nat /\ Cardinality(m.ptes) \in Nat
      /\ m.dirs \in FinNat /\ m.tables \in FinNat
  BY WorkNumbers
<1>2. CASE d \notin m.dirs
  <2>1. n = m
    BY <1>2 DEF Spaces!FreeTables
  <2> QED BY <2>1 DEF Regained
<1>3. CASE d \in m.dirs
  <2>1. n = [m EXCEPT !.tables = left \ cut, !.dirs = dirs,
                      !.free = m.free + Cardinality(empty) + one,
                      !.lost = m.lost + Cardinality(cut)]
    <3>1. n = IF d \notin m.dirs THEN m
              ELSE [m EXCEPT !.tables = left \ cut, !.dirs = dirs,
                             !.free = m.free + Spaces!Cardinality(empty) + one,
                             !.lost = m.lost + Spaces!Cardinality(cut)]
      BY DEF Spaces!FreeTables
    <3> HIDE DEF n, left, cut, dirs, empty, one
    <3> QED BY <1>3, <3>1, SameCount
  <2>2. empty \subseteq m.tables /\ cut \subseteq left
    OBVIOUS
  <2>3. one \in Nat /\ dirs \in {m.dirs, m.dirs \ {d}} /\ (dirs = m.dirs \ {d} => TRUE)
    OBVIOUS
  <2>4. \/ one = 1 /\ dirs = m.dirs \ {d}
        \/ one = 0 /\ dirs = m.dirs
    OBVIOUS
  <2> HIDE DEF n, empty, cut, one, dirs, free_pd0
  <2>5. /\ left \in FinNat /\ Cardinality(left) \in Nat /\ Cardinality(empty) \in Nat
        /\ Cardinality(left) = Cardinality(m.tables) - Cardinality(empty)
    <3>1. m.tables \cap empty = empty
      BY <2>2
    <3> QED BY <1>1, <3>1, CountSplit
  <2> HIDE DEF left
  <2>6. /\ left \ cut \in FinNat /\ Cardinality(cut) \in Nat
        /\ Cardinality(left \ cut) = Cardinality(left) - Cardinality(cut)
    <3>1. left \cap cut = cut
      BY <2>2
    <3> QED BY <2>5, <3>1, CountSplit
  <2>7. dirs \in FinNat /\ Cardinality(dirs) + one = Cardinality(m.dirs)
    <3>1. m.dirs \ {d} \in FinNat /\ Cardinality(m.dirs \ {d}) + 1 = Cardinality(m.dirs)
      <4>1. IsFiniteSet(m.dirs) /\ m.dirs \subseteq Nat
        BY <1>1 DEF FinNat
      <4>2. IsFiniteSet(m.dirs \ {d}) /\ Cardinality(m.dirs \ {d}) = Cardinality(m.dirs) - 1
        BY <1>3, <4>1, FS_RemoveElement
      <4> QED BY <1>1, <4>1, <4>2 DEF FinNat
    <3> QED BY <1>1, <2>4, <3>1
  <2>8. m.free + Cardinality(empty) + one \in Int /\ m.lost + Cardinality(cut) \in Int
    BY <1>1, <2>3, <2>5, <2>6
  <2>9. n \in Work
    BY <2>1, <2>6, <2>7, <2>8 DEF Work
  <2>10. n.areas = m.areas /\ n.panic = m.panic /\ n.ptes = m.ptes
    BY <2>1 DEF Work
  <2>11. /\ n.tables = left \ cut /\ n.dirs = dirs
         /\ n.free = m.free + Cardinality(empty) + one /\ n.lost = m.lost + Cardinality(cut)
    BY <2>1 DEF Work
  <2>12. Total(n) = Total(m)
    <3>1. Cardinality(m.tables) \in Nat /\ Cardinality(dirs) \in Nat
      <4>1. IsFiniteSet(m.tables) /\ IsFiniteSet(dirs)
        BY <1>1, <2>7 DEF FinNat
      <4> QED BY <4>1, FS_CardinalityType
    <3> QED BY <1>1, <2>3, <2>5, <2>6, <2>7, <2>10, <2>11, <3>1 DEF Total
  <2> QED BY <2>9, <2>10, <2>12 DEF Regained
<1> QED BY <1>2, <1>3

\* A run of such steps.
LEMMA MovesInOrder ==
    ASSUME NEW l \in Nat, NEW f \in [0..l -> Work],
           \A j \in 1..l : Regained(f[j - 1], f[j]) /\ f[j].ptes = f[j - 1].ptes
    PROVE  Regained(f[0], f[l]) /\ f[l].ptes = f[0].ptes
<1> DEFINE S == {j \in Nat : j <= l => Regained(f[0], f[j]) /\ f[j].ptes = f[0].ptes}
<1>1. 0 \in S
  BY DEF Regained
<1>2. \A j \in Nat : j \in S => j + 1 \in S
  <2>1. ASSUME NEW j \in Nat, j \in S, j + 1 <= l
        PROVE  Regained(f[0], f[j + 1]) /\ f[j + 1].ptes = f[0].ptes
    <3>1. j + 1 \in 1..l /\ (j + 1) - 1 = j /\ Regained(f[0], f[j]) /\ f[j].ptes = f[0].ptes
      BY <2>1
    <3>2. Regained(f[j], f[j + 1]) /\ f[j + 1].ptes = f[j].ptes
      BY <3>1
    <3> QED BY <3>1, <3>2 DEF Regained
  <2> QED BY <2>1
<1>3. Nat \subseteq S
  BY <1>1, <1>2, SetInduction
<1> QED BY <1>3

LEMMA NumbersFrom ==
    ASSUME NEW b \in Nat, NEW c \in Int
    PROVE  [i \in 1..c |-> b + i - 1] \in Seq(Nat)
<1> DEFINE d == IF c < 0 THEN 0 ELSE c
<1>1. d \in Nat /\ 1..c = 1..d /\ \A i \in 1..d : b + i - 1 \in Nat
  OBVIOUS
<1> HIDE DEF d
<1>2. [i \in 1..d |-> b + i - 1] \in Seq(Nat)
  BY <1>1
<1> QED BY <1>1, <1>2

LEMMA RangeExited ==
    ASSUME NEW m \in Work, NEW a \in Area
    PROVE  LET n == Spaces!exit_range(m, a) IN Regained(m, n) /\ n.ptes = m.ptes
<1> DEFINE b == Spaces!PDof(a.start)
           c == Spaces!PDof(a.end - 1) - b + 1
           w == [i \in 1..c |-> b + i - 1]
           n == Spaces!exit_range(m, a)
<1>1. n = FreedTables(m, a, w)
  BY Zenon DEF Spaces!exit_range, FreedTables, Spaces!FoldLeft
<1>2. b \in Nat /\ c \in Int
  <2>1. a.start \in Nat /\ a.end - 1 \in Nat
    BY DEF Area
  <2>2. b \in Nat /\ Spaces!PDof(a.end - 1) \in Nat
    BY <2>1, SpaceNumbers
  <2> QED BY <2>2
<1> HIDE DEF b, c, n
<1>3. w \in Seq(Nat)
  BY <1>2, NumbersFrom
<1> HIDE DEF w
<1>4. \A k \in Work, x \in Nat : Regained(k, Spaces!FreeTables(k, a, x))
                                 /\ Spaces!FreeTables(k, a, x).ptes = k.ptes
  BY TablesFreed
<1>5. \A k \in Work, x \in Nat : Spaces!FreeTables(k, a, x) \in Work
  BY <1>4 DEF Regained
<1>6. PICK f : /\ f \in [0..Len(w) -> Work] /\ f[0] = m
               /\ \A j \in 1..Len(w) : f[j] = Spaces!FreeTables(f[j - 1], a, w[j])
               /\ FreedTables(m, a, w) = f[Len(w)]
  <2>1. TableRun(m, a, w)
    BY <1>3, <1>5, TableFolds
  <2> QED BY <2>1 DEF TableRun
<1>7. ASSUME NEW j \in 1..Len(w) PROVE Regained(f[j - 1], f[j]) /\ f[j].ptes = f[j - 1].ptes
  <2>1. j - 1 \in 0..Len(w) /\ w[j] \in Nat
    BY <1>3
  <2>2. f[j - 1] \in Work
    BY <1>6, <2>1
  <2> QED BY <1>4, <1>6, <2>1, <2>2
<1>8. Len(w) \in Nat
  BY <1>3
<1>9. Regained(f[0], f[Len(w)]) /\ f[Len(w)].ptes = f[0].ptes
  BY <1>6, <1>7, <1>8, MovesInOrder
<1> QED BY <1>1, <1>6, <1>9 DEF n

LEMMA RangesExited ==
    ASSUME NEW m \in Work, NEW q \in Seq(Area)
    PROVE  LET n == Spaces!FoldLeft(Spaces!exit_range, m, q)
           IN  Regained(m, n) /\ n.ptes = m.ptes
<1>4. \A k \in Work, x \in Area : Regained(k, Spaces!exit_range(k, x))
                                  /\ Spaces!exit_range(k, x).ptes = k.ptes
  BY RangeExited
<1>5. \A k \in Work, x \in Area : Spaces!exit_range(k, x) \in Work
  BY <1>4 DEF Regained
<1>6. PICK f : /\ f \in [0..Len(q) -> Work] /\ f[0] = m
               /\ \A j \in 1..Len(q) : f[j] = Spaces!exit_range(f[j - 1], q[j])
               /\ Spaces!FoldLeft(Spaces!exit_range, m, q) = f[Len(q)]
  BY <1>5, ExitFolds
<1>7. ASSUME NEW j \in 1..Len(q) PROVE Regained(f[j - 1], f[j]) /\ f[j].ptes = f[j - 1].ptes
  <2>1. j - 1 \in 0..Len(q) /\ q[j] \in Area
    OBVIOUS
  <2>2. f[j - 1] \in Work
    BY <1>6, <2>1
  <2> QED BY <1>4, <1>6, <2>1, <2>2
<1>8. Len(q) \in Nat
  OBVIOUS
<1>9. Regained(f[0], f[Len(q)]) /\ f[Len(q)].ptes = f[0].ptes
  BY <1>6, <1>7, <1>8, MovesInOrder
<1> QED BY <1>6, <1>9

LEMMA RangesUnmapped ==
    ASSUME NEW m \in Work, NEW q \in Seq(Area)
    PROVE  LET n == Spaces!FoldLeft(Spaces!unmap_range, m, q)
           IN  /\ Regained(m, n) /\ n.ptes \subseteq m.ptes
               /\ \A v \in n.ptes : \A i \in 1..Len(q) : v \notin Spaces!Within(q[i])
<1>4. \A k \in Work, x \in Area :
         Regained(k, Spaces!unmap_range(k, x))
         /\ Spaces!unmap_range(k, x).ptes = k.ptes \ Spaces!Within(x)
  BY RangeUnmapped
<1>5. \A k \in Work, x \in Area : Spaces!unmap_range(k, x) \in Work
  BY <1>4 DEF Regained
<1>6. PICK f : /\ f \in [0..Len(q) -> Work] /\ f[0] = m
               /\ \A j \in 1..Len(q) : f[j] = Spaces!unmap_range(f[j - 1], q[j])
               /\ Spaces!FoldLeft(Spaces!unmap_range, m, q) = f[Len(q)]
  BY <1>5, UnmapFolds
<1> DEFINE Gone(j) == /\ Regained(m, f[j]) /\ f[j].ptes \subseteq m.ptes
                      /\ \A v \in f[j].ptes : \A i \in 1..j : v \notin Spaces!Within(q[i])
           S == {j \in Nat : j <= Len(q) => Gone(j)}
<1>7. 0 \in S
  <2>1. Gone(0)
    BY <1>6 DEF Regained
  <2> QED BY <2>1
<1>8. ASSUME NEW j \in Nat, j \in S, j + 1 <= Len(q) PROVE Gone(j + 1)
  <2>1. j + 1 \in 1..Len(q) /\ (j + 1) - 1 = j /\ q[j + 1] \in Area /\ f[j] \in Work
    BY <1>6, <1>8
  <2>2. Gone(j)
    BY <1>8
  <2>3. Regained(f[j], f[j + 1]) /\ f[j + 1].ptes = f[j].ptes \ Spaces!Within(q[j + 1])
    BY <1>4, <1>6, <2>1
  <2>4. Regained(m, f[j + 1])
    BY <2>2, <2>3 DEF Regained
  <2>5. \A i \in 1..(j + 1) : i \in 1..j \/ i = j + 1
    OBVIOUS
  <2> QED BY <2>2, <2>3, <2>4, <2>5
<1>9. \A j \in Nat : j \in S => j + 1 \in S
  <2> HIDE DEF Gone
  <2> QED BY <1>8
<1>10. Nat \subseteq S
  <2> HIDE DEF S
  <2> QED BY <1>7, <1>9, SetInduction
<1>11. Gone(Len(q))
  <2>1. Len(q) \in S
    <3>1. Len(q) \in Nat
      OBVIOUS
    <3> HIDE DEF S
    <3> QED BY <1>10, <3>1
  <2> HIDE DEF Gone
  <2> QED BY <2>1
<1> QED BY <1>6, <1>11

\* exit_mmap and put_pgdir: what the space had is free again, but for the tables
\* that are lost.
LEMMA SpaceReleased ==
    ASSUME NEW m \in Work, Spaces!Hangs(m)
    PROVE  LET n == Spaces!Released(m)
           IN  n \in Work /\ n.panic = m.panic /\ n.free + n.lost = Total(m) + 1
<1> DEFINE q == m.areas
           u == Spaces!FoldLeft(Spaces!unmap_range, m, q)
           e == Spaces!FoldLeft(Spaces!exit_range, u, q)
           n == Spaces!Released(m)
<1>1. q \in Seq(Area) /\ DOMAIN q = 1..Len(q)
  BY DEF Work
<1>2. /\ Regained(m, u) /\ u.ptes \subseteq m.ptes
      /\ \A v \in u.ptes : \A i \in 1..Len(q) : v \notin Spaces!Within(q[i])
  BY <1>1, RangesUnmapped
<1>3. u.ptes = {}
  <2> SUFFICES ASSUME NEW v \in u.ptes PROVE FALSE
    OBVIOUS
  <2>1. Spaces!find_vma(m, v) # {}
    BY <1>2 DEF Spaces!Hangs
  <2>2. PICK i \in 1..Len(q) : v \in Spaces!Within(q[i])
    BY <1>1, <2>1 DEF Spaces!find_vma
  <2> QED BY <1>2, <2>2
<1>4. n = [e EXCEPT !.free = e.free + 1,
                    !.lost = e.lost + Spaces!Cardinality(e.dirs) + Spaces!Cardinality(e.tables)]
  BY DEF Spaces!Released, Spaces!put_pgdir, Spaces!exit_mmap
<1> HIDE DEF u
<1>5. Regained(u, e) /\ e.ptes = u.ptes
  <2>1. u \in Work
    BY <1>2 DEF Regained
  <2> QED BY <1>1, <2>1, RangesExited
<1> HIDE DEF e
<1>6. e \in Work /\ e.panic = m.panic /\ Total(e) = Total(m) /\ e.ptes = {}
  BY <1>2, <1>3, <1>5 DEF Regained
<1>7. /\ e.free \in Int /\ e.lost \in Int
      /\ Cardinality(e.dirs) \in Nat /\ Cardinality(e.tables) \in Nat
      /\ Cardinality(e.ptes) = 0
  BY <1>6, WorkNumbers, FS_EmptySet
<1>8. n.free = e.free + 1 /\ n.lost = e.lost + Cardinality(e.dirs) + Cardinality(e.tables)
      /\ n.panic = e.panic
  <2> HIDE DEF n
  <2> QED BY <1>4, <1>6, SameCount DEF Work
<1>10. n \in Work
  <2> DEFINE x == e.free + 1
             y == e.lost + Spaces!Cardinality(e.dirs) + Spaces!Cardinality(e.tables)
  <2>1. x \in Int /\ y \in Int
    BY <1>7, SameCount
  <2>2. n = [e EXCEPT !.free = x, !.lost = y]
    BY <1>4
  <2> HIDE DEF n, x, y
  <2> QED BY <1>6, <2>1, <2>2 DEF Work
<1> HIDE DEF n
<1>9. n.free + n.lost = Total(m) + 1
  BY <1>6, <1>7, <1>8 DEF Total
<1>12. n.panic = m.panic
  BY <1>6, <1>8
<1> QED BY <1>9, <1>10, <1>12 DEF n
-----------------------------------------------------------------------------
(* Spaces that are built *)

\* A space that is being built, as long as no assertion has failed.
Well(m) == m \in Work /\ (~m.panic => Apart(m.areas) /\ Spaces!Hangs(m))

Built(m, n) == Well(n) /\ (m.panic => n.panic) /\ (~n.panic => Total(n) = Total(m))

LEMMA BuiltFurther ==
    ASSUME NEW m, NEW n, NEW k, Built(m, n), Built(n, k)
    PROVE  Built(m, k)
BY DEF Built, Well, Work

\* A new area and the run of operations on its pages.
LEMMA AreaBuilt ==
    ASSUME NEW m, Well(m), ~m.panic, NEW a, NEW e, AreaEntered(m, e, a),
           NEW w \in Seq(Nat), \A i \in DOMAIN w : w[i] \in Spaces!Within(a),
           NEW n, PagesRun(e, n, w)
    PROVE  Built(m, n)
<1>1. m \in Work /\ Apart(m.areas) /\ Spaces!Hangs(m)
  BY DEF Well
<1>2. n \in Work /\ e \in Work /\ e.panic \in BOOLEAN
  BY DEF AreaEntered, PagesRun, Work
<1>3. CASE e.panic
  <2>1. n.panic
    BY <1>3 DEF PagesRun
  <2> QED BY <1>2, <2>1 DEF Built, Well
<1>4. CASE ~e.panic
  <2>1. Apart(e.areas) /\ Spaces!Hangs(e) /\ Total(e) = Total(m)
        /\ \A v \in Spaces!Within(a) : v \notin e.ptes /\ Spaces!find_vma(e, v) # {}
    BY <1>1, <1>4 DEF AreaEntered, Total
  <2>2. Room(e, w)
    BY <2>1 DEF Room
  <2>3. PagesDone(e, n)
    BY <2>2 DEF PagesRun
  <2> QED BY <1>2, <2>1, <2>3 DEF PagesDone, Built, Well
<1> QED BY <1>2, <1>3, <1>4

LEMMA RangeBuilt ==
    ASSUME NEW m \in Work, NEW from, NEW a \in Area
    PROVE  LET n == Spaces!copy_range(m, from, a)
           IN  n \in Work /\ (Well(m) => Built(m, n))
<1> DEFINE e == Spaces!insert_vma_struct(m, a)
           w == Spaces!Pages(a)
           n == CopiedPages(e, from, w)
           k == Spaces!copy_range(m, from, a)
<1>1. k = IF Spaces!Going(m) THEN n ELSE m
  BY Zenon DEF Spaces!copy_range, CopiedPages, Spaces!FoldLeft
<1>3. AreaEntered(m, e, a)
  BY AreasEntered
<1>4. w \in Seq(Nat) /\ \A i \in DOMAIN w : w[i] \in Spaces!Within(a)
  BY PagesOfArea DEF Area
<1> HIDE DEF e
<1>5. PagesRun(e, n, w)
  <2>1. e \in Work
    BY <1>3 DEF AreaEntered
  <2> QED BY <2>1, RangeCopied
<1> HIDE DEF w, n, k
<1>6. CASE Spaces!Going(m)
  <2>1. ~m.panic
    BY <1>6 DEF Spaces!Going
  <2>2. Well(m) => Built(m, n)
    BY <1>3, <1>4, <1>5, <2>1, AreaBuilt
  <2>3. n \in Work
    BY <1>5 DEF PagesRun
  <2> QED BY <1>1, <1>6, <2>2, <2>3 DEF k
<1>7. CASE ~Spaces!Going(m)
  <2>1. Well(m) => Built(m, m)
    BY DEF Built
  <2> QED BY <1>1, <1>7, <2>1 DEF k
<1> QED BY <1>6, <1>7

\* A run of such steps.
LEMMA BuiltInOrder ==
    ASSUME NEW l \in Nat, NEW f, Well(f[0]),
           \A j \in 1..l : Well(f[j - 1]) => Built(f[j - 1], f[j])
    PROVE  Built(f[0], f[l])
<1> DEFINE S == {j \in Nat : j <= l => Built(f[0], f[j])}
<1>1. 0 \in S
  BY DEF Built
<1>2. \A j \in Nat : j \in S => j + 1 \in S
  <2>1. ASSUME NEW j \in Nat, j \in S, j + 1 <= l PROVE Built(f[0], f[j + 1])
    <3>1. j + 1 \in 1..l /\ (j + 1) - 1 = j /\ Built(f[0], f[j])
      BY <2>1
    <3>2. Well(f[j])
      BY <3>1 DEF Built
    <3>3. Built(f[j], f[j + 1])
      BY <3>1, <3>2
    <3> QED BY <3>1, <3>3, BuiltFurther
  <2> QED BY <2>1
<1>3. Nat \subseteq S
  <2> HIDE DEF S
  <2> QED BY <1>1, <1>2, SetInduction
<1> QED BY <1>3

-----------------------------------------------------------------------------
(* do_fork *)

LEMMA RangesBuilt ==
    ASSUME NEW m, Well(m), NEW from, NEW q \in Seq(Area)
    PROVE  Built(m, CopiedRanges(m, from, q))
<1>1. m \in Work
  BY DEF Well
<1>2. \A k \in Work, x \in Area : Spaces!copy_range(k, from, x) \in Work
                                  /\ (Well(k) => Built(k, Spaces!copy_range(k, from, x)))
  BY RangeBuilt
<1>3. PICK f : /\ f \in [0..Len(q) -> Work] /\ f[0] = m
               /\ \A j \in 1..Len(q) : f[j] = Spaces!copy_range(f[j - 1], from, q[j])
               /\ CopiedRanges(m, from, q) = f[Len(q)]
  <2>1. RangeRun(m, from, q)
    BY <1>1, <1>2, RangeFolds
  <2> QED BY <2>1 DEF RangeRun
<1>4. ASSUME NEW j \in 1..Len(q), Well(f[j - 1]) PROVE Built(f[j - 1], f[j])
  <2>1. j - 1 \in 0..Len(q) /\ q[j] \in Area
    OBVIOUS
  <2>2. f[j - 1] \in Work
    BY <1>3, <2>1
  <2> QED BY <1>2, <1>3, <1>4, <2>1, <2>2
<1>5. Len(q) \in Nat
  OBVIOUS
<1>6. Built(f[0], f[Len(q)])
  BY <1>3, <1>4, <1>5, BuiltInOrder
<1> QED BY <1>3, <1>6

\* The areas that dup_mmap reaches, from the last one on.
LEMMA AreasReversed ==
    ASSUME NEW q \in Seq(Area), NEW k \in 0..Len(q)
    PROVE  SubSeq(Spaces!Reverse(q), 1, k) \in Seq(Area)
<1> DEFINE r == [i \in 1..Len(q) |-> q[(Len(q) - i) + 1]]
<1>1. Spaces!Reverse(q) = r
  BY DEF Spaces!Reverse
<1>2. \A i \in 1..Len(q) : (Len(q) - i) + 1 \in 1..Len(q)
  OBVIOUS
<1>3. r \in Seq(Area) /\ Len(r) = Len(q)
  BY <1>2
<1> HIDE DEF r
<1>4. SubSeq(r, 1, k) \in Seq(Area)
  BY <1>3
<1> QED BY <1>1, <1>4

LEMMA MmDuplicated ==
    ASSUME NEW m, Well(m), NEW from, from.areas \in Seq(Area), NEW vmas \in Nat
    PROVE  Built(m, Spaces!dup_mmap(m, from, vmas))
<1> DEFINE l == Len(from.areas)
           taken == IF vmas < l THEN vmas ELSE l
           q == SubSeq(Spaces!Reverse(from.areas), 1, taken)
           n == CopiedRanges(m, from, q)
           k == Spaces!dup_mmap(m, from, vmas)
<1>1. k = IF taken < l /\ Spaces!Going(n) THEN Spaces!NoMemory(n) ELSE n
  BY Zenon DEF Spaces!dup_mmap, CopiedRanges, Spaces!FoldLeft
<1>2. taken \in 0..l
  <2>1. l \in Nat
    OBVIOUS
  <2> HIDE DEF l
  <2> QED BY <2>1
<1> HIDE DEF taken
<1>3. q \in Seq(Area)
  BY <1>2, AreasReversed
<1> HIDE DEF q
<1>4. Built(m, n)
  BY <1>3, RangesBuilt
<1> HIDE DEF n, k
<1>5. CASE k = n
  BY <1>4, <1>5 DEF k
<1>6. CASE k = Spaces!NoMemory(n)
  <2>1. n \in Work
    BY <1>4 DEF Built, Well
  <2>2. /\ k \in Work /\ Same(n, k) /\ k.dirs = n.dirs /\ k.tables = n.tables
        /\ k.ptes = n.ptes /\ k.free = n.free /\ k.lost = n.lost
    BY <1>6, <2>1, Spent
  <2>3. Total(k) = Total(n) /\ k.areas = n.areas /\ k.panic = n.panic
    BY <2>2 DEF Total, Same
  <2>4. Spaces!Hangs(n) => Spaces!Hangs(k)
    BY <2>2, <2>3 DEF Spaces!Hangs, Spaces!find_vma
  <2>5. Built(m, k)
    BY <1>4, <2>2, <2>3, <2>4 DEF Built, Well
  <2> QED BY <2>5 DEF k
<1> QED BY <1>1, <1>5, <1>6

\* How copy_mm and load_icode end, with free pages before them: with a space, or
\* with nothing held.
MmEnds(free, n) ==
    /\ n \in Work
    /\ ~n.panic => IF n.ok THEN Well(n) /\ Total(n) = free - 1 ELSE n.free + n.lost = free

LEMMA FreshWell ==
    ASSUME NEW free \in Int
    PROVE  LET m == Spaces!Fresh(free)
           IN  /\ Well(m) /\ Total(m) = free /\ ~m.panic /\ m.ok /\ m.free = free /\ m.lost = 0
<1> DEFINE m == Spaces!Fresh(free)
<1>1. m = [areas |-> <<>>, dirs |-> {}, tables |-> {}, ptes |-> {}, free |-> free, lost |-> 0,
           reads |-> 0, ok |-> TRUE, short |-> FALSE, panic |-> FALSE]
  BY DEF Spaces!Fresh
<1> HIDE DEF m
<1>2. {} \in FinNat /\ Cardinality({}) = 0
  BY FS_EmptySet DEF FinNat
<1>3. <<>> \in Seq(Area)
  OBVIOUS
<1>4. m \in Work
  BY <1>1, <1>2, <1>3 DEF Work
<1>5. m.areas = <<>> /\ m.dirs = {} /\ m.tables = {} /\ m.ptes = {} /\ m.free = free /\ m.lost = 0
      /\ m.ok /\ ~m.panic
  BY <1>1
<1>6. Total(m) = free
  BY <1>2, <1>5 DEF Total
<1>7. Apart(m.areas) /\ Spaces!Hangs(m)
  <2>1. Len(m.areas) = 0
    BY <1>5
  <2> QED BY <1>5, <2>1 DEF Apart, Spaces!Hangs
<1> QED BY <1>4, <1>5, <1>6, <1>7 DEF m, Well

\* A space that could not be built goes back.
LEMMA BuiltReleased ==
    ASSUME NEW n, Well(n), ~n.panic, NEW free \in Int, Total(n) = free - 1
    PROVE  MmEnds(free, [Spaces!Released(n) EXCEPT !.ok = FALSE])
<1> DEFINE r == Spaces!Released(n)
           k == [r EXCEPT !.ok = FALSE]
<1>1. n \in Work /\ Spaces!Hangs(n)
  BY DEF Well
<1>2. r \in Work /\ r.panic = n.panic /\ r.free + r.lost = Total(n) + 1
  BY <1>1, SpaceReleased
<1> HIDE DEF r
<1>3. k \in Work
  BY <1>2 DEF Work
<1>4. k.free = r.free /\ k.lost = r.lost /\ k.panic = r.panic /\ k.ok = FALSE
  BY <1>2 DEF Work
<1> HIDE DEF k
<1>5. Total(n) + 1 = free
  OBVIOUS
<1>7. MmEnds(free, k)
  BY <1>2, <1>3, <1>4, <1>5 DEF MmEnds
<1> QED BY <1>7 DEF k, r

LEMMA MmCopied ==
    ASSUME NEW free \in Int, NEW from, from.areas \in Seq(Area), NEW vmas \in Nat
    PROVE  MmEnds(free, Spaces!copy_mm(free, from, vmas))
<1> DEFINE m == Spaces!Fresh(free - 1)
           n == Spaces!dup_mmap(m, from, vmas)
           k == Spaces!copy_mm(free, from, vmas)
<1> SUFFICES MmEnds(free, k)
  OBVIOUS
<1>1. k = IF free = 0 THEN Spaces!NoMemory(Spaces!Fresh(0))
          ELSE IF n.ok \/ n.panic THEN n ELSE [Spaces!Released(n) EXCEPT !.ok = FALSE]
  BY DEF Spaces!copy_mm
<1>2. Well(m) /\ Total(m) = free - 1 /\ ~m.panic
  BY FreshWell
<1> HIDE DEF m
<1>3. Built(m, n)
  BY <1>2, MmDuplicated
<1> HIDE DEF n, k
<1>4. CASE free = 0
  <2>1. LET z == Spaces!Fresh(0) IN z \in Work /\ ~z.panic /\ z.free = 0 /\ z.lost = 0
    BY FreshWell DEF Well
  <2>2. k = Spaces!NoMemory(Spaces!Fresh(0))
    BY <1>1, <1>4
  <2>3. k \in Work /\ ~k.panic /\ ~k.ok /\ k.free = 0 /\ k.lost = 0
    BY <2>1, <2>2, Spent DEF Same
  <2> QED BY <1>4, <2>3 DEF MmEnds
<1>5. CASE free # 0
  <2>1. Well(n) /\ n \in Work /\ n.panic \in BOOLEAN /\ n.ok \in BOOLEAN
    BY <1>3 DEF Built, Well, Work
  <2>2. CASE n.panic
    <3>1. k = n
      BY <1>1, <1>5, <2>2
    <3> QED BY <2>1, <2>2, <3>1 DEF MmEnds
  <2>3. CASE ~n.panic
    <3>1. Total(n) = free - 1
      BY <1>2, <1>3, <2>3 DEF Built
    <3>2. CASE n.ok
      <4>1. k = n
        BY <1>1, <1>5, <3>2
      <4> QED BY <2>1, <2>3, <3>1, <3>2, <4>1 DEF MmEnds
    <3>3. CASE ~n.ok
      <4>1. k = [Spaces!Released(n) EXCEPT !.ok = FALSE]
        BY <1>1, <1>5, <2>3, <3>3
      <4> QED BY <2>1, <2>3, <3>1, <4>1, BuiltReleased
    <3> QED BY <3>2, <3>3
  <2> QED BY <2>2, <2>3
<1> QED BY <1>4, <1>5

-----------------------------------------------------------------------------
(* do_execve *)

\* Nothing is loaded once something has failed.
LEMMA NothingLoaded ==
    ASSUME NEW m \in Work, ~Spaces!Going(m), NEW filled, NEW w \in Seq(Nat)
    PROVE  LoadedPages(m, filled, w) = m
<1>1. \A k \in Work, x \in Nat : Spaces!LoadPage(k, x, filled) \in Work
  BY PageLoaded DEF Paged
<1>2. PICK f : /\ f \in [0..Len(w) -> Work] /\ f[0] = m
               /\ \A j \in 1..Len(w) : f[j] = Spaces!LoadPage(f[j - 1], w[j], filled)
               /\ LoadedPages(m, filled, w) = f[Len(w)]
  <2>1. LoadRun(m, filled, w)
    BY <1>1, LoadFolds
  <2> QED BY <2>1 DEF LoadRun
<1>3. ASSUME NEW v PROVE Spaces!LoadPage(m, v, filled) = m
  BY DEF Spaces!LoadPage
<1> DEFINE S == {j \in Nat : j <= Len(w) => f[j] = m}
<1>4. 0 \in S
  BY <1>2
<1>5. \A j \in Nat : j \in S => j + 1 \in S
  <2>1. ASSUME NEW j \in Nat, j \in S, j + 1 <= Len(w) PROVE f[j + 1] = m
    <3>1. j + 1 \in 1..Len(w) /\ (j + 1) - 1 = j /\ f[j] = m
      BY <2>1
    <3> QED BY <1>2, <1>3, <3>1
  <2> QED BY <2>1
<1>6. Nat \subseteq S
  <2> HIDE DEF S
  <2> QED BY <1>4, <1>5, SetInduction
<1>7. Len(w) \in Nat
  OBVIOUS
<1> QED BY <1>2, <1>6, <1>7

\* mm_map: an area that holds its first address is an error.
LEMMA AreaMapped ==
    ASSUME NEW m \in Work, NEW a \in Area
    PROVE  LET n == Spaces!mm_map(m, a)
           IN  \/ AreaEntered(m, n, a)
               \/ /\ n \in Work /\ ~n.ok
                  /\ Well(m) => Built(m, n)
<1> DEFINE n == Spaces!mm_map(m, a)
<1>1. n = Spaces!insert_vma_struct(m, a) \/ n = [m EXCEPT !.ok = FALSE]
  BY DEF Spaces!mm_map, Spaces!Failed
<1> HIDE DEF n
<1>2. CASE n = Spaces!insert_vma_struct(m, a)
  <2>1. AreaEntered(m, n, a)
    BY <1>2, AreasEntered
  <2> QED BY <2>1 DEF n
<1>3. CASE n = [m EXCEPT !.ok = FALSE]
  <2>1. n \in Work
    BY <1>3 DEF Work
  <2>2. /\ n.areas = m.areas /\ n.dirs = m.dirs /\ n.tables = m.tables /\ n.ptes = m.ptes
        /\ n.free = m.free /\ n.lost = m.lost
    BY <1>3 DEF Work
  <2>3. n.panic = m.panic /\ ~n.ok
    BY <1>3 DEF Work
  <2>4. Total(n) = Total(m)
    BY <2>2 DEF Total
  <2>5. Spaces!Hangs(m) => Spaces!Hangs(n)
    BY <2>2 DEF Spaces!Hangs, Spaces!find_vma
  <2>6. Well(m) => Built(m, n)
    BY <2>1, <2>2, <2>3, <2>4, <2>5 DEF Built, Well
  <2> QED BY <2>1, <2>3, <2>6 DEF n
<1> QED BY <1>1, <1>2, <1>3

LEMMA SegmentBuilt ==
    ASSUME NEW m \in Work, NEW s \in Segment
    PROVE  LET n == Spaces!LoadSegment(m, s)
           IN  n \in Work /\ (Well(m) => Built(m, n))
<1> DEFINE a == [start |-> s.start, end |-> s.end]
           e == Spaces!mm_map(m, a)
           w == Spaces!Pages(s)
           n == LoadedPages(e, s.filled, w)
           k == Spaces!LoadSegment(m, s)
<1> SUFFICES k \in Work /\ (Well(m) => Built(m, k))
  OBVIOUS
<1>1. k = IF ~Spaces!Going(m) THEN m ELSE n
  BY Zenon DEF Spaces!LoadSegment, LoadedPages, Spaces!FoldLeft
<1>2. a \in Area /\ s.start \in Nat /\ s.end \in Nat /\ s.start < s.end
  BY DEF Area, Segment
<1>3. w \in Seq(Nat) /\ \A i \in DOMAIN w : w[i] \in Spaces!Within(a)
  BY <1>2, PagesOfArea DEF Spaces!Within
<1> HIDE DEF a
<1>4. \/ AreaEntered(m, e, a)
      \/ e \in Work /\ ~e.ok /\ (Well(m) => Built(m, e))
  BY <1>2, AreaMapped
<1> HIDE DEF e, k
<1>5. e \in Work
  BY <1>4 DEF AreaEntered
<1>6. PagesRun(e, n, w)
  BY <1>5, RangeLoaded
<1>7. n \in Work
  BY <1>6 DEF PagesRun
<1>8. CASE ~Spaces!Going(m)
  <2>1. Well(m) => Built(m, m)
    BY DEF Built
  <2> QED BY <1>1, <1>8, <2>1
<1>9. CASE Spaces!Going(m) /\ AreaEntered(m, e, a)
  <2>1. ~m.panic
    BY <1>9 DEF Spaces!Going
  <2> HIDE DEF w, n
  <2>2. Well(m) => Built(m, n)
    BY <1>3, <1>6, <1>9, <2>1, AreaBuilt
  <2> QED BY <1>1, <1>7, <1>9, <2>2
<1>10. CASE Spaces!Going(m) /\ ~e.ok /\ (Well(m) => Built(m, e))
  <2>1. ~Spaces!Going(e)
    BY <1>10 DEF Spaces!Going
  <2>2. n = e
    BY <1>3, <1>5, <2>1, NothingLoaded
  <2> HIDE DEF n
  <2> QED BY <1>1, <1>5, <1>10, <2>2
<1> QED BY <1>4, <1>8, <1>9, <1>10

LEMMA SegmentsBuilt ==
    ASSUME NEW m, Well(m), NEW q \in Seq(Segment)
    PROVE  Built(m, Spaces!FoldLeft(Spaces!LoadSegment, m, q))
<1>1. m \in Work
  BY DEF Well
<1>2. \A k \in Work, x \in Segment : Spaces!LoadSegment(k, x) \in Work
                                     /\ (Well(k) => Built(k, Spaces!LoadSegment(k, x)))
  BY SegmentBuilt
<1>3. PICK f : /\ f \in [0..Len(q) -> Work] /\ f[0] = m
               /\ \A j \in 1..Len(q) : f[j] = Spaces!LoadSegment(f[j - 1], q[j])
               /\ Spaces!FoldLeft(Spaces!LoadSegment, m, q) = f[Len(q)]
  <2>1. \A k \in Work, x \in Segment : Spaces!LoadSegment(k, x) \in Work
    BY <1>2
  <2> QED BY <1>1, <2>1, SegmentFolds
<1>4. ASSUME NEW j \in 1..Len(q), Well(f[j - 1]) PROVE Built(f[j - 1], f[j])
  <2>1. j - 1 \in 0..Len(q) /\ q[j] \in Segment
    OBVIOUS
  <2>2. f[j - 1] \in Work
    BY <1>3, <2>1
  <2> QED BY <1>2, <1>3, <1>4, <2>1, <2>2
<1>5. Len(q) \in Nat
  OBVIOUS
<1>6. Built(f[0], f[Len(q)])
  BY <1>3, <1>4, <1>5, BuiltInOrder
<1> QED BY <1>3, <1>6

LEMMA StackBuilt ==
    ASSUME NEW m, Well(m)
    PROVE  Built(m, Spaces!LoadStack(m))
<1> DEFINE e == Spaces!mm_map(m, StackArea)
           w == [i \in 1..StackPages |-> StackArea.end - i]
           k == Spaces!FoldLeft(Spaces!pgdir_alloc_page, e, w)
           n == Spaces!LoadStack(m)
<1> SUFFICES Built(m, n)
  OBVIOUS
<1>1. n = IF ~Spaces!Going(m) THEN m
          ELSE IF e.ok THEN [k EXCEPT !.panic = k.panic \/ ~k.ok] ELSE e
  BY DEF Spaces!LoadStack
<1>2. /\ StackArea \in Area /\ StackArea.start \in Nat /\ StackArea.end \in Nat
      /\ StackPages \in 0..(StackArea.end - StackArea.start)
  BY SpacesAssumption DEF Area
<1>3. m \in Work
  BY DEF Well
<1>4. \/ AreaEntered(m, e, StackArea)
      \/ e \in Work /\ ~e.ok /\ (Well(m) => Built(m, e))
  BY <1>2, <1>3, AreaMapped
<1>5. w \in Seq(Nat) /\ Len(w) = StackPages
  <2>1. StackPages \in Nat /\ \A i \in 1..StackPages : StackArea.end - i \in Nat
    BY <1>2
  <2> QED BY <2>1
<1>6. /\ \A i, j \in 1..Len(w) : i # j => w[i] # w[j]
      /\ \A i \in DOMAIN w : w[i] \in Spaces!Within(StackArea)
  BY <1>2, <1>5 DEF Spaces!Within
<1> HIDE DEF e, w, n
<1>7. e \in Work
  BY <1>4 DEF AreaEntered
<1>8. PagesRun(e, k, w)
  BY <1>5, <1>6, <1>7, RangeAllocated
<1> HIDE DEF k
<1>9. CASE ~Spaces!Going(m)
  <2>1. Built(m, m)
    BY DEF Built
  <2> QED BY <1>1, <1>9, <2>1
<1>10. CASE Spaces!Going(m) /\ ~e.ok
  <2>1. n = e
    BY <1>1, <1>10
  <2>2. CASE AreaEntered(m, e, StackArea)
    <3>1. ~m.panic
      BY <1>10 DEF Spaces!Going
    <3>2. PagesRun(e, e, <<>>)
      BY <1>7 DEF PagesRun, PagesDone
    <3>3. <<>> \in Seq(Nat) /\ \A i \in DOMAIN <<>> : <<>>[i] \in Spaces!Within(StackArea)
      OBVIOUS
    <3>4. Built(m, e)
      BY <2>2, <3>1, <3>2, <3>3, AreaBuilt
    <3> QED BY <2>1, <3>4
  <2> QED BY <1>4, <2>1, <2>2
<1>11. CASE Spaces!Going(m) /\ e.ok
  <2>1. AreaEntered(m, e, StackArea) /\ ~m.panic
    BY <1>4, <1>11 DEF Spaces!Going
  <2>2. Built(m, k)
    BY <1>5, <1>6, <1>8, <2>1, AreaBuilt
  <2>3. n = [k EXCEPT !.panic = k.panic \/ ~k.ok]
    BY <1>1, <1>11
  <2>4. k \in Work
    BY <2>2 DEF Built, Well
  <2>5. (k.panic \/ ~k.ok) \in BOOLEAN
    BY <2>4 DEF Work
  <2>6. n \in Work
    BY <2>3, <2>4, <2>5 DEF Work
  <2>7. /\ n.areas = k.areas /\ n.dirs = k.dirs /\ n.tables = k.tables /\ n.ptes = k.ptes
        /\ n.free = k.free /\ n.lost = k.lost
    BY <2>3, <2>4 DEF Work
  <2>8. k.panic => n.panic
    BY <2>3, <2>4 DEF Work
  <2>9. Total(n) = Total(k)
    BY <2>7 DEF Total
  <2>10. Spaces!Hangs(k) => Spaces!Hangs(n)
    BY <2>7 DEF Spaces!Hangs, Spaces!find_vma
  <2> QED BY <2>2, <2>6, <2>7, <2>8, <2>9, <2>10 DEF Built, Well
<1> QED BY <1>9, <1>10, <1>11

LEMMA IcodeLoaded ==
    ASSUME NEW free \in Int, NEW g, g.reads \in Nat, g.segments \in Seq(Segment)
    PROVE  MmEnds(free, Spaces!load_icode(free, g))
<1> DEFINE z == Spaces!Fresh(free - 1)
           m == [z EXCEPT !.reads = g.reads]
           u == Spaces!FoldLeft(Spaces!LoadSegment, m, g.segments)
           n == Spaces!LoadStack(u)
           k == Spaces!load_icode(free, g)
<1> SUFFICES MmEnds(free, k)
  OBVIOUS
<1>1. k = IF free = 0 THEN Spaces!NoMemory(Spaces!Fresh(0))
          ELSE IF ~g.elf THEN [[m EXCEPT !.free = m.free + 1] EXCEPT !.ok = FALSE]
          ELSE IF Spaces!Going(n) \/ n.panic THEN n
          ELSE [Spaces!Released(n) EXCEPT !.ok = FALSE]
  BY DEF Spaces!load_icode, Spaces!Failed
<1>2. Well(z) /\ Total(z) = free - 1 /\ ~z.panic /\ z.free = free - 1 /\ z.lost = 0
  BY FreshWell
<1> HIDE DEF z
<1>3. z \in Work /\ g.reads \in Int
  BY <1>2 DEF Well
<1>4. m \in Work
  BY <1>3 DEF Work
<1>5. m.areas = z.areas /\ m.dirs = z.dirs /\ m.tables = z.tables /\ m.ptes = z.ptes
      /\ m.free = z.free /\ m.lost = z.lost
  BY <1>3 DEF Work
<1>6. m.panic = z.panic
  BY <1>3 DEF Work
<1>7. Total(m) = free - 1 /\ Well(m)
  <2>1. Total(m) = Total(z)
    BY <1>5 DEF Total
  <2>2. Spaces!Hangs(z) => Spaces!Hangs(m)
    BY <1>5 DEF Spaces!Hangs, Spaces!find_vma
  <2> HIDE DEF m
  <2> QED BY <1>2, <1>4, <1>5, <1>6, <2>1, <2>2 DEF Well
<1> DEFINE h == [[m EXCEPT !.free = m.free + 1] EXCEPT !.ok = FALSE]
<1>8. h.free = m.free + 1 /\ h.lost = m.lost /\ h.panic = m.panic /\ h.ok = FALSE
  <2> HIDE DEF m
  <2> QED BY <1>4 DEF Work
<1>14. h \in Work
  <2> DEFINE b == m.free + 1
  <2>1. b \in Int
    BY <1>2, <1>5
  <2> HIDE DEF m, b
  <2>2. [m EXCEPT !.free = b] \in Work
    BY <1>4, <2>1 DEF Work
  <2> DEFINE c == [m EXCEPT !.free = b]
  <2> HIDE DEF c
  <2>3. [c EXCEPT !.ok = FALSE] \in Work
    BY <2>2 DEF c, Work
  <2> QED BY <2>3 DEF b, c
<1> HIDE DEF m, k, h
<1>9. Built(m, u)
  BY <1>7, SegmentsBuilt
<1> HIDE DEF u
<1>10. Built(m, n)
  <2>1. Built(u, n)
    BY <1>9, StackBuilt DEF Built
  <2> QED BY <1>9, <2>1, BuiltFurther
<1> HIDE DEF n
<1>11. CASE free = 0
  <2>1. LET y == Spaces!Fresh(0) IN y \in Work /\ ~y.panic /\ y.free = 0 /\ y.lost = 0
    BY FreshWell DEF Well
  <2>2. k = Spaces!NoMemory(Spaces!Fresh(0))
    BY <1>1, <1>11
  <2>3. k \in Work /\ ~k.panic /\ ~k.ok /\ k.free = 0 /\ k.lost = 0
    BY <2>1, <2>2, Spent DEF Same
  <2> QED BY <1>11, <2>3 DEF MmEnds
<1>12. CASE free # 0 /\ ~g.elf
  <2>1. k = h
    BY <1>1, <1>12 DEF h
  <2>2. k.free = free /\ k.lost = 0 /\ ~k.ok
    BY <1>2, <1>5, <1>8, <2>1
  <2> QED BY <1>14, <2>1, <2>2 DEF MmEnds
<1>13. CASE free # 0 /\ g.elf
  <2>1. Well(n) /\ n \in Work /\ n.panic \in BOOLEAN /\ n.ok \in BOOLEAN
    BY <1>10 DEF Built, Well, Work
  <2>2. CASE n.panic
    <3>1. k = n
      BY <1>1, <1>13, <2>2
    <3> QED BY <2>1, <2>2, <3>1 DEF MmEnds
  <2>3. CASE ~n.panic
    <3>1. Total(n) = free - 1
      BY <1>7, <1>10, <2>3 DEF Built
    <3>2. CASE n.ok
      <4>1. k = n
        BY <1>1, <1>13, <2>3, <3>2 DEF Spaces!Going
      <4> QED BY <2>1, <2>3, <3>1, <3>2, <4>1 DEF MmEnds
    <3>3. CASE ~n.ok
      <4>1. k = [Spaces!Released(n) EXCEPT !.ok = FALSE]
        BY <1>1, <1>13, <2>3, <3>3 DEF Spaces!Going
      <4> QED BY <2>1, <2>3, <3>1, <4>1, BuiltReleased
    <3> QED BY <3>2, <3>3
  <2> QED BY <2>2, <2>3
<1> QED BY <1>11, <1>12, <1>13

-----------------------------------------------------------------------------
(* Sums over a set *)

Pick(s) == CHOOSE x \in s : TRUE

\* it has the sums of h over the parts of U, element by element.
SumsOf(it, h, U) ==
    \A s \in SUBSET U : it[s] = IF s = {} THEN 0 ELSE h[Pick(s)] + it[s \ {Pick(s)}]

LEMMA SmallerPart ==
    ASSUME NEW U, IsFiniteSet(U), NEW s \in SUBSET U, NEW x \in s
    PROVE  /\ s \ {x} \in SUBSET U /\ Cardinality(s) \in Nat
           /\ Cardinality(s \ {x}) = Cardinality(s) - 1 /\ Cardinality(s) >= 1
           /\ Cardinality(s \ {x}) \in Nat
<1>1. IsFiniteSet(s)
  BY FS_Subset
<1>2. IsFiniteSet(s \ {x}) /\ Cardinality(s \ {x}) = Cardinality(s) - 1
  BY <1>1, FS_RemoveElement
<1>3. Cardinality(s) \in Nat /\ Cardinality(s \ {x}) \in Nat
  BY <1>1, <1>2, FS_CardinalityType
<1> QED BY <1>2, <1>3

LEMMA PickedPart ==
    ASSUME NEW U, IsFiniteSet(U), NEW s \in SUBSET U, s # {}
    PROVE  /\ Pick(s) \in s /\ s \ {Pick(s)} \in SUBSET U
           /\ Cardinality(s) \in Nat /\ Cardinality(s \ {Pick(s)}) \in Nat
           /\ Cardinality(s \ {Pick(s)}) = Cardinality(s) - 1 /\ Cardinality(s) >= 1
<1>1. Pick(s) \in s
  BY DEF Pick
<1> QED BY <1>1, SmallerPart

LEMMA OnlyEmpty ==
    ASSUME NEW U, IsFiniteSet(U), NEW s \in SUBSET U, Cardinality(s) <= 0
    PROVE  s = {}
<1>1. IsFiniteSet(s)
  BY FS_Subset
<1>2. Cardinality(s) = 0
  BY <1>1, FS_CardinalityType
<1> QED BY <1>1, <1>2, FS_EmptySet

LEMMA SumsExist ==
    ASSUME NEW U, IsFiniteSet(U), NEW h \in [U -> Int]
    PROVE  \E it \in [SUBSET U -> Int] : SumsOf(it, h, U)
<1> DEFINE Upto(g, k) == \A s \in SUBSET U : Cardinality(s) <= k =>
                           g[s] = IF s = {} THEN 0 ELSE h[Pick(s)] + g[s \ {Pick(s)}]
           S == {k \in Nat : \E g \in [SUBSET U -> Int] : Upto(g, k)}
<1>1. 0 \in S
  <2> DEFINE g == [s \in SUBSET U |-> 0]
  <2>1. ASSUME NEW s \in SUBSET U, Cardinality(s) <= 0 PROVE s = {}
    BY <2>1, OnlyEmpty
  <2>2. Upto(g, 0)
    BY <2>1
  <2>3. g \in [SUBSET U -> Int]
    OBVIOUS
  <2> HIDE DEF g, Upto
  <2> QED BY <2>2, <2>3
<1>2. ASSUME NEW k \in Nat, k \in S PROVE k + 1 \in S
  <2>1. PICK g \in [SUBSET U -> Int] : Upto(g, k)
    BY <1>2
  <2> DEFINE e == [s \in SUBSET U |-> IF s # {} /\ Cardinality(s) = k + 1
                                      THEN h[Pick(s)] + g[s \ {Pick(s)}] ELSE g[s]]
  <2>2. ASSUME NEW s \in SUBSET U, s # {} PROVE h[Pick(s)] + g[s \ {Pick(s)}] \in Int
    <3>1. Pick(s) \in U /\ s \ {Pick(s)} \in SUBSET U
      BY <2>2, PickedPart
    <3> QED BY <3>1
  <2>3. e \in [SUBSET U -> Int]
    BY <2>2
  <2>4. ASSUME NEW s \in SUBSET U, Cardinality(s) <= k + 1
        PROVE  e[s] = IF s = {} THEN 0 ELSE h[Pick(s)] + e[s \ {Pick(s)}]
    <3>1. CASE s = {}
      <4>1. Cardinality(s) = 0
        BY <3>1, FS_EmptySet
      <4>2. e[s] = g[s]
        BY <3>1
      <4> QED BY <2>1, <3>1, <4>1, <4>2
    <3>2. CASE s # {}
      <4> DEFINE r == s \ {Pick(s)}
      <4>1. /\ r \in SUBSET U /\ Cardinality(s) \in Nat /\ Cardinality(r) \in Nat
            /\ Cardinality(r) = Cardinality(s) - 1
        BY <3>2, PickedPart
      <4> HIDE DEF r
      <4>2. Cardinality(r) <= k /\ Cardinality(r) # k + 1
        BY <2>4, <4>1
      <4>3. e[r] = g[r]
        BY <4>1, <4>2
      <4>4. CASE Cardinality(s) = k + 1
        <5>1. e[s] = h[Pick(s)] + g[r]
          BY <3>2, <4>4 DEF r
        <5> QED BY <3>2, <4>3, <5>1 DEF r
      <4>5. CASE Cardinality(s) # k + 1
        <5>1. e[s] = g[s] /\ Cardinality(s) <= k
          BY <2>4, <4>1, <4>5
        <5>2. g[s] = h[Pick(s)] + g[r]
          BY <2>1, <3>2, <5>1 DEF r
        <5> HIDE DEF e
        <5> QED BY <3>2, <4>3, <5>1, <5>2 DEF r
      <4> QED BY <4>4, <4>5
    <3> QED BY <3>1, <3>2
  <2>5. Upto(e, k + 1)
    <3> HIDE DEF e
    <3> QED BY <2>4
  <2> HIDE DEF e, Upto
  <2> QED BY <2>3, <2>5
<1>3. Nat \subseteq S
  <2> HIDE DEF S
  <2> QED BY <1>1, <1>2, SetInduction
<1>4. PICK it \in [SUBSET U -> Int] : Upto(it, Cardinality(U))
  <2>1. Cardinality(U) \in Nat
    BY FS_CardinalityType
  <2> HIDE DEF Upto
  <2> QED BY <1>3, <2>1
<1>5. \A s \in SUBSET U : Cardinality(s) <= Cardinality(U)
  BY FS_Subset
<1> QED BY <1>4, <1>5 DEF SumsOf

\* The sum does not depend on the element that goes first.
FirstOf(it, h, U) == \A s \in SUBSET U : \A x \in s : it[s] = h[x] + it[s \ {x}]

LEMMA AnyFirst ==
    ASSUME NEW U, IsFiniteSet(U), NEW h \in [U -> Int],
           NEW it \in [SUBSET U -> Int], SumsOf(it, h, U)
    PROVE  FirstOf(it, h, U)
<1> DEFINE Free(s) == \A x \in s : it[s] = h[x] + it[s \ {x}]
           S == {k \in Nat : \A s \in SUBSET U : Cardinality(s) <= k => Free(s)}
<1>1. 0 \in S
  <2>1. ASSUME NEW s \in SUBSET U, Cardinality(s) <= 0 PROVE s = {}
    BY <2>1, OnlyEmpty
  <2>2. \A s \in SUBSET U : Cardinality(s) <= 0 => Free(s)
    BY <2>1
  <2> QED BY <2>2
<1>2. ASSUME NEW k \in Nat, k \in S PROVE k + 1 \in S
  <2>1. ASSUME NEW s \in SUBSET U, Cardinality(s) <= k + 1, NEW x \in s
        PROVE  it[s] = h[x] + it[s \ {x}]
    <3> DEFINE c == Pick(s)
               r == s \ {c}
               t == s \ {x}
               b == r \ {x}
    <3>1. s # {}
      OBVIOUS
    <3>2. /\ c \in s /\ r \in SUBSET U /\ Cardinality(r) <= k
      <4>1. /\ c \in s /\ r \in SUBSET U /\ Cardinality(r) = Cardinality(s) - 1
            /\ Cardinality(s) \in Nat
        BY <3>1, PickedPart
      <4> QED BY <2>1, <4>1
    <3>3. t \in SUBSET U /\ Cardinality(t) <= k
      <4>1. /\ t \in SUBSET U /\ Cardinality(t) = Cardinality(s) - 1 /\ Cardinality(s) \in Nat
        BY SmallerPart
      <4> QED BY <2>1, <4>1
    <3>4. it[s] = h[c] + it[r]
      BY <3>1 DEF SumsOf
    <3>5. CASE x = c
      BY <3>4, <3>5
    <3>6. CASE x # c
      <4>1. x \in r /\ c \in t /\ b = t \ {c} /\ b \in SUBSET U
        BY <3>2, <3>6
      <4> HIDE DEF b, t, r, c
      <4>2. it[r] = h[x] + it[b]
        BY <1>2, <3>2, <4>1 DEF b
      <4>3. it[t] = h[c] + it[b]
        BY <1>2, <3>3, <4>1
      <4>4. h[x] \in Int /\ h[c] \in Int /\ it[b] \in Int
        BY <3>2, <4>1
      <4> QED BY <3>4, <4>2, <4>3, <4>4 DEF t
    <3> QED BY <3>5, <3>6
  <2> QED BY <2>1
<1>3. Nat \subseteq S
  <2> HIDE DEF S
  <2> QED BY <1>1, <1>2, SetInduction
<1> SUFFICES ASSUME NEW s \in SUBSET U PROVE Free(s)
  BY DEF FirstOf
<1>4. Cardinality(s) \in Nat
  BY FS_Subset, FS_CardinalityType
<1>5. Cardinality(s) \in S
  <2> HIDE DEF S
  <2> QED BY <1>3, <1>4
<1> QED BY <1>4, <1>5

LEMMA SumsAgree ==
    ASSUME NEW U, IsFiniteSet(U), NEW h, NEW k, NEW T \in SUBSET U, \A x \in T : h[x] = k[x],
           NEW a, SumsOf(a, h, U), NEW b, SumsOf(b, k, U)
    PROVE  a[T] = b[T]
<1> DEFINE S == {n \in Nat : \A s \in SUBSET T : Cardinality(s) <= n => a[s] = b[s]}
<1>1. 0 \in S
  <2>1. ASSUME NEW s \in SUBSET T, Cardinality(s) <= 0 PROVE a[s] = b[s]
    <3>1. s \in SUBSET U
      OBVIOUS
    <3>2. s = {}
      BY <2>1, <3>1, OnlyEmpty
    <3> QED BY <3>1, <3>2 DEF SumsOf
  <2> QED BY <2>1
<1>2. ASSUME NEW n \in Nat, n \in S PROVE n + 1 \in S
  <2>1. ASSUME NEW s \in SUBSET T, Cardinality(s) <= n + 1 PROVE a[s] = b[s]
    <3>1. s \in SUBSET U
      OBVIOUS
    <3>2. CASE s = {}
      BY <3>1, <3>2 DEF SumsOf
    <3>3. CASE s # {}
      <4> DEFINE r == s \ {Pick(s)}
      <4>1. /\ Pick(s) \in s /\ Cardinality(r) = Cardinality(s) - 1 /\ Cardinality(s) \in Nat
        BY <3>1, <3>3, PickedPart
      <4>2. r \in SUBSET T /\ Cardinality(r) <= n /\ Pick(s) \in T
        BY <2>1, <4>1
      <4>3. a[r] = b[r]
        BY <1>2, <4>2
      <4>4. a[s] = h[Pick(s)] + a[r] /\ b[s] = k[Pick(s)] + b[r]
        BY <3>1, <3>3 DEF SumsOf
      <4> QED BY <4>2, <4>3, <4>4
    <3> QED BY <3>2, <3>3
  <2> QED BY <2>1
<1>3. Nat \subseteq S
  <2> HIDE DEF S
  <2> QED BY <1>1, <1>2, SetInduction
<1>4. Cardinality(T) \in Nat
  BY FS_Subset, FS_CardinalityType
<1>5. Cardinality(T) \in S
  <2> HIDE DEF S
  <2> QED BY <1>3, <1>4
<1> QED BY <1>4, <1>5

\* Only p holds more or less than before.
LEMMA SumChanged ==
    ASSUME NEW U, IsFiniteSet(U), NEW h \in [U -> Int], NEW k \in [U -> Int], NEW p \in U,
           \A x \in U \ {p} : h[x] = k[x],
           NEW a \in [SUBSET U -> Int], SumsOf(a, h, U),
           NEW b \in [SUBSET U -> Int], SumsOf(b, k, U)
    PROVE  b[U] = a[U] + k[p] - h[p]
<1> DEFINE T == U \ {p}
<1>1. U \in SUBSET U /\ T \in SUBSET U
  OBVIOUS
<1>2. a[U] = h[p] + a[T]
  <2>1. FirstOf(a, h, U)
    BY AnyFirst
  <2> QED BY <1>1, <2>1 DEF FirstOf
<1>3. b[U] = k[p] + b[T]
  <2>1. FirstOf(b, k, U)
    BY AnyFirst
  <2> QED BY <1>1, <2>1 DEF FirstOf
<1>4. a[T] = b[T]
  BY <1>1, SumsAgree
<1> HIDE DEF T
<1>5. a[T] \in Int /\ h[p] \in Int /\ k[p] \in Int
  BY <1>1
<1> QED BY <1>2, <1>3, <1>4, <1>5

-----------------------------------------------------------------------------
(* The invariant *)

SpaceOf == [areas : Seq(Area), dirs : FinNat, tables : FinNat, ptes : FinNat]

PagesIn(sp) == Cardinality(sp.dirs) + Cardinality(sp.tables) + Cardinality(sp.ptes)

HeldByAll == Spaces!MapThenSumSet(Spaces!Held, User)

AtType == at \in [User -> {"none", "thread", "user", "zombie"}]
MmType == mm \in [User -> SpaceOf]

SpacesType ==
    /\ AtType /\ MmType
    /\ nr_free_pages \in Int /\ lost_pages \in Int /\ stranded \in Int

SpacesInv ==
    /\ programs \in Disks /\ panicked \in BOOLEAN
    /\ ~panicked => /\ SpacesType
                    /\ \A p \in User : Apart(mm[p].areas) /\ Spaces!Hangs(mm[p])
                    /\ nr_free_pages + lost_pages + stranded + HeldByAll = NFree

LEMMA PagesCounted ==
    ASSUME NEW sp \in SpaceOf
    PROVE  /\ Cardinality(sp.dirs) \in Nat /\ Cardinality(sp.tables) \in Nat
           /\ Cardinality(sp.ptes) \in Nat /\ PagesIn(sp) \in Nat
<1>1. sp.dirs \in FinNat /\ sp.tables \in FinNat /\ sp.ptes \in FinNat
  BY DEF SpaceOf
<1>2. Cardinality(sp.dirs) \in Nat /\ Cardinality(sp.tables) \in Nat /\ Cardinality(sp.ptes) \in Nat
  BY <1>1, CountAdd
<1> QED BY <1>2 DEF PagesIn

\* What a process holds in state x with the space sp.
HeldIn(x, sp) ==
    CASE x = "none" -> 0 [] x = "zombie" -> 2 [] x = "thread" -> 3
      [] OTHER -> 4 + PagesIn(sp)

HeldValues == \A q \in User : Spaces!Held(q) = HeldIn(at[q], mm[q]) /\ Spaces!Held(q) \in Int

LEMMA HeldValue == AtType /\ MmType => HeldValues
<1> SUFFICES ASSUME AtType, MmType, NEW p \in User
             PROVE  Spaces!Held(p) = HeldIn(at[p], mm[p]) /\ Spaces!Held(p) \in Int
  BY DEF HeldValues
<1>1. /\ Cardinality(mm[p].dirs) \in Nat /\ Cardinality(mm[p].tables) \in Nat
      /\ Cardinality(mm[p].ptes) \in Nat /\ PagesIn(mm[p]) \in Nat
  BY PagesCounted DEF MmType
<1>2. Spaces!Held(p) =
        (IF at[p] = "none" THEN 0 ELSE 2) + (IF at[p] \in {"user", "thread"} THEN 1 ELSE 0)
        + (IF at[p] # "user" THEN 0
           ELSE 1 + Cardinality(mm[p].dirs) + Cardinality(mm[p].tables) + Cardinality(mm[p].ptes))
  BY SameCount DEF Spaces!Held, Spaces!KSTACKPAGE
<1>3. at[p] \in {"none", "thread", "user", "zombie"}
  BY DEF AtType
<1>4. CASE at[p] = "none"
  BY <1>2, <1>4 DEF HeldIn
<1>5. CASE at[p] = "zombie"
  BY <1>2, <1>5 DEF HeldIn
<1>6. CASE at[p] = "thread"
  BY <1>2, <1>6 DEF HeldIn
<1>7. CASE at[p] = "user"
  <2>1. Spaces!Held(p) = 2 + 1 + (1 + Cardinality(mm[p].dirs) + Cardinality(mm[p].tables)
                                  + Cardinality(mm[p].ptes))
    BY <1>2, <1>7
  <2>2. Spaces!Held(p) = 4 + PagesIn(mm[p])
    BY <1>1, <2>1 DEF PagesIn
  <2>3. HeldIn(at[p], mm[p]) = 4 + PagesIn(mm[p])
    BY <1>7 DEF HeldIn
  <2> QED BY <1>1, <2>2, <2>3
<1> QED BY <1>3, <1>4, <1>5, <1>6, <1>7

HeldSum(it) ==
    /\ it \in [SUBSET User -> Int] /\ SumsOf(it, [p \in User |-> Spaces!Held(p)], User)
    /\ HeldByAll = it[User]

\* The sum over all processes, taken one by one.
LEMMA HeldSummed == AtType /\ MmType => \E it : HeldSum(it)
<1> SUFFICES ASSUME AtType, MmType PROVE \E it : HeldSum(it)
  OBVIOUS
<1> DEFINE h == [p \in User |-> Spaces!Held(p)]
           Is(g) == g = [s \in SUBSET User |->
                            IF s = {} THEN 0 ELSE Spaces!Held(Pick(s)) + g[s \ {Pick(s)}]]
           it == CHOOSE g : Is(g)
<1>1. IsFiniteSet(User)
  BY SpacesAssumption
<1>2. h \in [User -> Int]
  BY HeldValue DEF HeldValues
<1>3. PICK e \in [SUBSET User -> Int] : SumsOf(e, h, User)
  <2> HIDE DEF h
  <2> QED BY <1>1, <1>2, SumsExist
<1>4. ASSUME NEW s \in SUBSET User, s # {} PROVE h[Pick(s)] = Spaces!Held(Pick(s))
  <2>1. Pick(s) \in User
    BY <1>1, <1>4, PickedPart
  <2> QED BY <2>1
<1>5. Is(e)
  <2>1. ASSUME NEW s \in SUBSET User
        PROVE  e[s] = IF s = {} THEN 0 ELSE Spaces!Held(Pick(s)) + e[s \ {Pick(s)}]
    <3>1. e[s] = IF s = {} THEN 0 ELSE h[Pick(s)] + e[s \ {Pick(s)}]
      BY <1>3 DEF SumsOf
    <3> HIDE DEF h
    <3> QED BY <1>4, <3>1
  <2> HIDE DEF h
  <2> QED BY <1>3, <2>1
<1>6. Is(it)
  BY <1>5, Zenon
<1>7. HeldByAll = it[User]
  BY Zenon DEF HeldByAll, Spaces!MapThenSumSet, Spaces!MapThenFoldSet, Pick
<1> HIDE DEF it
<1>8. SumsOf(it, h, User)
  <2>1. ASSUME NEW s \in SUBSET User
        PROVE  it[s] = IF s = {} THEN 0 ELSE h[Pick(s)] + it[s \ {Pick(s)}]
    <3>1. it[s] = IF s = {} THEN 0 ELSE Spaces!Held(Pick(s)) + it[s \ {Pick(s)}]
      BY <1>6
    <3> HIDE DEF h
    <3> QED BY <1>4, <3>1
  <2> HIDE DEF h
  <2> QED BY <2>1 DEF SumsOf
<1>9. it \in [SUBSET User -> Int]
  <2>1. ASSUME NEW s \in SUBSET User PROVE it[s] = e[s]
    <3> HIDE DEF h
    <3> QED BY <1>1, <1>3, <1>8, SumsAgree
  <2>2. DOMAIN it = SUBSET User /\ it = [s \in SUBSET User |-> it[s]]
    BY <1>6
  <2> QED BY <1>3, <2>1, <2>2
<1> QED BY <1>7, <1>8, <1>9 DEF HeldSum

\* A step of p alone changes the sum by what p takes.
LEMMA HeldChanged ==
    ASSUME NEW p \in User, AtType, MmType, AtType', MmType',
           \A q \in User \ {p} : Spaces!Held(q)' = Spaces!Held(q)
    PROVE  /\ HeldByAll' = HeldByAll + Spaces!Held(p)' - Spaces!Held(p)
           /\ HeldByAll \in Int /\ Spaces!Held(p) \in Int /\ Spaces!Held(p)' \in Int
<1> DEFINE h == [q \in User |-> Spaces!Held(q)]
           k == [q \in User |-> Spaces!Held(q)']
<1>1. PICK a : HeldSum(a)
  BY HeldSummed
<1>2. (AtType /\ MmType => \E it : HeldSum(it))'
  BY HeldSummed, PTL
<1>3. PICK b : /\ b \in [SUBSET User -> Int] /\ SumsOf(b, k, User) /\ HeldByAll' = b[User]
  BY <1>2 DEF HeldSum
<1>4. a \in [SUBSET User -> Int] /\ SumsOf(a, h, User) /\ HeldByAll = a[User]
  BY <1>1 DEF HeldSum
<1>5. \A q \in User : Spaces!Held(q) \in Int
  BY HeldValue DEF HeldValues
<1>6. (AtType /\ MmType => HeldValues)'
  BY HeldValue, PTL
<1>7. \A q \in User : Spaces!Held(q)' \in Int
  BY <1>6 DEF HeldValues
<1>8. h \in [User -> Int] /\ k \in [User -> Int] /\ h[p] = Spaces!Held(p) /\ k[p] = Spaces!Held(p)'
      /\ \A x \in User \ {p} : h[x] = k[x]
  BY <1>5, <1>7
<1> HIDE DEF h, k
<1>9. IsFiniteSet(User)
  BY SpacesAssumption
<1>10. b[User] = a[User] + k[p] - h[p]
  BY <1>3, <1>4, <1>8, <1>9, SumChanged
<1>11. a[User] \in Int
  BY <1>4
<1> QED BY <1>3, <1>4, <1>5, <1>7, <1>8, <1>10, <1>11

\* A step of p alone that takes what it adds to the process from what is free.
LEMMA OneProcess ==
    ASSUME SpacesInv, ~panicked, NEW p \in User,
           NEW x \in {"none", "thread", "user", "zombie"}, at' = [at EXCEPT ![p] = x],
           NEW sp \in SpaceOf, mm' = [mm EXCEPT ![p] = sp],
           Apart(sp.areas), Spaces!Hangs(sp),
           nr_free_pages' \in Int, lost_pages' \in Int, stranded' \in Int,
           nr_free_pages' + lost_pages' + stranded' + HeldIn(x, sp)
               = nr_free_pages + lost_pages + stranded + HeldIn(at[p], mm[p]),
           programs' = programs, panicked' \in BOOLEAN
    PROVE  SpacesInv'
<1>1. /\ programs \in Disks /\ AtType /\ MmType
      /\ nr_free_pages \in Int /\ lost_pages \in Int /\ stranded \in Int
      /\ \A q \in User : Apart(mm[q].areas) /\ Spaces!Hangs(mm[q])
      /\ nr_free_pages + lost_pages + stranded + HeldByAll = NFree
  BY DEF SpacesInv, SpacesType
<1>2. AtType'
  BY <1>1 DEF AtType
<1>3. MmType'
  BY <1>1 DEF MmType
<1>4. HeldValues /\ HeldValues'
  <2>1. HeldValues
    BY <1>1, HeldValue
  <2>2. (AtType /\ MmType => HeldValues)'
    BY HeldValue, PTL
  <2> QED BY <1>2, <1>3, <2>1, <2>2
<1>5. at'[p] = x /\ mm'[p] = sp
      /\ \A q \in User \ {p} : at'[q] = at[q] /\ mm'[q] = mm[q]
  BY <1>1 DEF AtType, MmType
<1>6. Spaces!Held(p) = HeldIn(at[p], mm[p]) /\ Spaces!Held(p)' = HeldIn(x, sp)
  BY <1>4, <1>5 DEF HeldValues
<1>7. \A q \in User \ {p} : Spaces!Held(q)' = Spaces!Held(q)
  BY <1>4, <1>5 DEF HeldValues
<1>8. /\ HeldByAll' = HeldByAll + Spaces!Held(p)' - Spaces!Held(p)
      /\ HeldByAll \in Int /\ Spaces!Held(p) \in Int /\ Spaces!Held(p)' \in Int
  BY <1>1, <1>2, <1>3, <1>7, HeldChanged
<1>9. nr_free_pages' + lost_pages' + stranded' + HeldByAll' = NFree
  BY <1>1, <1>6, <1>8
<1>10. \A q \in User : Apart(mm'[q].areas) /\ Spaces!Hangs(mm'[q])
  BY <1>1, <1>5
<1> QED BY <1>1, <1>2, <1>3, <1>9, <1>10 DEF SpacesInv, SpacesType

-----------------------------------------------------------------------------
(* The steps *)

LEMMA SpaceKept ==
    ASSUME NEW n \in Work, Apart(n.areas), Spaces!Hangs(n)
    PROVE  LET sp == Spaces!Space(n)
           IN  /\ sp \in SpaceOf /\ Apart(sp.areas) /\ Spaces!Hangs(sp)
               /\ PagesIn(sp) \in Nat /\ n.free \in Int /\ n.lost \in Int
               /\ Total(n) = n.free + n.lost + PagesIn(sp)
<1> DEFINE sp == Spaces!Space(n)
<1>1. n \in Work /\ Apart(n.areas) /\ Spaces!Hangs(n)
  OBVIOUS
<1>2. sp = [areas |-> n.areas, dirs |-> n.dirs, tables |-> n.tables, ptes |-> n.ptes]
  BY DEF Spaces!Space
<1> HIDE DEF sp
<1>3. sp \in SpaceOf
  BY <1>1, <1>2 DEF SpaceOf, Work
<1>4. sp.areas = n.areas /\ sp.dirs = n.dirs /\ sp.tables = n.tables /\ sp.ptes = n.ptes
  BY <1>2
<1>5. Spaces!Hangs(sp)
  BY <1>1, <1>4 DEF Spaces!Hangs, Spaces!find_vma
<1>6. /\ n.free \in Int /\ n.lost \in Int
      /\ Cardinality(n.dirs) \in Nat /\ Cardinality(n.tables) \in Nat
      /\ Cardinality(n.ptes) \in Nat
  BY <1>1, WorkNumbers
<1>7. PagesIn(sp) \in Nat /\ Total(n) = n.free + n.lost + PagesIn(sp)
  BY <1>4, <1>6 DEF PagesIn, Total
<1> QED BY <1>1, <1>3, <1>4, <1>5, <1>6, <1>7 DEF sp

LEMMA Opened ==
    ASSUME NEW sp \in SpaceOf, Apart(sp.areas), Spaces!Hangs(sp), NEW free \in Int
    PROVE  LET m == Spaces!Open(sp, free)
           IN  /\ Well(m) /\ ~m.panic /\ Total(m) = free + PagesIn(sp)
               /\ \A v : Spaces!find_vma(m, v) = Spaces!find_vma(sp, v)
               /\ m.ptes = sp.ptes
<1> DEFINE z == Spaces!Fresh(free)
           m == Spaces!Open(sp, free)
<1>1. z \in Work /\ ~z.panic /\ z.free = free /\ z.lost = 0
  BY FreshWell DEF Well
<1>2. m = [z EXCEPT !.areas = sp.areas, !.dirs = sp.dirs, !.tables = sp.tables, !.ptes = sp.ptes]
  BY DEF Spaces!Open
<1> HIDE DEF z, m
<1>3. /\ sp.areas \in Seq(Area) /\ sp.dirs \in FinNat /\ sp.tables \in FinNat /\ sp.ptes \in FinNat
  BY DEF SpaceOf
<1>4. m \in Work
  BY <1>1, <1>2, <1>3 DEF Work
<1>5. m.areas = sp.areas /\ m.dirs = sp.dirs /\ m.tables = sp.tables /\ m.ptes = sp.ptes
  BY <1>1, <1>2 DEF Work
<1>6. m.free = free /\ m.lost = 0 /\ ~m.panic
  BY <1>1, <1>2 DEF Work
<1>7. Spaces!Hangs(m)
  BY <1>5 DEF Spaces!Hangs, Spaces!find_vma
<1>8. Total(m) = free + PagesIn(sp)
  BY <1>5, <1>6, PagesCounted DEF Total, PagesIn
<1>9. \A v : Spaces!find_vma(m, v) = Spaces!find_vma(sp, v)
  BY <1>5 DEF Spaces!find_vma
<1> QED BY <1>4, <1>5, <1>6, <1>7, <1>8, <1>9 DEF m, Well

LEMMA NoSpaceWell ==
    Spaces!NoSpace \in SpaceOf /\ Apart(Spaces!NoSpace.areas) /\ Spaces!Hangs(Spaces!NoSpace)
<1>1. {} \in FinNat
  BY FS_EmptySet DEF FinNat
<1>2. <<>> \in Seq(Area) /\ Len(<<>>) = 0
  OBVIOUS
<1>3. Spaces!NoSpace = [areas |-> <<>>, dirs |-> {}, tables |-> {}, ptes |-> {}]
  BY DEF Spaces!NoSpace
<1>4. Spaces!NoSpace \in SpaceOf
  BY <1>1, <1>2, <1>3 DEF SpaceOf
<1>5. Spaces!NoSpace.areas = <<>> /\ Spaces!NoSpace.tables = {} /\ Spaces!NoSpace.ptes = {}
  BY <1>3
<1> QED BY <1>2, <1>4, <1>5 DEF Apart, Spaces!Hangs

LEMMA Balanced ==
    ASSUME NEW n, NEW sp, n.free \in Int, n.lost \in Int, PagesIn(sp) \in Int,
           nr_free_pages \in Int, lost_pages \in Int, stranded \in Int,
           n.free + n.lost + PagesIn(sp) = nr_free_pages - 4
    PROVE  n.free + (lost_pages + n.lost) + stranded + (4 + PagesIn(sp))
              = nr_free_pages + lost_pages + stranded + 0
OBVIOUS

\* do_fork: the child has what copy_mm built, or nothing has changed.
LEMMA ForkKeeps ==
    ASSUME SpacesInv, ~panicked, NEW p \in User, NEW c \in User, Spaces!Fork(p, c)
    PROVE  SpacesInv'
<1>1. /\ AtType /\ MmType /\ programs \in Disks
      /\ nr_free_pages \in Int /\ lost_pages \in Int /\ stranded \in Int
      /\ \A q \in User : Apart(mm[q].areas) /\ Spaces!Hangs(mm[q])
  BY DEF SpacesInv, SpacesType
<1>2. at[p] = "user" /\ at[c] = "none" /\ stranded' = stranded
  BY DEF Spaces!Fork
<1> DEFINE free == nr_free_pages - 2 - 1
<1>3. PICK vmas \in 0..Len(mm[p].areas) :
         LET n == Spaces!copy_mm(free, mm[p], vmas)
         IN  /\ IF n.ok
                THEN /\ at' = [at EXCEPT ![c] = "user"]
                     /\ mm' = [mm EXCEPT ![c] = Spaces!Space(n)]
                ELSE UNCHANGED <<at, mm>>
             /\ Spaces!Commit(n, IF n.ok THEN n.free ELSE n.free + 1 + 2)
  BY DEF Spaces!Fork, Spaces!KSTACKPAGE
<1> DEFINE n == Spaces!copy_mm(free, mm[p], vmas)
<1>4. MmEnds(free, n)
  <2>1. mm[p].areas \in Seq(Area) /\ vmas \in Nat /\ free \in Int
    BY <1>1 DEF MmType, SpaceOf
  <2> HIDE DEF free
  <2> QED BY <2>1, MmCopied
<1>5. /\ nr_free_pages' = IF n.ok THEN n.free ELSE n.free + 1 + 2
      /\ lost_pages' = lost_pages + n.lost /\ panicked' = n.panic /\ programs' = programs
  BY <1>3 DEF Spaces!Commit
<1>6. IF n.ok THEN at' = [at EXCEPT ![c] = "user"] /\ mm' = [mm EXCEPT ![c] = Spaces!Space(n)]
      ELSE at' = at /\ mm' = mm
  BY <1>3
<1> HIDE DEF n
<1>7. n \in Work /\ n.panic \in BOOLEAN /\ n.free \in Int /\ n.lost \in Int
  BY <1>4 DEF MmEnds, Work
<1>8. CASE n.panic
  BY <1>1, <1>5, <1>7, <1>8 DEF SpacesInv
<1>9. CASE ~n.panic /\ n.ok
  <2> DEFINE sp == Spaces!Space(n)
  <2>1. Well(n) /\ Total(n) = free - 1
    BY <1>4, <1>9 DEF MmEnds
  <2>2. /\ sp \in SpaceOf /\ Apart(sp.areas) /\ Spaces!Hangs(sp)
        /\ PagesIn(sp) \in Nat /\ Total(n) = n.free + n.lost + PagesIn(sp)
    BY <1>9, <2>1, SpaceKept DEF Well
  <2>3. at' = [at EXCEPT ![c] = "user"] /\ mm' = [mm EXCEPT ![c] = sp]
    BY <1>6, <1>9
  <2> HIDE DEF sp
  <2>4. HeldIn("user", sp) = 4 + PagesIn(sp) /\ HeldIn(at[c], mm[c]) = 0
    BY <1>2 DEF HeldIn
  <2>5. nr_free_pages' = n.free
    BY <1>5, <1>9
  <2>6. nr_free_pages' + lost_pages' + stranded' + HeldIn("user", sp)
          = nr_free_pages + lost_pages + stranded + HeldIn(at[c], mm[c])
    <3>1. lost_pages' = lost_pages + n.lost /\ stranded' = stranded
      BY <1>2, <1>5
    <3>2. n.free + n.lost + PagesIn(sp) = nr_free_pages - 4
      <4>1. free - 1 = nr_free_pages - 4
        BY <1>1
      <4> HIDE DEF free
      <4> QED BY <2>1, <2>2, <4>1
    <3>3. n.free + (lost_pages + n.lost) + stranded + (4 + PagesIn(sp))
            = nr_free_pages + lost_pages + stranded + 0
      <4>1. /\ n.free \in Int /\ n.lost \in Int /\ PagesIn(sp) \in Int
            /\ nr_free_pages \in Int /\ lost_pages \in Int /\ stranded \in Int
        BY <1>1, <1>7, <2>2
      <4> QED BY <3>2, <4>1, Balanced, Zenon
    <3> QED BY <2>4, <2>5, <3>1, <3>3
  <2>7. nr_free_pages' \in Int /\ lost_pages' \in Int /\ stranded' \in Int
    BY <1>1, <1>2, <1>5, <1>7, <2>5
  <2>8. programs' = programs /\ panicked' \in BOOLEAN
    BY <1>5, <1>7
  <2> QED BY <2>2, <2>3, <2>6, <2>7, <2>8, OneProcess
<1>10. CASE ~n.panic /\ ~n.ok
  <2>1. n.free + n.lost = free
    BY <1>4, <1>10 DEF MmEnds
  <2>2. at' = [at EXCEPT ![p] = "user"] /\ mm' = [mm EXCEPT ![p] = mm[p]]
    BY <1>1, <1>2, <1>6, <1>10 DEF AtType, MmType
  <2>3. mm[p] \in SpaceOf
    BY <1>1 DEF MmType
  <2>4. nr_free_pages' = n.free + 1 + 2
    BY <1>5, <1>10
  <2>5. nr_free_pages' + lost_pages' = nr_free_pages + lost_pages
    <3>1. lost_pages' = lost_pages + n.lost
      BY <1>5
    <3>2. n.free + n.lost = nr_free_pages - 3
      BY <1>1, <2>1
    <3>3. (n.free + 1 + 2) + (lost_pages + n.lost) = nr_free_pages + lost_pages
      BY <1>1, <1>7, <3>2
    <3> QED BY <2>4, <3>1, <3>3
  <2>6. HeldIn("user", mm[p]) = HeldIn(at[p], mm[p])
    BY <1>2
  <2>7. nr_free_pages' \in Int /\ lost_pages' \in Int /\ stranded' \in Int
    BY <1>1, <1>2, <1>5, <1>7, <2>4
  <2>8. nr_free_pages' + lost_pages' + stranded' + HeldIn("user", mm[p])
          = nr_free_pages + lost_pages + stranded + HeldIn(at[p], mm[p])
    BY <1>2, <2>5, <2>6
  <2>9. programs' = programs /\ panicked' \in BOOLEAN
    BY <1>5, <1>7
  <2> QED BY <1>1, <2>2, <2>3, <2>7, <2>8, <2>9, OneProcess
<1> QED BY <1>8, <1>9, <1>10

\* What the process leaves: its space and what it held around it, or nothing yet.
LEMMA LeftFree ==
    ASSUME SpacesInv, ~panicked, NEW p \in User, at[p] \in {"user", "thread"}
    PROVE  LET n == Spaces!Left(p)
           IN  /\ n \in Work /\ ~n.panic /\ HeldIn(at[p], mm[p]) \in Int
               /\ n.free + n.lost = nr_free_pages + HeldIn(at[p], mm[p]) - 3
<1>1. /\ MmType /\ nr_free_pages \in Int
      /\ Apart(mm[p].areas) /\ Spaces!Hangs(mm[p]) /\ mm[p] \in SpaceOf
  BY DEF SpacesInv, SpacesType, MmType
<1>2. CASE at[p] = "user"
  <2> DEFINE m == Spaces!Open(mm[p], nr_free_pages)
             n == Spaces!Released(m)
  <2>1. Spaces!Left(p) = n
    BY <1>2 DEF Spaces!Left
  <2>2. Well(m) /\ ~m.panic /\ Total(m) = nr_free_pages + PagesIn(mm[p])
    BY <1>1, Opened
  <2> HIDE DEF m
  <2>3. m \in Work /\ Spaces!Hangs(m)
    BY <2>2 DEF Well
  <2>4. n \in Work /\ n.panic = m.panic /\ n.free + n.lost = Total(m) + 1
    BY <2>3, SpaceReleased
  <2> HIDE DEF n
  <2>5. HeldIn(at[p], mm[p]) = 4 + PagesIn(mm[p]) /\ PagesIn(mm[p]) \in Nat
    BY <1>1, <1>2, PagesCounted DEF HeldIn
  <2>6. n.free + n.lost = nr_free_pages + HeldIn(at[p], mm[p]) - 3
    BY <1>1, <2>2, <2>4, <2>5
  <2> QED BY <2>1, <2>2, <2>4, <2>5, <2>6
<1>3. CASE at[p] = "thread"
  <2> DEFINE n == Spaces!Fresh(nr_free_pages)
  <2>1. Spaces!Left(p) = n
    BY <1>3 DEF Spaces!Left
  <2>2. n \in Work /\ ~n.panic /\ n.free = nr_free_pages /\ n.lost = 0
    BY <1>1, FreshWell DEF Well
  <2> HIDE DEF n
  <2>3. HeldIn(at[p], mm[p]) = 3
    BY <1>3 DEF HeldIn
  <2> QED BY <1>1, <2>1, <2>2, <2>3
<1> QED BY <1>2, <1>3

LEMMA ExitKeeps ==
    ASSUME SpacesInv, ~panicked, NEW p \in User, Spaces!Exit(p)
    PROVE  SpacesInv'
<1> DEFINE n == Spaces!Left(p)
<1>1. at[p] = "user" /\ Spaces!do_exit(p, n, TRUE)
  BY DEF Spaces!Exit
<1>2. /\ n \in Work /\ ~n.panic /\ HeldIn(at[p], mm[p]) \in Int
      /\ n.free + n.lost = nr_free_pages + HeldIn(at[p], mm[p]) - 3
  BY <1>1, LeftFree
<1> HIDE DEF n
<1>3. /\ at' = [at EXCEPT ![p] = "zombie"] /\ mm' = [mm EXCEPT ![p] = Spaces!NoSpace]
      /\ stranded' = stranded /\ nr_free_pages' = n.free + 1
      /\ lost_pages' = lost_pages + n.lost /\ panicked' = n.panic /\ programs' = programs
  BY <1>1 DEF Spaces!do_exit, Spaces!Commit
<1>4. nr_free_pages \in Int /\ lost_pages \in Int /\ stranded \in Int
  BY DEF SpacesInv, SpacesType
<1>5. n.free \in Int /\ n.lost \in Int /\ n.panic \in BOOLEAN
  BY <1>2 DEF Work
<1>6. HeldIn("zombie", Spaces!NoSpace) = 2
  BY DEF HeldIn
<1>7. nr_free_pages' + lost_pages' + stranded' + HeldIn("zombie", Spaces!NoSpace)
        = nr_free_pages + lost_pages + stranded + HeldIn(at[p], mm[p])
  BY <1>2, <1>3, <1>4, <1>5, <1>6
<1>8. nr_free_pages' \in Int /\ lost_pages' \in Int /\ stranded' \in Int
  BY <1>3, <1>4, <1>5
<1>9. programs' = programs /\ panicked' \in BOOLEAN
  BY <1>3, <1>5
<1> QED BY <1>3, <1>7, <1>8, <1>9, NoSpaceWell, OneProcess

\* What the disk has for a segment.
Loadable == [start : Nat, filled : Nat, end : Nat]

LEMMA ElementOf ==
    ASSUME NEW S, NEW q \in Seq(S), NEW i \in 1..Len(q)
    PROVE  q[i] \in S
OBVIOUS

\* Programs are lists of segments of pages.
LEMMA ProgramLoads ==
    ASSUME SpacesInv, NEW g \in programs
    PROVE  g.reads \in Nat /\ g.segments \in Seq(Segment)
<1>1. g \in UNION Disks
  BY DEF SpacesInv
<1>2. /\ g \in [elf : BOOLEAN, reads : Nat,
                segments : Seq([start : Nat, filled : Nat, end : Nat])]
      /\ \A i \in DOMAIN g.segments :
            LET s == g.segments[i] IN s.start < s.end /\ s.filled \in s.start..s.end
  BY <1>1, SpacesAssumption
<1> DEFINE q == g.segments
<1>3. q \in Seq(Loadable)
  BY <1>2 DEF Loadable
<1>4. \A i \in DOMAIN q : q[i].start < q[i].end
  BY <1>2
<1> HIDE DEF q
<1>5. Len(q) \in Nat /\ DOMAIN q = 1..Len(q) /\ q = [i \in 1..Len(q) |-> q[i]]
  BY <1>3
<1>6. ASSUME NEW i \in 1..Len(q) PROVE q[i] \in Segment
  <2>1. q[i] \in Loadable
    BY <1>3, ElementOf
  <2>2. q[i].start < q[i].end
    BY <1>4, <1>5
  <2> QED BY <2>1, <2>2 DEF Segment, Loadable
<1>7. q \in Seq(Segment)
  BY <1>5, <1>6
<1> QED BY <1>2, <1>7 DEF q

LEMMA ExecKeeps ==
    ASSUME SpacesInv, ~panicked, NEW p \in User, NEW g \in programs, Spaces!Exec(p, g)
    PROVE  SpacesInv'
<1> DEFINE old == Spaces!Left(p)
           built == Spaces!load_icode(old.free, g)
           n == [built EXCEPT !.lost = built.lost + old.lost]
<1>1. /\ at[p] \in {"user", "thread"}
      /\ IF n.ok
         THEN /\ at' = [at EXCEPT ![p] = "user"] /\ mm' = [mm EXCEPT ![p] = Spaces!Space(n)]
              /\ Spaces!Commit(n, n.free) /\ stranded' = stranded
         ELSE Spaces!do_exit(p, n, FALSE)
  BY DEF Spaces!Exec
<1>2. /\ old \in Work /\ ~old.panic /\ HeldIn(at[p], mm[p]) \in Int
      /\ old.free + old.lost = nr_free_pages + HeldIn(at[p], mm[p]) - 3
  BY <1>1, LeftFree
<1> HIDE DEF old
<1>3. old.free \in Int /\ old.lost \in Int
  BY <1>2 DEF Work
<1>4. MmEnds(old.free, built)
  BY <1>3, ProgramLoads, IcodeLoaded
<1> HIDE DEF built
<1>5. built \in Work /\ built.free \in Int /\ built.lost \in Int /\ built.panic \in BOOLEAN
  BY <1>4 DEF MmEnds, Work
<1>6. n.lost = built.lost + old.lost /\ n.free = built.free /\ n.ok = built.ok
      /\ n.panic = built.panic
  BY <1>5 DEF Work
<1>7. n.areas = built.areas /\ n.dirs = built.dirs /\ n.tables = built.tables
      /\ n.ptes = built.ptes
  BY <1>5 DEF Work
<1> HIDE DEF n
<1>8. nr_free_pages \in Int /\ lost_pages \in Int /\ stranded \in Int /\ programs \in Disks
  BY DEF SpacesInv, SpacesType
<1>9. /\ nr_free_pages' = built.free /\ lost_pages' = lost_pages + built.lost + old.lost
      /\ panicked' = built.panic /\ programs' = programs
  <2>1. nr_free_pages' = n.free /\ lost_pages' = lost_pages + n.lost
        /\ panicked' = n.panic /\ programs' = programs
    BY <1>1 DEF Spaces!Commit, Spaces!do_exit
  <2> QED BY <1>3, <1>5, <1>6, <1>8, <2>1
<1>10. nr_free_pages' \in Int /\ lost_pages' \in Int
  BY <1>3, <1>5, <1>8, <1>9
<1>11. CASE built.panic
  BY <1>5, <1>8, <1>9, <1>11 DEF SpacesInv
<1>12. CASE ~built.panic /\ built.ok
  <2> DEFINE sp == Spaces!Space(built)
  <2>1. Well(built) /\ Total(built) = old.free - 1
    BY <1>4, <1>12 DEF MmEnds
  <2>2. /\ sp \in SpaceOf /\ Apart(sp.areas) /\ Spaces!Hangs(sp)
        /\ PagesIn(sp) \in Nat /\ Total(built) = built.free + built.lost + PagesIn(sp)
    BY <1>12, <2>1, SpaceKept DEF Well
  <2>3. Spaces!Space(n) = sp
    BY <1>7 DEF Spaces!Space
  <2>4. at' = [at EXCEPT ![p] = "user"] /\ mm' = [mm EXCEPT ![p] = sp] /\ stranded' = stranded
    <3> HIDE DEF sp
    <3> QED BY <1>1, <1>6, <1>12, <2>3
  <2> HIDE DEF sp
  <2>5. HeldIn("user", sp) = 4 + PagesIn(sp)
    BY DEF HeldIn
  <2>6. nr_free_pages' + lost_pages' + stranded' + HeldIn("user", sp)
          = nr_free_pages + lost_pages + stranded + HeldIn(at[p], mm[p])
    <3>1. built.free + built.lost + PagesIn(sp) = old.free - 1
      BY <2>1, <2>2
    <3>2. built.free + (lost_pages + built.lost + old.lost) + stranded + (4 + PagesIn(sp))
            = nr_free_pages + lost_pages + stranded + HeldIn(at[p], mm[p])
      BY <1>2, <1>3, <1>5, <1>8, <2>2, <3>1
    <3> QED BY <1>9, <2>4, <2>5, <3>2
  <2> QED BY <1>5, <1>8, <1>9, <1>10, <2>2, <2>4, <2>6, OneProcess
<1>13. CASE ~built.panic /\ ~built.ok
  <2>1. built.free + built.lost = old.free
    BY <1>4, <1>13 DEF MmEnds
  <2>2. /\ at' = [at EXCEPT ![p] = "zombie"] /\ mm' = [mm EXCEPT ![p] = Spaces!NoSpace]
        /\ stranded' = stranded + 1
    BY <1>1, <1>6, <1>13 DEF Spaces!do_exit
  <2>3. HeldIn("zombie", Spaces!NoSpace) = 2
    BY DEF HeldIn
  <2>4. nr_free_pages' + lost_pages' + stranded' + HeldIn("zombie", Spaces!NoSpace)
          = nr_free_pages + lost_pages + stranded + HeldIn(at[p], mm[p])
    <3>1. built.free + (lost_pages + built.lost + old.lost) + (stranded + 1) + 2
            = nr_free_pages + lost_pages + stranded + HeldIn(at[p], mm[p])
      BY <1>2, <1>3, <1>5, <1>8, <2>1
    <3> QED BY <1>9, <2>2, <2>3, <3>1
  <2>5. stranded' \in Int
    BY <1>8, <2>2
  <2> QED BY <1>5, <1>9, <1>10, <2>2, <2>4, <2>5, NoSpaceWell, OneProcess
<1> QED BY <1>11, <1>12, <1>13

\* A page fault in one of the areas.
LEMMA FaultKeeps ==
    ASSUME SpacesInv, ~panicked, NEW p \in User, NEW v \in Nat, Spaces!Fault(p, v)
    PROVE  SpacesInv'
<1> DEFINE m == Spaces!Open(mm[p], nr_free_pages)
           t == IF Spaces!find_vma(m, v) = {} THEN Spaces!Failed(m) ELSE Spaces!get_pte(m, v)
           n == IF t.ok THEN Spaces!pgdir_alloc_page(t, v) ELSE t
           e == [n EXCEPT !.panic = ~n.ok]
<1>1. /\ AtType /\ MmType /\ programs \in Disks
      /\ nr_free_pages \in Int /\ lost_pages \in Int /\ stranded \in Int
      /\ mm[p] \in SpaceOf /\ Apart(mm[p].areas) /\ Spaces!Hangs(mm[p])
  BY DEF SpacesInv, SpacesType, MmType
<1>2. /\ at[p] = "user" /\ v \notin mm[p].ptes
      /\ mm' = [mm EXCEPT ![p] = Spaces!Space(n)]
      /\ Spaces!Commit(e, n.free) /\ at' = at /\ stranded' = stranded
  BY DEF Spaces!Fault
<1>3. /\ Well(m) /\ ~m.panic /\ Total(m) = nr_free_pages + PagesIn(mm[p])
      /\ m.ptes = mm[p].ptes
  BY <1>1, Opened
<1>4. PagesIn(mm[p]) \in Int
  BY <1>1, PagesCounted
<1>5. m.lost = 0
  BY <1>1 DEF Spaces!Open, Spaces!Fresh
<1>6. /\ nr_free_pages' = n.free /\ lost_pages' = lost_pages + e.lost
      /\ panicked' = e.panic /\ programs' = programs
  BY <1>2 DEF Spaces!Commit
<1> HIDE DEF e
<1>7. m \in Work /\ Spaces!Hangs(m) /\ Apart(m.areas)
  BY <1>3 DEF Well
<1> HIDE DEF m
<1>8. CASE Spaces!find_vma(m, v) = {}
  <2> DEFINE f == Spaces!Failed(m)
  <2>1. f \in Work /\ ~f.ok
    BY <1>7 DEF Spaces!Failed, Work
  <2>2. t = f
    BY <1>8
  <2>3. n = f
    <3> HIDE DEF f
    <3> QED BY <2>1, <2>2
  <2> HIDE DEF f, n, t
  <2>4. e.panic
    BY <2>1, <2>3 DEF e, Work
  <2> QED BY <1>1, <1>6, <2>4 DEF SpacesInv
<1>9. CASE Spaces!find_vma(m, v) # {}
  <2> DEFINE r == Spaces!get_pte(m, v)
  <2>1. Reached(m, r, v)
    BY <1>7, TablesReached
  <2>2. t = r
    BY <1>9
  <2> HIDE DEF r, t
  <2>3. /\ r \in Work /\ r.areas = m.areas /\ r.ptes = m.ptes /\ r.lost = m.lost
        /\ Total(r) = Total(m) /\ Spaces!Hangs(r)
    BY <1>7, <2>1, ReachedHangs DEF Reached, Same
  <2>4. CASE ~r.ok
    <3>1. n = r
      BY <2>2, <2>4
    <3> HIDE DEF n
    <3>2. e.panic
      BY <2>3, <2>4, <3>1 DEF e, Work
    <3> QED BY <1>1, <1>6, <3>2 DEF SpacesInv
  <2>5. CASE r.ok
    <3> DEFINE k == Spaces!pgdir_alloc_page(r, v)
    <3>1. Paged(r, k, v)
      BY <2>3, PageAllocated
    <3>2. n = k
      BY <2>2, <2>5
    <3> HIDE DEF k, n
    <3>3. /\ n \in Work /\ n.areas = m.areas /\ n.lost = 0 /\ Total(n) = Total(m)
      BY <1>2, <1>3, <1>5, <2>3, <3>1, <3>2 DEF Paged
    <3>4. Spaces!Hangs(n)
      <4>1. Spaces!find_vma(r, v) # {}
        BY <1>9, <2>3 DEF Spaces!find_vma
      <4> QED BY <2>3, <3>1, <3>2, <4>1 DEF Paged
    <3>5. e.lost = 0 /\ e.panic = ~n.ok
      BY <3>3 DEF e, Work
    <3> DEFINE sp == Spaces!Space(n)
    <3>6. /\ sp \in SpaceOf /\ Apart(sp.areas) /\ Spaces!Hangs(sp)
          /\ PagesIn(sp) \in Nat /\ n.free \in Int
          /\ Total(n) = n.free + n.lost + PagesIn(sp)
      BY <1>7, <3>3, <3>4, SpaceKept
    <3> HIDE DEF sp
    <3>7. n.free + PagesIn(sp) = nr_free_pages + PagesIn(mm[p])
      <4>1. n.free \in Int /\ PagesIn(sp) \in Int
        BY <3>6
      <4> QED BY <1>3, <3>3, <3>6, <4>1
    <3>8. HeldIn("user", sp) = 4 + PagesIn(sp) /\ HeldIn(at[p], mm[p]) = 4 + PagesIn(mm[p])
      BY <1>2 DEF HeldIn
    <3>9. n.free + (lost_pages + 0) + stranded + (4 + PagesIn(sp))
            = nr_free_pages + lost_pages + stranded + (4 + PagesIn(mm[p]))
      <4>1. /\ n.free \in Int /\ PagesIn(sp) \in Int /\ PagesIn(mm[p]) \in Int
            /\ nr_free_pages \in Int /\ lost_pages \in Int /\ stranded \in Int
        BY <1>1, <1>4, <3>6
      <4> QED BY <3>7, <4>1
    <3>10. nr_free_pages' + lost_pages' + stranded' + HeldIn("user", sp)
             = nr_free_pages + lost_pages + stranded + HeldIn(at[p], mm[p])
      BY <1>2, <1>6, <3>5, <3>8, <3>9
    <3>11. at' = [at EXCEPT ![p] = "user"] /\ mm' = [mm EXCEPT ![p] = sp]
      BY <1>1, <1>2 DEF AtType, sp
    <3>12. nr_free_pages' \in Int /\ lost_pages' \in Int /\ stranded' \in Int
      BY <1>1, <1>2, <1>6, <3>5, <3>6
    <3>13. programs' = programs /\ panicked' \in BOOLEAN
      <4>1. n.ok \in BOOLEAN
        BY <3>3 DEF Work
      <4> QED BY <1>6, <3>5, <4>1
    <3> QED BY <3>6, <3>10, <3>11, <3>12, <3>13, OneProcess
  <2> QED BY <2>4, <2>5
<1> QED BY <1>8, <1>9

LEMMA WaitKeeps ==
    ASSUME SpacesInv, ~panicked, NEW c \in User, Spaces!Wait(c)
    PROVE  SpacesInv'
<1>1. /\ AtType /\ MmType
      /\ nr_free_pages \in Int /\ lost_pages \in Int /\ stranded \in Int
      /\ mm[c] \in SpaceOf /\ Apart(mm[c].areas) /\ Spaces!Hangs(mm[c])
  BY DEF SpacesInv, SpacesType, MmType
<1>2. /\ at[c] = "zombie" /\ at' = [at EXCEPT ![c] = "none"]
      /\ nr_free_pages' = nr_free_pages + 2 /\ mm' = mm /\ lost_pages' = lost_pages
      /\ stranded' = stranded /\ panicked' = panicked /\ programs' = programs
  BY DEF Spaces!Wait, Spaces!KSTACKPAGE
<1>3. mm' = [mm EXCEPT ![c] = mm[c]]
  BY <1>1, <1>2 DEF MmType
<1>4. HeldIn("none", mm[c]) = 0 /\ HeldIn(at[c], mm[c]) = 2
  BY <1>2 DEF HeldIn
<1>5. nr_free_pages' + lost_pages' + stranded' + HeldIn("none", mm[c])
        = nr_free_pages + lost_pages + stranded + HeldIn(at[c], mm[c])
  BY <1>1, <1>2, <1>4
<1>6. nr_free_pages' \in Int /\ lost_pages' \in Int /\ stranded' \in Int
  BY <1>1, <1>2
<1>7. panicked' \in BOOLEAN
  BY <1>2 DEF SpacesInv
<1> QED BY <1>1, <1>2, <1>3, <1>5, <1>6, <1>7, OneProcess

LEMMA SpacesUnchanged ==
    ASSUME SpacesInv, UNCHANGED <<at, mm, nr_free_pages, lost_pages, stranded, panicked, programs>>
    PROVE  SpacesInv'
<1>1. CASE panicked
  BY <1>1 DEF SpacesInv
<1>2. CASE ~panicked
  <2>1. /\ AtType /\ MmType
        /\ nr_free_pages \in Int /\ lost_pages \in Int /\ stranded \in Int
        /\ \A q \in User : mm[q] \in SpaceOf /\ Apart(mm[q].areas) /\ Spaces!Hangs(mm[q])
    BY <1>2 DEF SpacesInv, SpacesType, MmType
  <2>2. PICK p \in User : TRUE
    BY SpacesAssumption
  <2>3. at[p] \in {"none", "thread", "user", "zombie"} /\ at' = [at EXCEPT ![p] = at[p]]
        /\ mm' = [mm EXCEPT ![p] = mm[p]]
    BY <2>1 DEF AtType, MmType
  <2>4. panicked' \in BOOLEAN
    BY DEF SpacesInv
  <2> QED BY <1>2, <2>1, <2>3, <2>4, OneProcess
<1> QED BY <1>1, <1>2

LEMMA StackEnds == \A v \in 0..(StackArea.end - 1) : v \in Nat
BY SpacesAssumption

LEMMA SpacesKept == SpacesInv /\ Spaces!SpaceNext => SpacesInv'
<1> SUFFICES ASSUME SpacesInv, ~panicked, NEW p \in User,
                    \/ \E c \in User : Spaces!Fork(p, c)
                    \/ Spaces!ForkNoStack(p)
                    \/ Spaces!Exit(p) \/ Spaces!Wait(p)
                    \/ \E g \in programs : Spaces!Exec(p, g)
                    \/ \E v \in 0..(StackArea.end - 1) : Spaces!Fault(p, v)
             PROVE  SpacesInv'
  BY DEF Spaces!SpaceNext
<1>1. CASE \E c \in User : Spaces!Fork(p, c)
  BY <1>1, ForkKeeps
<1>2. CASE Spaces!ForkNoStack(p)
  BY <1>2, SpacesUnchanged DEF Spaces!ForkNoStack
<1>3. CASE Spaces!Exit(p)
  BY <1>3, ExitKeeps
<1>4. CASE Spaces!Wait(p)
  BY <1>4, WaitKeeps
<1>5. CASE \E g \in programs : Spaces!Exec(p, g)
  BY <1>5, ExecKeeps
<1>6. CASE \E v \in 0..(StackArea.end - 1) : Spaces!Fault(p, v)
  BY <1>6, StackEnds, FaultKeeps
<1> QED BY <1>1, <1>2, <1>3, <1>4, <1>5, <1>6

LEMMA NothingHeld ==
    ASSUME NEW U, IsFiniteSet(U), NEW h \in [U -> Int], NEW it \in [SUBSET U -> Int],
           SumsOf(it, h, U), NEW T \in SUBSET U, \A x \in T : h[x] = 0
    PROVE  it[T] = 0
<1> DEFINE k == [x \in U |-> 0]
           z == [s \in SUBSET U |-> 0]
<1>1. SumsOf(z, k, U)
  <2>1. ASSUME NEW s \in SUBSET U, s # {} PROVE k[Pick(s)] = 0 /\ z[s \ {Pick(s)}] = 0
    <3>1. Pick(s) \in U /\ s \ {Pick(s)} \in SUBSET U
      BY <2>1, PickedPart
    <3> QED BY <3>1
  <2>2. \A s \in SUBSET U : z[s] = 0
    OBVIOUS
  <2> HIDE DEF k, z
  <2>3. ASSUME NEW s \in SUBSET U
        PROVE  z[s] = IF s = {} THEN 0 ELSE k[Pick(s)] + z[s \ {Pick(s)}]
    <3>1. CASE s = {}
      BY <2>2, <3>1
    <3>2. CASE s # {}
      <4>1. k[Pick(s)] = 0 /\ z[s \ {Pick(s)}] = 0
        BY <2>1, <3>2
      <4>2. k[Pick(s)] + z[s \ {Pick(s)}] = 0
        BY <4>1
      <4> QED BY <2>2, <3>2, <4>2
    <3> QED BY <3>1, <3>2
  <2> QED BY <2>3 DEF SumsOf
<1>2. \A x \in T : h[x] = k[x]
  OBVIOUS
<1>3. z[T] = 0
  OBVIOUS
<1> HIDE DEF k, z
<1>4. it[T] = z[T]
  BY <1>1, <1>2, SumsAgree
<1> QED BY <1>3, <1>4

LEMMA SpacesStart == Spaces!SpaceInit => SpacesInv
<1> SUFFICES ASSUME Spaces!SpaceInit PROVE SpacesInv
  OBVIOUS
<1>1. /\ at = [p \in User |-> IF p = UserMain THEN "thread" ELSE "none"]
      /\ mm = [p \in User |-> Spaces!NoSpace]
      /\ nr_free_pages = NFree - 3 /\ lost_pages = 0 /\ stranded = 0
      /\ panicked = FALSE /\ programs \in Disks
  <2>1. NFree \in Nat
    BY SpacesAssumption
  <2> QED BY <2>1 DEF Spaces!SpaceInit, Spaces!KSTACKPAGE
<1>2. AtType /\ MmType
  <2>1. AtType
    BY <1>1 DEF AtType
  <2> QED BY <1>1, <2>1, NoSpaceWell DEF MmType
<1>3. /\ IsFiniteSet(User) /\ UserMain \in User /\ NFree \in Nat
  BY SpacesAssumption
<1>4. \A p \in User : Spaces!Held(p) = (IF p = UserMain THEN 3 ELSE 0)
  <2>1. \A p \in User : Spaces!Held(p) = HeldIn(at[p], mm[p])
    BY <1>2, HeldValue DEF HeldValues
  <2>2. \A p \in User : at[p] = (IF p = UserMain THEN "thread" ELSE "none")
    BY <1>1
  <2> QED BY <2>1, <2>2 DEF HeldIn
<1> DEFINE h == [p \in User |-> Spaces!Held(p)]
<1>5. PICK it : HeldSum(it)
  BY <1>2, HeldSummed
<1>6. it \in [SUBSET User -> Int] /\ SumsOf(it, h, User) /\ HeldByAll = it[User]
  BY <1>5 DEF HeldSum
<1>7. h \in [User -> Int] /\ h[UserMain] = 3 /\ \A x \in User \ {UserMain} : h[x] = 0
  BY <1>3, <1>4
<1> HIDE DEF h
<1> DEFINE T == User \ {UserMain}
<1>8. it[T] = 0
  BY <1>3, <1>6, <1>7, NothingHeld
<1>9. it[User] = h[UserMain] + it[T]
  <2>1. FirstOf(it, h, User)
    BY <1>3, <1>6, <1>7, AnyFirst
  <2> QED BY <1>3, <2>1 DEF FirstOf
<1> HIDE DEF T
<1>10. HeldByAll = 3
  BY <1>6, <1>7, <1>8, <1>9
<1>11. nr_free_pages + lost_pages + stranded + HeldByAll = NFree
  BY <1>1, <1>3, <1>10
<1>12. \A p \in User : Apart(mm[p].areas) /\ Spaces!Hangs(mm[p])
  BY <1>1, NoSpaceWell
<1>13. nr_free_pages \in Int /\ lost_pages \in Int /\ stranded \in Int
  BY <1>1, <1>3
<1> QED BY <1>1, <1>2, <1>11, <1>12, <1>13 DEF SpacesInv, SpacesType

\* Through any forks, faults, execs, exits and waits, whether they succeed or fail
\* half-way, every page is free, or held by one process, or lost where the code
\* loses it, and no page table is freed under its pages, as long as no assertion
\* has stopped the kernel.
THEOREM FramesSound == ResourcesSpec => []FramesExact
<1> DEFINE Inv == running = "spaces" => SpacesInv
<1>1. ResourcesInit => Inv
  BY SpacesStart DEF ResourcesInit
<1>2. Inv /\ [ResourcesNext]_managers => Inv'
  <2> SUFFICES ASSUME Inv, [ResourcesNext]_managers, running' = "spaces" PROVE SpacesInv'
    OBVIOUS
  <2>1. running = "spaces" /\ (Spaces!SpaceNext \/ UNCHANGED avars)
    BY DEF ResourcesNext, managers
  <2>2. CASE Spaces!SpaceNext
    BY <2>1, <2>2, SpacesKept
  <2>3. CASE UNCHANGED avars
    BY <2>1, <2>3, SpacesUnchanged DEF avars
  <2> QED BY <2>1, <2>2, <2>3
<1>3. Inv => FramesExact
  BY DEF FramesExact, Spaces!FramesExact, SpacesInv, HeldByAll
<1> HIDE DEF Inv
<1> QED BY <1>1, <1>2, <1>3, PTL DEF ResourcesSpec

------------------------------------------------------------------------------
(* Process numbers *)

Block == Families!Block
Used == Families!Used
Named == Used \ {idle}

\* The links of proc_list and hash_list, and who can be a zombie.
ListsInv ==
    /\ pid \in [Block -> Int] /\ pid[idle] = 0
    /\ zombie \subseteq Child
    /\ proc_list \in Seq(Block)
    /\ \A i, j \in DOMAIN proc_list : proc_list[i] = proc_list[j] => i = j
    /\ ToSet(proc_list) = Named
    /\ hash_list = Named

\* Numbers are in range and differ, and those between last_pid and next_safe are
\* free: what get_pid relies on when it does not look.
NumbersInv ==
    /\ \A p \in Named : pid[p] \in 1..(MAX_PID - 1)
    /\ \A p, q \in Named : pid[p] = pid[q] => p = q
    /\ last_pid \in 1..(MAX_PID - 1) /\ next_safe \in 1..MAX_PID
    /\ \A p \in Named : ~ (last_pid < pid[p] /\ pid[p] < next_safe)

\* Of more things than there are places two have the same place.
LEMMA TooMany ==
    ASSUME NEW a \in Nat, NEW b \in Nat, b < a, NEW f \in [1..a -> 1..b]
    PROVE  \E i, j \in 1..a : i # j /\ f[i] = f[j]
<1> DEFINE Size(n) == IF 1 > n THEN 0 ELSE n - 1 + 1
<1>1. \A n \in Int : IsFiniteSet(1..n) /\ Cardinality(1..n) = Size(n)
  BY FS_Interval
<1>2. Size(a) = a /\ Size(b) = b /\ a \in Int /\ b \in Int
  OBVIOUS
<1> HIDE DEF Size
<1>3. /\ IsFiniteSet(1..a) /\ Cardinality(1..a) = a
      /\ IsFiniteSet(1..b) /\ Cardinality(1..b) = b
  BY <1>1, <1>2
<1> DEFINE S == 1..a
           T == 1..b
<1> HIDE DEF S, T
<1> QED BY <1>3, FS_PigeonHole DEF S, T

\* There are more numbers than processes, so that one is free.
LEMMA NumberFree ==
    ASSUME ListsInv, NumbersInv, Families!nr_process < MAX_PROCESS
    PROVE  \E n \in 1..(MAX_PID - 1) : \A i \in 1..Len(proc_list) : pid[proc_list[i]] # n
<1> DEFINE S == 1..(MAX_PID - 1)
           T == 1..Len(proc_list)
           At(n, i) == pid[proc_list[i]] = n
           f == [n \in S |-> CHOOSE i \in T : At(n, i)]
<1>1. Len(proc_list) \in Nat /\ Len(proc_list) < MAX_PID - 1 /\ MAX_PID \in Nat
  BY FamilyAssumption, LenProperties DEF ListsInv, Families!nr_process
<1> SUFFICES ASSUME \A n \in S : \E i \in T : At(n, i) PROVE FALSE
  OBVIOUS
<1> HIDE DEF At, S, T
<1>3. \A n \in S : f[n] \in T /\ At(n, f[n])
  BY Zenon
<1>4. f \in [S -> T]
  BY <1>3
<1> HIDE DEF f
<1>5. \E m, n \in S : m # n /\ f[m] = f[n]
  <2>1. MAX_PID - 1 \in Nat
    BY <1>1
  <2> QED BY <1>1, <1>4, <2>1, TooMany, Zenon DEF S, T
<1> QED BY <1>3, <1>5 DEF At

LEMMA Steeper ==
    ASSUME NEW a \in Nat, NEW b \in Nat, NEW k \in Nat, a < b
    PROVE  a * k + k <= b * k /\ a * k \in Nat /\ b * k \in Nat
<1>1. \A m \in Nat : m * k \in Nat
  OBVIOUS
<1>2. b - a - 1 \in Nat
  OBVIOUS
<1>3. (b - a - 1) * k = b * k - a * k - k
  OBVIOUS
<1> QED BY <1>1, <1>2, <1>3

\* Number n is not in use, nor is one between it and s.
Vacant(n, s) ==
    \A i \in 1..Len(proc_list) :
        pid[proc_list[i]] # n /\ ~ (n < pid[proc_list[i]] /\ pid[proc_list[i]] < s)

\* get_pid's loop ends, at a number that is not in use; and so are those up to the
\* next_safe it has found.
LEMMA ScanFinds ==
    ASSUME ListsInv, NumbersInv, Families!nr_process < MAX_PROCESS,
           NEW from \in 1..(MAX_PID - 1)
    PROVE  \E n \in 1..(MAX_PID - 1), s \in 1..MAX_PID :
              Families!Scan(from) = <<n, s>> /\ Vacant(n, s)
<1> DEFINE len == Len(proc_list)
           numOf(i) == pid[proc_list[i]]
           D == Families!Rounds
           Done == {t \in D : t.at > len}
           next == [t \in D |-> Families!Looked(t)]
           val == [t \in Done |-> <<t.last, t.safe>>]
           Tried(t) == /\ t.last < MAX_PID /\ t.last < t.safe
                       /\ \A j \in 1..(t.at - 1) :
                             numOf(j) # t.last /\ ~ (t.last < numOf(j) /\ numOf(j) < t.safe)
           I == {t \in D : Tried(t)}
           G == {<<n, s>> : n \in 1..(MAX_PID - 1), s \in 1..MAX_PID}
           Results == {r \in G : Vacant(r[1], r[2])}
           Loop(f) == f = [t \in D |-> IF t.at > len THEN <<t.last, t.safe>>
                                       ELSE f[Families!Looked(t)]]
           look == CHOOSE f : Loop(f)
           start == [at |-> 1, last |-> from, safe |-> MAX_PID]
<1>1. /\ len \in Nat /\ MAX_PID \in Nat /\ MAX_PID > 2
      /\ \A i \in 1..len : numOf(i) \in 1..(MAX_PID - 1)
  <2>1. len \in Nat /\ MAX_PID \in Nat /\ MAX_PID > 2 /\ DOMAIN proc_list = 1..len
    BY FamilyAssumption, LenProperties DEF ListsInv
  <2>2. \A i \in 1..len : proc_list[i] \in Named
    BY <2>1 DEF ListsInv, ToSet
  <2> QED BY <2>1, <2>2 DEF NumbersInv
<1>2. PICK e \in 1..(MAX_PID - 1) : \A i \in 1..len : numOf(i) # e
  BY NumberFree
<1>3. D = [at : 1..(len + 1), last : 1..MAX_PID, safe : 1..MAX_PID]
  BY DEF Families!Rounds
<1>4. \A t : Families!Looked(t) =
          IF numOf(t.at) = t.last
          THEN IF t.last + 1 < t.safe THEN [t EXCEPT !.at = t.at + 1, !.last = t.last + 1]
               ELSE [at |-> 1, last |-> IF t.last + 1 >= MAX_PID THEN 1 ELSE t.last + 1,
                     safe |-> MAX_PID]
          ELSE [at |-> t.at + 1, last |-> t.last,
                safe |-> IF numOf(t.at) > t.last /\ t.safe > numOf(t.at) THEN numOf(t.at)
                         ELSE t.safe]
  BY DEF Families!Looked
<1> HIDE DEF numOf, len, D
<1> DEFINE k == len + 1
           dist(t) == IF t.last <= e THEN e - t.last ELSE e + MAX_PID - t.last
           rank == [t \in D |-> dist(t) * k + (k - t.at)]
           B == (MAX_PID + 1) * k
\* One round of the loop leads on.
<1>5. ASSUME NEW t \in D, t \notin Done
      PROVE  LET u == Families!Looked(t)
             IN  /\ u \in D
                 /\ (t.at < u.at /\ u.last = t.last) \/ dist(u) < dist(t)
                 /\ t \in I => u \in I
  <2> DEFINE u == Families!Looked(t)
  <2>1. /\ t.at \in 1..len /\ t.last \in 1..MAX_PID /\ t.safe \in 1..MAX_PID
        /\ t = [at |-> t.at, last |-> t.last, safe |-> t.safe]
    BY <1>1, <1>3, <1>5
  <2>2. numOf(t.at) \in 1..(MAX_PID - 1) /\ numOf(t.at) # e
    BY <1>1, <1>2, <2>1
  <2>3. CASE numOf(t.at) = t.last /\ t.last + 1 < t.safe
    <3>1. u = [at |-> t.at + 1, last |-> t.last + 1, safe |-> t.safe]
      BY <1>4, <2>1, <2>3, Zenon
    <3> HIDE DEF u
    <3>2. u \in D
      BY <1>1, <1>3, <2>1, <2>3, <3>1
    <3>3. dist(u) < dist(t)
      BY <1>1, <2>1, <2>2, <2>3, <3>1
    <3>4. ASSUME t \in I PROVE u \in I
      <4>1. \A j \in 1..(t.at - 1) : numOf(j) \in Int /\ numOf(j) # t.last
                    /\ ~ (t.last < numOf(j) /\ numOf(j) < t.safe)
        BY <1>1, <2>1, <3>4
      <4>2. \A j \in 1..t.at : numOf(j) # t.last + 1
                    /\ ~ (t.last + 1 < numOf(j) /\ numOf(j) < t.safe)
        BY <2>1, <2>3, <4>1
      <4>3. u.at - 1 = t.at /\ u.last = t.last + 1 /\ u.safe = t.safe
        BY <2>1, <3>1
      <4> QED BY <2>1, <2>3, <3>2, <4>2, <4>3, <1>1
    <3> QED BY <3>2, <3>3, <3>4 DEF u
  <2>4. CASE numOf(t.at) = t.last /\ ~ (t.last + 1 < t.safe)
    <3> DEFINE l == IF t.last + 1 >= MAX_PID THEN 1 ELSE t.last + 1
    <3>1. u = [at |-> 1, last |-> l, safe |-> MAX_PID]
      BY <1>4, <2>1, <2>4, Zenon
    <3>2. l \in 1..(MAX_PID - 1)
      BY <1>1, <2>1
    <3> HIDE DEF u
    <3>3. dist(u) < dist(t)
      BY <1>1, <1>2, <2>1, <2>2, <2>4, <3>1
    <3> HIDE DEF l
    <3>4. u \in D
      BY <1>1, <1>3, <3>1, <3>2
    <3>5. u \in I
      BY <1>1, <3>1, <3>2, <3>4
    <3> QED BY <3>3, <3>4, <3>5 DEF u
  <2>5. CASE numOf(t.at) # t.last
    <3> DEFINE s == IF numOf(t.at) > t.last /\ t.safe > numOf(t.at) THEN numOf(t.at) ELSE t.safe
    <3>1. u = [at |-> t.at + 1, last |-> t.last, safe |-> s]
      BY <1>4, <2>1, <2>5, Zenon
    <3>2. s \in 1..MAX_PID /\ s <= t.safe /\ ~ (t.last < numOf(t.at) /\ numOf(t.at) < s)
          /\ (t.last < t.safe => t.last < s)
      BY <1>1, <2>1, <2>2
    <3> HIDE DEF u, s
    <3>3. u \in D
      BY <1>1, <1>3, <2>1, <3>1, <3>2
    <3>4. t.at < u.at /\ u.last = t.last
      BY <2>1, <3>1
    <3>5. ASSUME t \in I PROVE u \in I
      <4>1. \A j \in 1..(t.at - 1) : numOf(j) \in Int /\ numOf(j) # t.last
                    /\ ~ (t.last < numOf(j) /\ numOf(j) < t.safe)
        BY <1>1, <2>1, <3>5
      <4>2. \A j \in 1..t.at : numOf(j) # t.last /\ ~ (t.last < numOf(j) /\ numOf(j) < s)
        BY <2>1, <2>5, <3>2, <4>1
      <4>3. u.at - 1 = t.at /\ u.last = t.last /\ u.safe = s
        BY <2>1, <3>1
      <4> QED BY <2>1, <3>2, <3>3, <3>5, <4>2, <4>3
    <3> QED BY <3>3, <3>4, <3>5 DEF u
  <2> QED BY <2>1, <2>3, <2>4, <2>5
<1>6. ASSUME NEW t \in D PROVE dist(t) \in 0..MAX_PID /\ k - t.at \in 0..len
  BY <1>1, <1>2, <1>3
<1>7. rank \in [D -> Nat] /\ B \in Nat /\ \A t \in D : rank[t] < B
  <2>1. k \in Nat /\ B \in Nat
    BY <1>1
  <2>2. ASSUME NEW t \in D
        PROVE  dist(t) * k + (k - t.at) \in Nat /\ dist(t) * k + (k - t.at) < B
    <3>1. dist(t) \in Nat /\ dist(t) < MAX_PID + 1 /\ MAX_PID + 1 \in Nat
      BY <1>1, <1>6
    <3> HIDE DEF dist, k
    <3>2. dist(t) * k + k <= B /\ dist(t) * k \in Nat /\ B \in Nat
      BY <2>1, <3>1, Steeper
    <3>3. k - t.at \in 0..len /\ len < k
      BY <1>1, <1>6 DEF k
    <3> HIDE DEF B
    <3> QED BY <1>1, <2>1, <3>2, <3>3
  <2> HIDE DEF dist, k, B
  <2> QED BY <2>1, <2>2
<1>8. \A t \in D : t \notin Done => next[t] \in D /\ rank[next[t]] < rank[t]
  <2> SUFFICES ASSUME NEW t \in D, t \notin Done PROVE next[t] \in D /\ rank[next[t]] < rank[t]
    OBVIOUS
  <2> DEFINE u == Families!Looked(t)
  <2>1. next[t] = u
    OBVIOUS
  <2> HIDE DEF u, next, Done
  <2>2. u \in D /\ ((t.at < u.at /\ u.last = t.last) \/ dist(u) < dist(t))
    BY <1>5 DEF u
  <2>3. /\ dist(t) \in Nat /\ dist(u) \in Nat /\ k \in Nat
        /\ k - t.at \in 0..len /\ k - u.at \in 0..len /\ len < k
        /\ t.at \in Int /\ u.at \in Int
    BY <1>1, <1>3, <1>6, <2>2
  <2>4. CASE dist(u) < dist(t)
    <3> HIDE DEF dist, k
    <3>1. dist(u) * k + k <= dist(t) * k /\ dist(u) * k \in Nat /\ dist(t) * k \in Nat
      BY <2>3, <2>4, Steeper
    <3>2. rank[u] = dist(u) * k + (k - u.at) /\ rank[t] = dist(t) * k + (k - t.at)
      BY <2>2
    <3> HIDE DEF rank
    <3> QED BY <1>1, <2>1, <2>2, <2>3, <3>1, <3>2
  <2>5. CASE t.at < u.at /\ u.last = t.last
    <3>1. dist(u) = dist(t)
      BY <2>5
    <3> HIDE DEF dist, k
    <3>2. rank[u] = dist(t) * k + (k - u.at) /\ rank[t] = dist(t) * k + (k - t.at)
      BY <2>2, <3>1
    <3>3. dist(t) * k \in Nat
      BY <2>3
    <3> HIDE DEF rank
    <3> QED BY <1>1, <2>1, <2>2, <2>3, <2>5, <3>2, <3>3
  <2> QED BY <2>2, <2>4, <2>5
<1> HIDE DEF rank, dist, k, B
<1>9. Terminates(D, next, val, rank, B)
  <2>1. DOMAIN val = Done
    OBVIOUS
  <2> HIDE DEF val, next, Done
  <2> QED BY <1>7, <1>8, <2>1 DEF Terminates
<1>10. \A g : Loop(g) <=> Outcome(D, next, val, g)
  <2> SUFFICES ASSUME NEW g PROVE Loop(g) <=> Outcome(D, next, val, g)
    OBVIOUS
  <2> QED BY Zenon DEF Outcome
<1>11. Outcome(D, next, val, look)
  <2> HIDE DEF Loop, val, next, look
  <2>1. \E g : Outcome(D, next, val, g)
    BY <1>9, LoopEnds
  <2>2. \E g : Loop(g)
    BY <1>10, <2>1, Zenon
  <2>3. Loop(look)
    BY <2>2, Zenon DEF look
  <2> QED BY <1>10, <2>3, Zenon
<1> HIDE DEF look, Loop
<1>12. \A t \in I : look[t] \in Results
  <2>1. I \in SUBSET D
    OBVIOUS
  <2>2. ASSUME NEW t \in I PROVE IF t \in DOMAIN val THEN val[t] \in Results ELSE next[t] \in I
    <3>1. CASE t \in Done
      <4>1. t.at = len + 1 /\ t.last \in 1..(MAX_PID - 1) /\ t.safe \in 1..MAX_PID
        BY <1>1, <1>3, <3>1
      <4>2. val[t] = <<t.last, t.safe>> /\ t.at - 1 = len
        BY <1>1, <3>1, <4>1
      <4>3. Vacant(t.last, t.safe)
        BY <4>2 DEF Vacant, numOf, len
      <4> QED BY <3>1, <4>1, <4>2, <4>3
    <3>2. CASE t \notin Done
      BY <1>5, <3>2
    <3> QED BY <3>1, <3>2
  <2> HIDE DEF Done, val, next, I, Results
  <2>3. Keeps(next, val, I, Results)
    BY <2>2 DEF Keeps
  <2> QED BY <1>9, <1>11, <2>1, <2>3, LoopResult
<1>13. start \in I
  BY <1>1, <1>3
<1>14. Families!Scan(from) = look[start]
  BY Zenon DEF Families!Scan, look, Loop, D, len
<1> HIDE DEF I, start
<1>15. look[start] \in Results
  BY <1>12, <1>13
<1> QED BY <1>14, <1>15

\* Whatever the numbers remembered, get_pid gives one that is not in use.
LEMMA NumberGiven ==
    ASSUME ListsInv, NumbersInv, Families!nr_process < MAX_PROCESS
    PROVE  \E n \in 1..(MAX_PID - 1), s \in 1..MAX_PID :
              Families!get_pid = <<n, s>> /\ Vacant(n, s)
<1>1. MAX_PID \in Nat /\ MAX_PID > 2 /\ last_pid \in 1..(MAX_PID - 1) /\ next_safe \in 1..MAX_PID
  BY FamilyAssumption DEF NumbersInv
<1>2. CASE last_pid + 1 >= MAX_PID
  <2>1. Families!get_pid = Families!Scan(1) /\ 1 \in 1..(MAX_PID - 1)
    BY <1>1, <1>2 DEF Families!get_pid
  <2> QED BY <2>1, ScanFinds
<1>3. CASE ~ (last_pid + 1 >= MAX_PID) /\ last_pid + 1 >= next_safe
  <2>1. Families!get_pid = Families!Scan(last_pid + 1) /\ last_pid + 1 \in 1..(MAX_PID - 1)
    BY <1>1, <1>3 DEF Families!get_pid
  <2> QED BY <2>1, ScanFinds
<1>4. CASE ~ (last_pid + 1 >= MAX_PID) /\ ~ (last_pid + 1 >= next_safe)
  <2>1. Families!get_pid = <<last_pid + 1, next_safe>> /\ last_pid + 1 \in 1..(MAX_PID - 1)
    BY <1>1, <1>4 DEF Families!get_pid
  <2>2. Vacant(last_pid + 1, next_safe)
    <3>1. ASSUME NEW i \in 1..Len(proc_list) PROVE proc_list[i] \in Named
      BY LenProperties DEF ListsInv, ToSet
    <3>2. \A p \in Named : pid[p] \in Int /\ ~ (last_pid < pid[p] /\ pid[p] < next_safe)
      BY DEF NumbersInv
    <3> QED BY <1>1, <1>4, <3>1, <3>2 DEF Vacant
  <2> QED BY <1>1, <2>1, <2>2
<1> QED BY <1>2, <1>3, <1>4

\* A child is born with a number of its own.
LEMMA ForkNumbers ==
    ASSUME ListsInv, NumbersInv, NEW p, NEW c \in Child, Families!do_fork(p, c)
    PROVE  ListsInv' /\ NumbersInv'
<1>1. PICK n \in 1..(MAX_PID - 1), s \in 1..MAX_PID :
          Families!get_pid = <<n, s>> /\ Vacant(n, s)
  BY NumberGiven DEF Families!do_fork
<1>2. /\ pid' = [pid EXCEPT ![c] = n] /\ last_pid' = n /\ next_safe' = s
      /\ proc_list' = <<c>> \o proc_list /\ hash_list' = hash_list \cup {c}
      /\ zombie' = zombie /\ c \notin Used
  BY <1>1 DEF Families!do_fork, Used
<1>3. c # idle /\ c \in Block /\ n # -1 /\ n \in Int
  BY FamilyAssumption, <1>1 DEF Block, Families!Block
<1>4. Named' = Named \cup {c}
  BY <1>2, <1>3 DEF Named, Used, Families!Used, Families!Block, ListsInv, Block
<1>5. c \notin ToSet(proc_list)
  BY <1>2 DEF ListsInv, Named
<1>6. ListsInv'
  <2> DEFINE l == <<c>> \o proc_list
  <2>1. /\ l \in Seq(Block) /\ ToSet(l) = ToSet(proc_list) \cup {c}
        /\ \A i, j \in DOMAIN l : l[i] = l[j] => i = j
    BY <1>3, <1>5, JoinsList DEF ListsInv
  <2>2. proc_list' = l
    BY <1>2
  <2> HIDE DEF l
  <2>3. Block' = Block
    BY DEF Block, Families!Block
  <2>4. pid' \in [Block -> Int] /\ pid'[idle] = 0
    BY <1>2, <1>3 DEF ListsInv
  <2> QED BY <1>2, <1>4, <2>1, <2>2, <2>3, <2>4, Zenon DEF ListsInv
<1>7. NumbersInv'
  <2>1. ASSUME NEW q \in Named
        PROVE  /\ pid[q] # n /\ ~ (n < pid[q] /\ pid[q] < s)
               /\ pid'[q] = pid[q] /\ q # c /\ pid[q] \in 1..(MAX_PID - 1)
    <3>1. PICK i \in 1..Len(proc_list) : proc_list[i] = q
      BY LenProperties DEF ListsInv, ToSet
    <3>2. q # c /\ pid'[q] = pid[q]
      BY <1>2, <1>3 DEF Named, ListsInv
    <3> QED BY <1>1, <3>1, <3>2 DEF Vacant, NumbersInv
  <2>2. pid'[c] = n
    BY <1>2, <1>3 DEF ListsInv
  <2>3. \A q \in Named' : q = c \/ q \in Named
    BY <1>4
  <2>4. \A q, r \in Named' : pid'[q] = pid'[r] => q = r
    BY <2>1, <2>2, <2>3 DEF NumbersInv
  <2>5. /\ \A q \in Named' : pid'[q] \in 1..(MAX_PID - 1)
        /\ \A q \in Named' : ~ (n < pid'[q] /\ pid'[q] < s)
    BY <1>1, <2>1, <2>2, <2>3
  <2> QED BY <1>1, <1>2, <2>4, <2>5 DEF NumbersInv
<1> QED BY <1>6, <1>7

\* A number that is given back stays away until get_pid comes to it.
LEMMA ReapNumbers ==
    ASSUME ListsInv, NumbersInv, NEW c \in zombie, Families!Reaped(c)
    PROVE  ListsInv' /\ NumbersInv'
<1>1. /\ pid' = [pid EXCEPT ![c] = -1] /\ zombie' = zombie \ {c}
      /\ proc_list' = Families!RemoveFirst(proc_list, c) /\ hash_list' = hash_list \ {c}
      /\ UNCHANGED <<last_pid, next_safe>>
  BY DEF Families!Reaped
<1>2. c \in Child /\ c # idle /\ c \in Block
  BY FamilyAssumption DEF ListsInv, Block, Families!Block
<1>3. Named' = Named \ {c} /\ \A q \in Named' : pid'[q] = pid[q]
  BY <1>1, <1>2 DEF Named, Used, Families!Used, Families!Block, ListsInv, Block
<1>4. ListsInv'
  <2> DEFINE l == RemoveFirst(proc_list, c)
  <2>1. /\ l \in Seq(Block) /\ ToSet(l) = ToSet(proc_list) \ {c}
        /\ \A i, j \in DOMAIN l : l[i] = l[j] => i = j
    BY LeavesList DEF ListsInv
  <2>2. proc_list' = l
    BY <1>1 DEF Families!RemoveFirst, Families!SelectInSeq, Families!Min, Families!RemoveAt,
                RemoveFirst, SelectInSeq, Min, RemoveAt
  <2> HIDE DEF l
  <2>3. Block' = Block
    BY DEF Block, Families!Block
  <2>4. pid' \in [Block -> Int] /\ pid'[idle] = 0
    BY <1>1, <1>2 DEF ListsInv
  <2> QED BY <1>1, <1>3, <2>1, <2>2, <2>3, <2>4 DEF ListsInv
<1>5. NumbersInv'
  BY <1>1, <1>3 DEF NumbersInv
<1> QED BY <1>4, <1>5

LEMMA ExitNumbers ==
    ASSUME ListsInv, NumbersInv, NEW p \in Block, Families!do_exit(p)
    PROVE  ListsInv' /\ NumbersInv'
<1>1. p \in Child /\ zombie' = zombie \cup {p}
      /\ UNCHANGED <<pid, proc_list, hash_list, last_pid, next_safe>>
  BY DEF Families!do_exit, Families!Block, Block
<1>2. Named' = Named /\ Block' = Block
  BY <1>1 DEF Named, Used, Families!Used, Families!Block, Block
<1> QED BY <1>1, <1>2 DEF ListsInv, NumbersInv

LEMMA NumbersInit ==
    ASSUME Families!FamilyInit
    PROVE  ListsInv /\ NumbersInv
<1>1. /\ pid \in [Block -> Int] /\ pid[idle] = 0 /\ pid[init] = 1
      /\ \A c \in Child : pid[c] = -1
      /\ zombie = {} /\ proc_list = <<init>> /\ hash_list = {init}
      /\ last_pid = 1 /\ next_safe = MAX_PID
  BY DEF Families!FamilyInit, Families!Block, Block
<1>2. Named = {init}
  BY <1>1, FamilyAssumption DEF Named, Used, Families!Used, Families!Block
<1>3. init \in Block
  BY DEF Block, Families!Block
<1>4. /\ proc_list \in Seq(Block) /\ ToSet(proc_list) = {init}
      /\ \A i, j \in DOMAIN proc_list : proc_list[i] = proc_list[j] => i = j
  BY <1>1, <1>3 DEF ToSet
<1> QED BY <1>1, <1>2, <1>4, FamilyAssumption DEF ListsInv, NumbersInv

LEMMA NumbersStep ==
    ASSUME ListsInv, NumbersInv, Families!FamilyNext
    PROVE  ListsInv' /\ NumbersInv'
<1>1. PICK p \in Block : \/ \E c \in Child : Families!do_fork(p, c)
                        \/ Families!do_exit(p)
                        \/ Families!WaitAny(p)
                        \/ \E n \in 1..(MAX_PID - 1) : Families!WaitPid(p, n)
  BY DEF Families!FamilyNext, Block
<1>2. CASE \E c \in Child : Families!do_fork(p, c)
  BY <1>2, ForkNumbers
<1>3. CASE Families!do_exit(p)
  BY <1>3, ExitNumbers
<1>4. CASE Families!WaitAny(p)
  <2>1. \E c \in zombie : Families!Reaped(c)
    BY <1>4 DEF Families!WaitAny
  <2> QED BY <2>1, ReapNumbers
<1>5. CASE \E n \in 1..(MAX_PID - 1) : Families!WaitPid(p, n)
  <2>1. \E c \in zombie : Families!Reaped(c)
    BY <1>5 DEF Families!WaitPid
  <2> QED BY <2>1, ReapNumbers
<1> QED BY <1>1, <1>2, <1>3, <1>4, <1>5

\* While another manager runs, processes and numbers stay as they are.
LEMMA FamilyStep ==
    ASSUME [ResourcesNext]_managers
    PROVE  running' = running /\ (running # "family" => UNCHANGED fvars)
                             /\ (running = "family" => [Families!FamilyNext]_fvars)
  BY DEF ResourcesNext, managers, fvars

\* No two processes ever have the same number, and each is found by its own,
\* however numbers run through the range and round its end: get_pid (proc.c:200)
\* looks through the processes only when it has come to next_safe.
THEOREM NumbersUnique == ResourcesSpec => []PidsUnique
<1> DEFINE Inv == running = "family" => ListsInv /\ NumbersInv
<1>1. ResourcesInit => Inv
  BY NumbersInit DEF ResourcesInit
<1>2. Inv /\ [ResourcesNext]_managers => Inv'
  <2> SUFFICES ASSUME Inv, [ResourcesNext]_managers, running' = "family"
               PROVE  ListsInv' /\ NumbersInv'
    OBVIOUS
  <2>1. running = "family" /\ [Families!FamilyNext]_fvars
    BY FamilyStep
  <2>2. CASE UNCHANGED fvars
    BY <2>1, <2>2 DEF fvars, ListsInv, NumbersInv, Named, Used, Block, Families!Used, Families!Block
  <2> QED BY <2>1, <2>2, NumbersStep
<1>3. Inv => PidsUnique
  <2> SUFFICES ASSUME running = "family", ListsInv, NumbersInv PROVE Families!PidsUnique
    BY DEF PidsUnique
  <2>1. ASSUME NEW p \in Named
        PROVE  pid[p] \in 1..(MAX_PID - 1) /\ Families!find_proc(pid[p]) = {p}
    <3>1. pid[p] \in 1..(MAX_PID - 1) /\ 0 < pid[p]
      BY FamilyAssumption DEF NumbersInv
    <3> QED BY <3>1 DEF NumbersInv, ListsInv, Families!find_proc
  <2>2. \A p \in Used : ~ (last_pid < pid[p] /\ pid[p] < next_safe)
    BY FamilyAssumption DEF NumbersInv, ListsInv, Named
  <2> QED BY <2>1, <2>2 DEF Families!PidsUnique, Used, Named
<1> HIDE DEF Inv
<1> QED BY <1>1, <1>2, <1>3, PTL DEF ResourcesSpec

------------------------------------------------------------------------------
(* Relatives *)

Pointers == [Block -> Block \cup {NULL}]
Kin == [parent : Pointers, cptr : Pointers, optr : Pointers, yptr : Pointers]

\* The pointers k make up the lists of children L.  While do_exit gives the children
\* of e away, the first that is left still points to the one before it.
Linked(k, L, e) ==
    /\ k \in Kin /\ L \in [Block -> Seq(Block)]
    /\ \A p \in Block :
          /\ \A i, j \in 1..Len(L[p]) : L[p][i] = L[p][j] => i = j
          /\ k.cptr[p] = IF L[p] = <<>> THEN NULL ELSE L[p][1]
          /\ \A i \in 1..Len(L[p]) :
                /\ k.optr[L[p][i]] = IF i = Len(L[p]) THEN NULL ELSE L[p][i + 1]
                /\ p # e \/ i # 1 => k.yptr[L[p][i]] = IF i = 1 THEN NULL ELSE L[p][i - 1]
          /\ \A c \in Block : k.parent[c] = p <=> \E i \in 1..Len(L[p]) : L[p][i] = c

\* What set_links makes of the pointers.
NewLinks(k, p, c) ==
    [parent |-> [k.parent EXCEPT ![c] = p],
     cptr |-> [k.cptr EXCEPT ![p] = c],
     optr |-> [k.optr EXCEPT ![c] = k.cptr[p]],
     yptr |-> [(IF k.cptr[p] = NULL THEN k.yptr
                ELSE [k.yptr EXCEPT ![k.cptr[p]] = c]) EXCEPT ![c] = NULL]]

LEMMA LinksSet ==
    ASSUME NEW k \in Kin, NEW p, NEW c
    PROVE  Families!set_links(k, p, c) = NewLinks(k, p, c)
<1> DEFINE old == k.cptr[p]
           Y == IF old = NULL THEN k.yptr ELSE [k.yptr EXCEPT ![old] = c]
           s == Families!set_links(k, p, c)
           h == Families!With(k, old, c)
<1>1. h = [parent |-> k.parent, cptr |-> k.cptr, optr |-> k.optr, yptr |-> Y]
  <2>1. k = [parent |-> k.parent, cptr |-> k.cptr, optr |-> k.optr, yptr |-> k.yptr]
    BY DEF Kin
  <2>2. CASE old = NULL
    BY <2>1, <2>2 DEF Families!With
  <2>3. CASE old # NULL
    <3>1. h = [k EXCEPT !.yptr = [k.yptr EXCEPT ![old] = c]]
      BY <2>3 DEF Families!With
    <3> QED BY <2>1, <2>3, <3>1
  <2> QED BY <2>2, <2>3
<1>2. s = [h EXCEPT !.parent[c] = p, !.yptr[c] = NULL, !.optr[c] = old, !.cptr[p] = c]
  BY DEF Families!set_links
<1> HIDE DEF h, s, Y, old
<1>3. s = [parent |-> [k.parent EXCEPT ![c] = p], cptr |-> [k.cptr EXCEPT ![p] = c],
           optr |-> [k.optr EXCEPT ![c] = old], yptr |-> [Y EXCEPT ![c] = NULL]]
  BY <1>1, <1>2, Zenon
<1> QED BY <1>3, Zenon DEF s, Y, old, NewLinks

\* A child that is on no list becomes the youngest of p.
LEMMA LinkAdded ==
    ASSUME NEW k, NEW L, NEW e, Linked(k, L, e),
           NEW p \in Block, p # e, NEW c \in Block, k.parent[c] = NULL
    PROVE  Linked(Families!set_links(k, p, c), [L EXCEPT ![p] = <<c>> \o L[p]], e)
<1> DEFINE old == k.cptr[p]
           l == L[p]
           r == <<c>> \o l
           M == [L EXCEPT ![p] = r]
           s == Families!set_links(k, p, c)
           Y == IF old = NULL THEN k.yptr ELSE [k.yptr EXCEPT ![old] = c]
<1>1. /\ k \in Kin /\ L \in [Block -> Seq(Block)] /\ l \in Seq(Block) /\ Len(l) \in Nat
      /\ NULL \notin Block /\ old \in Block \cup {NULL}
      /\ \A q \in Block : L[q] \in Seq(Block) /\ Len(L[q]) \in Nat
      /\ \A q \in Block, i \in Nat : i \in 1..Len(L[q]) => L[q][i] \in Block
  BY FamilyAssumption, LenProperties, ElementOfSeq DEF Linked, Block, Families!Block, Kin, Pointers
<1>2. s = [parent |-> [k.parent EXCEPT ![c] = p], cptr |-> [k.cptr EXCEPT ![p] = c],
           optr |-> [k.optr EXCEPT ![c] = old], yptr |-> [Y EXCEPT ![c] = NULL]]
  BY <1>1, LinksSet, Zenon DEF NewLinks
<1>3. \A q \in Block, i \in Nat : i \in 1..Len(L[q]) => L[q][i] # c
  <2> SUFFICES ASSUME NEW q \in Block, NEW i \in 1..Len(L[q]), L[q][i] = c PROVE FALSE
    OBVIOUS
  <2>1. k.parent[c] = q
    BY DEF Linked
  <2> QED BY <1>1, <2>1
<1>4. /\ r \in Seq(Block) /\ Len(r) = Len(l) + 1 /\ r[1] = c
      /\ \A i \in 1..Len(l) : r[i + 1] = l[i]
      /\ \A i, j \in DOMAIN r : r[i] = r[j] => i = j
  <2> HIDE DEF s, Y, M, old
  <2>3. DOMAIN l = 1..Len(l)
    BY <1>1, LenProperties
  <2>4. \A i \in 1..Len(l) : l[i] # c
    BY <1>1, <1>3
  <2>5. \A i, j \in 1..Len(l) : l[i] = l[j] => i = j
    BY DEF Linked
  <2> HIDE DEF l
  <2>1. c \notin ToSet(l)
    BY <2>3, <2>4 DEF ToSet
  <2>2. \A i, j \in DOMAIN l : l[i] = l[j] => i = j
    BY <2>3, <2>5
  <2>6. r \in Seq(Block)
    BY <1>1, <2>1, <2>2, JoinsList
  <2>7. \A i, j \in DOMAIN r : r[i] = r[j] => i = j
    BY <1>1, <2>1, <2>2, JoinsList, Zenon
  <2>8. Len(r) = Len(l) + 1
    BY <1>1, <2>1, <2>2, JoinsList
  <2>9. r[1] = c
    BY <1>1, <2>1, <2>2, JoinsList
  <2>10. \A i \in 1..Len(l) : r[i + 1] = l[i]
    BY <1>1, <2>1, <2>2, JoinsList
  <2> QED BY <2>6, <2>7, <2>8, <2>9, <2>10
<1> HIDE DEF r, Y
<1>5. /\ s.parent = [k.parent EXCEPT ![c] = p] /\ s.cptr = [k.cptr EXCEPT ![p] = c]
      /\ s.optr = [k.optr EXCEPT ![c] = old] /\ s.yptr = [Y EXCEPT ![c] = NULL]
  BY <1>2
<1>6. Y \in Pointers /\ \A b \in Block : b # old => Y[b] = k.yptr[b]
                     /\ (old # NULL => Y[old] = c)
  BY <1>1 DEF Y, Kin, Pointers
<1>7. s \in Kin
  BY <1>1, <1>2, <1>6 DEF Kin, Pointers
<1>8. M \in [Block -> Seq(Block)] /\ M[p] = r /\ \A q \in Block : q # p => M[q] = L[q]
  BY <1>1, <1>4
<1>9. old = (IF l = <<>> THEN NULL ELSE l[1]) /\ (l = <<>> <=> Len(l) = 0)
  BY <1>1 DEF Linked
<1> HIDE DEF s, M, old
<1>10. \A b \in Block : /\ b # c => s.parent[b] = k.parent[b] /\ s.optr[b] = k.optr[b]
                        /\ b # c /\ b # old => s.yptr[b] = k.yptr[b]
                        /\ b # p => s.cptr[b] = k.cptr[b]
  BY <1>1, <1>5, <1>6 DEF Kin, Pointers
<1>11. s.parent[c] = p /\ s.optr[c] = old /\ s.yptr[c] = NULL /\ s.cptr[p] = c
  BY <1>1, <1>5, <1>6 DEF Kin, Pointers
<1>12. old # NULL => old # c /\ s.yptr[old] = c
  BY <1>1, <1>3, <1>5, <1>6, <1>9 DEF Pointers
<1>13. ASSUME NEW q \in Block
       PROVE  /\ \A i, j \in 1..Len(M[q]) : M[q][i] = M[q][j] => i = j
              /\ s.cptr[q] = IF M[q] = <<>> THEN NULL ELSE M[q][1]
              /\ \A i \in 1..Len(M[q]) :
                    /\ s.optr[M[q][i]] = IF i = Len(M[q]) THEN NULL ELSE M[q][i + 1]
                    /\ q # e \/ i # 1 => s.yptr[M[q][i]] = IF i = 1 THEN NULL ELSE M[q][i - 1]
              /\ \A b \in Block : s.parent[b] = q <=> \E i \in 1..Len(M[q]) : M[q][i] = b
  <2>1. CASE q = p
    <3>1. M[q] = r /\ Len(r) = Len(l) + 1 /\ r # <<>> /\ DOMAIN r = 1..(Len(l) + 1)
      BY <1>1, <1>4, <1>8, <2>1, LenProperties
    <3>2. \A i \in 1..Len(l) :
             /\ l[i] \in Block /\ l[i] # c
             /\ k.optr[l[i]] = IF i = Len(l) THEN NULL ELSE l[i + 1]
             /\ k.yptr[l[i]] = IF i = 1 THEN NULL ELSE l[i - 1]
      BY <1>1, <1>3 DEF Linked
    <3>3. \A i \in 1..Len(l) : i # 1 => l[i] # old
      BY <1>1, <1>9 DEF Linked
    <3>4. \A b \in Block : k.parent[b] = p <=> \E i \in 1..Len(l) : l[i] = b
      BY DEF Linked
    <3> HIDE DEF l
    <3>5. \A i \in 1..(Len(l) + 1) : i = 1 \/ (i - 1 \in 1..Len(l) /\ r[i] = l[i - 1])
      <4> SUFFICES ASSUME NEW i \in 1..(Len(l) + 1), i # 1
                   PROVE  i - 1 \in 1..Len(l) /\ r[i] = l[i - 1]
        OBVIOUS
      <4>1. i - 1 \in 1..Len(l) /\ (i - 1) + 1 = i
        BY <1>1
      <4>2. r[(i - 1) + 1] = l[i - 1]
        BY <1>4, <4>1
      <4> QED BY <4>1, <4>2
    <3>6. ASSUME NEW i \in 1..(Len(l) + 1)
          PROVE  /\ s.optr[r[i]] = IF i = Len(l) + 1 THEN NULL ELSE r[i + 1]
                 /\ s.yptr[r[i]] = IF i = 1 THEN NULL ELSE r[i - 1]
      <4>1. CASE i = 1
        <5>1. r[i] = c
          BY <1>4, <4>1
        <5>2. old = IF i = Len(l) + 1 THEN NULL ELSE r[i + 1]
          BY <1>1, <1>4, <1>9, <4>1
        <5> QED BY <1>11, <4>1, <5>1, <5>2
      <4>2. CASE i # 1
        <5> DEFINE h == i - 1
        <5>1. h \in 1..Len(l) /\ r[i] = l[h] /\ i = h + 1
          BY <3>5, <4>2, <1>1
        <5> HIDE DEF h
        <5>2. s.optr[l[h]] = IF h = Len(l) THEN NULL ELSE l[h + 1]
          BY <1>10, <3>2, <5>1
        <5>3. h # Len(l) => r[i + 1] = l[h + 1]
          <6> SUFFICES ASSUME h # Len(l) PROVE r[i + 1] = l[h + 1]
            OBVIOUS
          <6>1. h + 1 \in 1..Len(l) /\ i + 1 = (h + 1) + 1
            BY <1>1, <5>1
          <6> QED BY <1>4, <6>1
        <5>4. s.yptr[l[h]] = IF h = 1 THEN c ELSE l[h - 1]
          <6>1. CASE h = 1
            BY <1>1, <1>9, <1>12, <3>2, <5>1, <6>1
          <6>2. CASE h # 1
            BY <1>10, <3>2, <3>3, <5>1, <6>2
          <6> QED BY <6>1, <6>2
        <5>5. r[i - 1] = IF h = 1 THEN c ELSE l[h - 1]
          <6>1. i - 1 = h /\ h \in 1..(Len(l) + 1)
            BY <1>1, <5>1
          <6> QED BY <1>4, <3>5, <6>1
        <5> QED BY <1>1, <4>2, <5>1, <5>2, <5>3, <5>4, <5>5
      <4> QED BY <4>1, <4>2
    <3>7. \A b \in Block : s.parent[b] = p <=> \E i \in 1..(Len(l) + 1) : r[i] = b
      <4>1. \A b : (\E i \in 1..(Len(l) + 1) : r[i] = b) <=> (\E i \in 1..Len(l) : l[i] = b) \/ b = c
        <5>1. 1 \in 1..(Len(l) + 1) /\ \A i \in 1..Len(l) : i + 1 \in 1..(Len(l) + 1)
          BY <1>1
        <5> QED BY <1>4, <3>5, <5>1
      <4> QED BY <1>10, <1>11, <3>4, <4>1, Zenon
    <3>8. s.cptr[q] = r[1]
      BY <1>4, <1>11, <2>1
    <3>9. \A i, j \in 1..(Len(l) + 1) : r[i] = r[j] => i = j
      BY <1>4, <3>1
    <3> HIDE DEF r, M
    <3>10. Len(M[q]) = Len(l) + 1
      BY <3>1
    <3>11. s.cptr[q] = IF M[q] = <<>> THEN NULL ELSE M[q][1]
      BY <3>1, <3>8
    <3>12. \A i, j \in 1..Len(M[q]) : M[q][i] = M[q][j] => i = j
      BY <3>1, <3>9, <3>10
    <3>13. \A i \in 1..Len(M[q]) :
                 /\ s.optr[M[q][i]] = IF i = Len(M[q]) THEN NULL ELSE M[q][i + 1]
                 /\ s.yptr[M[q][i]] = IF i = 1 THEN NULL ELSE M[q][i - 1]
      BY <3>1, <3>6, <3>10
    <3>14. \A b \in Block : s.parent[b] = q <=> \E i \in 1..Len(M[q]) : M[q][i] = b
      BY <2>1, <3>1, <3>7, <3>10
    <3> HIDE DEF s
    <3> QED BY <3>11, <3>12, <3>13, <3>14, Zenon
  <2>2. CASE q # p
    <3>1. M[q] = L[q]
      BY <1>8, <2>2
    <3>2. \A i \in 1..Len(L[q]) : L[q][i] \in Block /\ L[q][i] # c /\ L[q][i] # old
      <4>1. ASSUME NEW i \in 1..Len(L[q]), L[q][i] = old PROVE FALSE
        <5>1. k.parent[old] = q /\ old \in Block
          BY <1>1, <4>1 DEF Linked
        <5>2. 1 \in 1..Len(l) /\ l[1] = old
          BY <1>1, <1>9, <5>1
        <5>3. k.parent[old] = p
          BY <5>1, <5>2 DEF Linked
        <5> QED BY <2>2, <5>1, <5>3
      <4> QED BY <1>1, <1>3, <4>1
    <3>3. /\ \A i, j \in 1..Len(L[q]) : L[q][i] = L[q][j] => i = j
          /\ k.cptr[q] = IF L[q] = <<>> THEN NULL ELSE L[q][1]
          /\ \A i \in 1..Len(L[q]) :
                /\ k.optr[L[q][i]] = IF i = Len(L[q]) THEN NULL ELSE L[q][i + 1]
                /\ q # e \/ i # 1 => k.yptr[L[q][i]] = IF i = 1 THEN NULL ELSE L[q][i - 1]
          /\ \A b \in Block : k.parent[b] = q <=> \E i \in 1..Len(L[q]) : L[q][i] = b
      BY DEF Linked
    <3>4. \A i \in 1..Len(L[q]) :
                s.optr[L[q][i]] = k.optr[L[q][i]] /\ s.yptr[L[q][i]] = k.yptr[L[q][i]]
      BY <1>10, <3>2
    <3>5. s.cptr[q] = k.cptr[q]
      BY <1>10, <2>2
    <3>6. \A b \in Block : s.parent[b] = q <=> k.parent[b] = q
      BY <1>1, <1>10, <1>11, <2>2, Zenon
    <3> QED BY <3>1, <3>3, <3>4, <3>5, <3>6
  <2> QED BY <2>1, <2>2
<1> HIDE DEF l
<1> QED BY <1>7, <1>8, <1>13, Zenon DEF Linked, s, M, r, l

\* The youngest child of e leaves its list; its own pointers are to be set again.
FirstOut(k, L, e) ==
    [k EXCEPT !.cptr = [k.cptr EXCEPT ![e] = k.optr[L[e][1]]],
              !.parent = [k.parent EXCEPT ![L[e][1]] = NULL]]
OthersOf(L, e) == [L EXCEPT ![e] = Tail(L[e])]

LEMMA FirstLeaves ==
    ASSUME NEW k, NEW L, NEW e \in Block, Linked(k, L, e), L[e] # <<>>
    PROVE  /\ k.cptr[e] = L[e][1] /\ L[e][1] \in Block /\ k.cptr[e] # NULL
           /\ Linked(FirstOut(k, L, e), OthersOf(L, e), e)
<1> DEFINE l == L[e]
           c == l[1]
           t == Tail(l)
           M == [L EXCEPT ![e] = t]
           s == [k EXCEPT !.cptr = [k.cptr EXCEPT ![e] = k.optr[c]],
                          !.parent = [k.parent EXCEPT ![c] = NULL]]
<1>1. /\ k \in Kin /\ L \in [Block -> Seq(Block)] /\ l \in Seq(Block) /\ Len(l) \in Nat
      /\ NULL \notin Block
      /\ \A q \in Block : L[q] \in Seq(Block) /\ Len(L[q]) \in Nat
      /\ \A q \in Block, i \in Nat : i \in 1..Len(L[q]) => L[q][i] \in Block
  BY FamilyAssumption, LenProperties, ElementOfSeq DEF Linked, Block, Families!Block
<1>2. l # <<>> /\ Len(l) >= 1 /\ c \in Block /\ k.cptr[e] = c /\ k.parent[c] = e
  <2>1. l # <<>> /\ Len(l) >= 1 /\ 1 \in 1..Len(l)
    BY <1>1
  <2> QED BY <1>1, <2>1, Zenon DEF Linked
<1>3. /\ t \in Seq(Block) /\ Len(t) = Len(l) - 1
      /\ \A i \in 1..(Len(l) - 1) : t[i] = l[i + 1]
  BY <1>1, <1>2
<1>4. M \in [Block -> Seq(Block)] /\ M[e] = t /\ \A q \in Block : q # e => M[q] = L[q]
  BY <1>1, <1>3
<1> HIDE DEF t, M, l
<1>5. s = [parent |-> [k.parent EXCEPT ![c] = NULL], cptr |-> [k.cptr EXCEPT ![e] = k.optr[c]],
           optr |-> k.optr, yptr |-> k.yptr]
  <2> HIDE DEF c
  <2> DEFINE A == [k.cptr EXCEPT ![e] = k.optr[c]]
             B == [k.parent EXCEPT ![c] = NULL]
  <2> HIDE DEF A, B
  <2> DEFINE h == [k EXCEPT !.cptr = A]
  <2>1. k = [parent |-> k.parent, cptr |-> k.cptr, optr |-> k.optr, yptr |-> k.yptr]
    BY <1>1 DEF Kin
  <2>2. h = [parent |-> k.parent, cptr |-> A, optr |-> k.optr, yptr |-> k.yptr]
    BY <2>1
  <2>3. s = [h EXCEPT !.parent = B]
    BY DEF A, B
  <2> HIDE DEF h, s
  <2>4. s = [parent |-> B, cptr |-> A, optr |-> k.optr, yptr |-> k.yptr]
    BY <2>2, <2>3
  <2> QED BY <2>4 DEF A, B
<1> HIDE DEF s, c
<1>6. s \in Kin
  BY <1>1, <1>2, <1>5 DEF Kin, Pointers
<1>7. /\ s.optr = k.optr /\ s.yptr = k.yptr
      /\ s.parent[c] = NULL /\ \A b \in Block : b # c => s.parent[b] = k.parent[b]
      /\ s.cptr[e] = k.optr[c] /\ \A b \in Block : b # e => s.cptr[b] = k.cptr[b]
  BY <1>1, <1>2, <1>5 DEF Kin, Pointers
<1>8. ASSUME NEW q \in Block
      PROVE  /\ \A i, j \in 1..Len(M[q]) : M[q][i] = M[q][j] => i = j
             /\ s.cptr[q] = IF M[q] = <<>> THEN NULL ELSE M[q][1]
             /\ \A i \in 1..Len(M[q]) :
                   /\ s.optr[M[q][i]] = IF i = Len(M[q]) THEN NULL ELSE M[q][i + 1]
                   /\ q # e \/ i # 1 => s.yptr[M[q][i]] = IF i = 1 THEN NULL ELSE M[q][i - 1]
             /\ \A b \in Block : s.parent[b] = q <=> \E i \in 1..Len(M[q]) : M[q][i] = b
  <2>1. CASE q = e
    <3>1. /\ \A i, j \in 1..Len(l) : l[i] = l[j] => i = j
          /\ \A i \in 1..Len(l) :
                /\ k.optr[l[i]] = IF i = Len(l) THEN NULL ELSE l[i + 1]
                /\ i # 1 => k.yptr[l[i]] = IF i = 1 THEN NULL ELSE l[i - 1]
          /\ \A b \in Block : k.parent[b] = e <=> \E i \in 1..Len(l) : l[i] = b
      BY Zenon DEF Linked, l
    <3>2. \A i \in 1..(Len(l) - 1) : i + 1 \in 1..Len(l) /\ i + 1 # 1 /\ (i + 1) - 1 = i
      BY <1>1, <1>2
    <3>3. \A i, j \in 1..(Len(l) - 1) : t[i] = t[j] => i = j
      <4> SUFFICES ASSUME NEW i \in 1..(Len(l) - 1), NEW j \in 1..(Len(l) - 1), t[i] = t[j]
                   PROVE  i = j
        OBVIOUS
      <4>1. i + 1 = j + 1
        BY <1>3, <3>1, <3>2
      <4> QED BY <4>1
    <3>4. s.cptr[e] = IF t = <<>> THEN NULL ELSE t[1]
      <4>1. k.optr[c] = IF 1 = Len(l) THEN NULL ELSE l[2]
        <5>1. 1 \in 1..Len(l) /\ 1 + 1 = 2
          BY <1>1, <1>2
        <5>2. k.optr[l[1]] = IF 1 = Len(l) THEN NULL ELSE l[1 + 1]
          BY <3>1, <5>1, Zenon
        <5> QED BY <5>1, <5>2 DEF c
      <4>2. t = <<>> <=> Len(t) = 0
        BY <1>3
      <4>3. Len(l) # 1 => t[1] = l[2]
        <5> SUFFICES ASSUME Len(l) # 1 PROVE t[1] = l[2]
          OBVIOUS
        <5>1. Len(l) \in Nat \ {0, 1}
          BY <1>1, <1>2
        <5>2. \A n \in Nat \ {0, 1} : 1 \in 1..(n - 1)
          OBVIOUS
        <5>3. 1 \in 1..(Len(l) - 1)
          BY <5>1, <5>2, Zenon
        <5>4. t[1] = l[1 + 1]
          BY <1>3, <5>3, Zenon
        <5>5. 1 + 1 = 2
          OBVIOUS
        <5> QED BY <5>4, <5>5
      <4>4. s.cptr[e] = k.optr[c]
        BY <1>7
      <4>5. Len(t) = 0 <=> Len(l) = 1
        BY <1>1, <1>3
      <4> QED BY <4>1, <4>2, <4>3, <4>4, <4>5
    <3>5. ASSUME NEW i \in 1..(Len(l) - 1)
          PROVE  /\ s.optr[t[i]] = IF i = Len(t) THEN NULL ELSE t[i + 1]
                 /\ i # 1 => s.yptr[t[i]] = t[i - 1]
      <4>1. t[i] = l[i + 1]
        BY <1>3
      <4>2. s.optr[t[i]] = IF i + 1 = Len(l) THEN NULL ELSE l[(i + 1) + 1]
        BY <1>7, <3>1, <3>2, <4>1
      <4>3. i + 1 # Len(l) => t[i + 1] = l[(i + 1) + 1]
        <5> SUFFICES ASSUME i + 1 # Len(l) PROVE t[i + 1] = l[(i + 1) + 1]
          OBVIOUS
        <5>1. i + 1 \in 1..(Len(l) - 1)
          BY <1>1
        <5> QED BY <1>3, <5>1
      <4>4. s.yptr[t[i]] = l[i]
        BY <1>7, <3>1, <3>2, <4>1
      <4>5. i # 1 => t[i - 1] = l[i]
        <5> SUFFICES ASSUME i # 1 PROVE t[i - 1] = l[i]
          OBVIOUS
        <5>1. i - 1 \in 1..(Len(l) - 1) /\ (i - 1) + 1 = i
          BY <1>1
        <5> QED BY <1>3, <5>1
      <4>6. i = Len(t) <=> i + 1 = Len(l)
        BY <1>1, <1>3
      <4> QED BY <4>2, <4>3, <4>4, <4>5, <4>6
    <3>6. \A b \in Block : s.parent[b] = e <=> \E i \in 1..(Len(l) - 1) : t[i] = b
      <4> SUFFICES ASSUME NEW b \in Block
                   PROVE  s.parent[b] = e <=> \E i \in 1..(Len(l) - 1) : t[i] = b
        OBVIOUS
      <4>1. ASSUME NEW i \in 1..(Len(l) - 1), t[i] = b PROVE s.parent[b] = e
        <5>1. i + 1 \in 1..Len(l) /\ l[i + 1] = b /\ i + 1 # 1 /\ 1 \in 1..Len(l)
          <6>1. i + 1 \in 1..Len(l) /\ i + 1 # 1 /\ 1 \in 1..Len(l)
            BY <1>1, <1>2
          <6> QED BY <1>3, <4>1, <6>1
        <5>2. b # c
          BY <3>1, <5>1 DEF c
        <5>3. k.parent[b] = e
          BY <3>1, <5>1
        <5> QED BY <1>7, <5>2, <5>3
      <4>2. ASSUME s.parent[b] = e PROVE \E i \in 1..(Len(l) - 1) : t[i] = b
        <5>1. b # c /\ k.parent[b] = e
          BY <1>1, <1>7, <4>2
        <5>2. PICK j \in 1..Len(l) : l[j] = b
          BY <3>1, <5>1
        <5>3. j - 1 \in 1..(Len(l) - 1) /\ (j - 1) + 1 = j
          <6>1. j # 1
            BY <5>1, <5>2 DEF c
          <6>2. Len(l) \in Nat
            BY <1>1
          <6> QED BY <6>1, <6>2
        <5>4. t[j - 1] = b
          BY <1>3, <5>2, <5>3
        <5> QED BY <5>3, <5>4
      <4> QED BY <4>1, <4>2
    <3>7. M[q] = t /\ Len(M[q]) = Len(l) - 1
      BY <1>3, <1>4, <2>1
    <3>8. s.cptr[q] = IF M[q] = <<>> THEN NULL ELSE M[q][1]
      BY <2>1, <3>4, <3>7
    <3>9. \A i, j \in 1..Len(M[q]) : M[q][i] = M[q][j] => i = j
      BY <3>3, <3>7
    <3>10. \A i \in 1..Len(M[q]) :
              /\ s.optr[M[q][i]] = IF i = Len(M[q]) THEN NULL ELSE M[q][i + 1]
              /\ q # e \/ i # 1 => s.yptr[M[q][i]] = IF i = 1 THEN NULL ELSE M[q][i - 1]
      <4>1. Len(t) = Len(l) - 1
        BY <1>3
      <4> QED BY <2>1, <3>5, <3>7, <4>1
    <3>11. \A b \in Block : s.parent[b] = q <=> \E i \in 1..Len(M[q]) : M[q][i] = b
      BY <2>1, <3>6, <3>7
    <3> QED BY <3>8, <3>9, <3>10, <3>11
  <2>2. CASE q # e
    <3>1. M[q] = L[q] /\ s.cptr[q] = k.cptr[q]
      BY <1>4, <1>7, <2>2
    <3>2. /\ \A i, j \in 1..Len(L[q]) : L[q][i] = L[q][j] => i = j
          /\ k.cptr[q] = IF L[q] = <<>> THEN NULL ELSE L[q][1]
          /\ \A i \in 1..Len(L[q]) :
                /\ k.optr[L[q][i]] = IF i = Len(L[q]) THEN NULL ELSE L[q][i + 1]
                /\ q # e \/ i # 1 => k.yptr[L[q][i]] = IF i = 1 THEN NULL ELSE L[q][i - 1]
          /\ \A b \in Block : k.parent[b] = q <=> \E i \in 1..Len(L[q]) : L[q][i] = b
      BY DEF Linked
    <3>3. \A b \in Block : s.parent[b] = q <=> k.parent[b] = q
      BY <1>1, <1>2, <1>7, <2>2, Zenon
    <3> QED BY <1>7, <3>1, <3>2, <3>3
  <2> QED BY <2>1, <2>2
<1>9. Linked(s, M, e)
  BY <1>4, <1>6, <1>8, Zenon DEF Linked
<1>10. s = FirstOut(k, L, e) /\ M = OthersOf(L, e)
  BY DEF s, M, t, c, l, FirstOut, OthersOf
<1> QED BY <1>1, <1>2, <1>9, <1>10 DEF c, l

AdoptedLists(L, p) == [L EXCEPT ![p] = Tail(L[p]), ![init] = <<L[p][1]>> \o L[init]]

\* Under these lists the youngest child of p has moved to initproc.
ChildMoved(k, L, p) ==
    /\ Linked(Families!Adopt(k, p), AdoptedLists(L, p), p)
    /\ L[p][1] \in Block /\ k.parent[L[p][1]] = p
    /\ Families!Adopt(k, p).parent = [k.parent EXCEPT ![L[p][1]] = init]

\* One round of do_exit moves the youngest child of p to initproc.
LEMMA ChildAdopted ==
    ASSUME NEW k, NEW L, NEW p \in Block, p # init, Linked(k, L, p), L[p] # <<>>
    PROVE  ChildMoved(k, L, p)
<1> DEFINE c == L[p][1]
           M == [L EXCEPT ![p] = Tail(L[p])]
           o == k.optr[c]
           C == [k.cptr EXCEPT ![p] = o]
           g == [k EXCEPT !.cptr = C]
           h == [k EXCEPT !.cptr = C, !.parent = [k.parent EXCEPT ![c] = NULL]]
<1>1. k.cptr[p] = c /\ c \in Block /\ c # NULL /\ Linked(h, M, p)
  <2>1. h = FirstOut(k, L, p) /\ M = OthersOf(L, p)
    BY DEF FirstOut, OthersOf
  <2> HIDE DEF h, M
  <2> QED BY <2>1, FirstLeaves
<1>2. /\ k \in Kin /\ init \in Block /\ M[init] = L[init]
      /\ L \in [Block -> Seq(Block)] /\ k.parent[c] = p
  <2>1. Len(L[p]) >= 1 /\ k \in Kin /\ L \in [Block -> Seq(Block)]
    BY LenProperties DEF Linked
  <2>2. k.parent[c] = p
    <3>1. 1 \in 1..Len(L[p])
      BY <2>1, LenProperties
    <3> QED BY <1>1, <3>1, Zenon DEF Linked
  <2> QED BY <2>1, <2>2 DEF Block, Families!Block
<1>3. Families!Adopt(k, p) = Families!set_links(g, init, c)
  BY <1>1 DEF Families!Adopt
<1>4. g \in Kin /\ h \in Kin /\ g.cptr = h.cptr /\ g.optr = h.optr /\ g.yptr = h.yptr
      /\ g.parent = k.parent /\ h.parent = [k.parent EXCEPT ![c] = NULL]
  <2>1. k.optr[c] \in Block \cup {NULL} /\ C \in Pointers /\ [k.parent EXCEPT ![c] = NULL] \in Pointers
    BY <1>1, <1>2 DEF Kin, Pointers
  <2> HIDE DEF C, o, c
  <2> QED BY <1>2, <2>1, Zenon DEF Kin
<1> HIDE DEF c, M, g, h, C, o
<1>5. [h.parent EXCEPT ![c] = init] = [k.parent EXCEPT ![c] = init]
  BY <1>1, <1>2, <1>4, Zenon DEF Kin, Pointers
<1>6. /\ Families!set_links(g, init, c) = Families!set_links(h, init, c)
      /\ Families!set_links(g, init, c).parent = [k.parent EXCEPT ![c] = init]
  <2>1. /\ Families!set_links(g, init, c) = NewLinks(g, init, c)
        /\ Families!set_links(h, init, c) = NewLinks(h, init, c)
    BY <1>4, LinksSet
  <2>2. NewLinks(g, init, c) = NewLinks(h, init, c)
    BY <1>4, <1>5 DEF NewLinks
  <2>3. NewLinks(g, init, c).parent = [g.parent EXCEPT ![c] = init]
    BY DEF NewLinks
  <2> QED BY <1>4, <2>1, <2>2, <2>3
<1>7. Linked(Families!set_links(h, init, c), [M EXCEPT ![init] = <<c>> \o M[init]], p)
  <2>1. h.parent[c] = NULL
    BY <1>1, <1>2, <1>4 DEF Kin, Pointers
  <2> QED BY <1>1, <1>2, <2>1, LinkAdded, Zenon
<1>8. [M EXCEPT ![init] = <<c>> \o M[init]] = AdoptedLists(L, p)
  BY <1>2, Zenon DEF M, AdoptedLists, c
<1> QED BY <1>1, <1>2, <1>3, <1>6, <1>7, <1>8, Zenon DEF c, ChildMoved

\* The rounds of do_exit so far have made x of the pointers k: m children are left.
Round(k, p, x, m) ==
    /\ x \in Kin /\ m \in Nat
    /\ \E M : Linked(x, M, p) /\ Len(M[p]) = m
    /\ \A c \in Block : \/ x.parent[c] = k.parent[c]
                        \/ k.parent[c] = p /\ x.parent[c] = init

LEMMA RoundGoes ==
    ASSUME NEW k, NEW p \in Block, p # init, NEW x, NEW m, Round(k, p, x, m)
    PROVE  Round(k, p, Families!Adopt(x, p), IF m = 0 THEN 0 ELSE m - 1)
<1> DEFINE y == Families!Adopt(x, p)
<1>1. PICK M : Linked(x, M, p) /\ Len(M[p]) = m
  BY DEF Round
<1>2. /\ M \in [Block -> Seq(Block)] /\ x \in Kin /\ m \in Nat /\ M[p] \in Seq(Block)
      /\ \A c \in Block : \/ x.parent[c] = k.parent[c]
                          \/ k.parent[c] = p /\ x.parent[c] = init
  BY <1>1 DEF Round, Linked
<1>3. x.cptr[p] = IF M[p] = <<>> THEN NULL ELSE M[p][1]
  BY <1>1 DEF Linked
<1>4. CASE M[p] = <<>>
  <2>1. y = x
    BY <1>3, <1>4 DEF Families!Adopt
  <2>2. m = 0
    BY <1>1, <1>4
  <2> QED BY <2>1, <2>2
<1>5. CASE M[p] # <<>>
  <2> DEFINE c == M[p][1]
             N == [M EXCEPT ![p] = Tail(M[p]), ![init] = <<c>> \o M[init]]
  <2>1. /\ Linked(y, N, p) /\ c \in Block /\ x.parent[c] = p
        /\ y.parent = [x.parent EXCEPT ![c] = init]
    <3>1. ChildMoved(x, M, p)
      <4> HIDE DEF N, y, c
      <4>1. Linked(x, M, p)
        BY <1>1
      <4> QED BY <4>1, <1>5, ChildAdopted
    <3> QED BY <3>1 DEF AdoptedLists, ChildMoved
  <2>2. m # 0 /\ Len(N[p]) = m - 1
    <3>1. Len(M[p]) # 0 /\ Len(Tail(M[p])) = Len(M[p]) - 1
      BY <1>2, <1>5
    <3>2. N[p] = Tail(M[p])
      BY <1>2
    <3> HIDE DEF N
    <3> QED BY <1>1, <3>1, <3>2
  <2>3. y \in Kin
    BY <2>1 DEF Linked
  <2> HIDE DEF y, c, N
  <2>4. \A b \in Block : y.parent[b] = IF b = c THEN init ELSE x.parent[b]
    BY <1>2, <2>1 DEF Kin, Pointers
  <2>5. \A b \in Block : \/ y.parent[b] = k.parent[b]
                         \/ k.parent[b] = p /\ y.parent[b] = init
    BY <1>2, <2>1, <2>4
  <2>6. m - 1 \in Nat
    BY <1>2, <2>2
  <2>7. Round(k, p, y, m - 1)
    BY <2>1, <2>2, <2>3, <2>5, <2>6 DEF Round
  <2> QED BY <2>2, <2>7 DEF y
<1> QED BY <1>4, <1>5

\* With as many rounds as it has children, all of them are initproc's.
LEMMA OrphansAdopted ==
    ASSUME NEW k, NEW L, NEW p \in Block, p # init, Linked(k, L, NULL),
           Len(proc_list) \in Nat, Len(L[p]) <= Len(proc_list)
    PROVE  /\ \E M : Linked(Families!Orphaned(k, p), M, NULL)
           /\ \A c \in Block :
                 Families!Orphaned(k, p).parent[c] = IF k.parent[c] = p THEN init ELSE k.parent[c]
<1> DEFINE len == Len(proc_list)
           round == [x \in Kin |-> IF Families!Adopt(x, p) \in Kin THEN Families!Adopt(x, p) ELSE x]
           step == [n \in 1..len |-> round]
           Is(f) == f = [n \in 0..len |-> IF n = 0 THEN k ELSE Families!Adopt(f[n - 1], p)]
           after == CHOOSE f : Is(f)
           first == Len(L[p])
           Left(n) == IF n <= first THEN first - n ELSE 0
<1>1. /\ first \in Nat /\ k \in Kin /\ NULL \notin Block /\ init \in Block /\ first <= len
  BY FamilyAssumption, LenProperties DEF Linked, Block, Families!Block
<1>2. Round(k, p, k, Left(0))
  <2>1. Linked(k, L, p)
    BY <1>1 DEF Linked
  <2>2. Left(0) = Len(L[p])
    BY <1>1
  <2> HIDE DEF Left, first
  <2> QED BY <1>1, <2>1, <2>2 DEF Round, first
<1>3. ASSUME NEW x, NEW n \in Nat, Round(k, p, x, Left(n))
      PROVE  Families!Adopt(x, p) \in Kin /\ Round(k, p, Families!Adopt(x, p), Left(n + 1))
  <2>1. Left(n + 1) = IF Left(n) = 0 THEN 0 ELSE Left(n) - 1
    BY <1>1
  <2> HIDE DEF Left
  <2>2. Round(k, p, Families!Adopt(x, p), Left(n + 1))
    BY <1>3, <2>1, RoundGoes
  <2> QED BY <2>2 DEF Round
<1> HIDE DEF first
<1>4. PICK f : Repeats(f, Kin, k, step, len)
  <2>1. step \in [1..len -> [Kin -> Kin]] /\ len \in Nat
    OBVIOUS
  <2> HIDE DEF step, round, len, Is, after, Left
  <2> QED BY <1>1, <2>1, Repeated, Zenon
<1> HIDE DEF Left
<1> USE DEF Repeats
<1>5. \A n \in 0..len : Round(k, p, f[n], Left(n))
  <2> DEFINE S == {n \in Nat : n <= len => Round(k, p, f[n], Left(n))}
  <2>1. 0 \in S
    <3>1. 0 \in 0..len
      OBVIOUS
    <3>2. f[0] = k
      BY <1>4, <3>1, Zenon
    <3> QED BY <1>2, <3>2
  <2>2. ASSUME NEW n \in Nat, n \in S PROVE n + 1 \in S
    <3> SUFFICES ASSUME n + 1 <= len PROVE Round(k, p, f[n + 1], Left(n + 1))
      OBVIOUS
    <3>1. n \in 0..len /\ n + 1 \in 0..len /\ n + 1 # 0 /\ (n + 1) - 1 = n
      OBVIOUS
    <3>2. Round(k, p, f[n], Left(n))
      BY <2>2, <3>1
    <3>3. f[n + 1] = round[f[n]] /\ f[n] \in Kin
      <4>1. f[n + 1] = step[n + 1][f[n]] /\ f[n] \in Kin /\ n + 1 \in 1..len
        <5> HIDE DEF step, round
        <5> QED BY <1>4, <3>1
      <4> QED BY <4>1
    <3>4. Families!Adopt(f[n], p) \in Kin /\ Round(k, p, Families!Adopt(f[n], p), Left(n + 1))
      BY <1>3, <3>2
    <3>5. f[n + 1] = Families!Adopt(f[n], p)
      BY <3>3, <3>4
    <3> QED BY <3>4, <3>5
  <2> HIDE DEF S
  <2>3. Nat \subseteq S
    BY <2>1, <2>2, SetInduction, Zenon
  <2> QED BY <2>3 DEF S
<1>6. Is(f)
  <2>1. ASSUME NEW n \in 0..len PROVE f[n] = IF n = 0 THEN k ELSE Families!Adopt(f[n - 1], p)
    <3>1. CASE n = 0
      BY <1>4, <3>1, Zenon
    <3>2. CASE n # 0
      <4>1. n - 1 \in 0..len /\ n - 1 \in Nat /\ f[n - 1] \in Kin
        BY <1>4, <3>2
      <4>2. Families!Adopt(f[n - 1], p) \in Kin
        BY <1>3, <1>5, <4>1, Zenon
      <4>3. f[n] = round[f[n - 1]]
        <5>1. f[n] = step[n][f[n - 1]] /\ n \in 1..len
          <6> HIDE DEF step, round
          <6> QED BY <1>4, <3>2
        <5> QED BY <5>1
      <4> QED BY <3>2, <4>1, <4>2, <4>3
    <3> QED BY <3>1, <3>2
  <2> QED BY <1>4, <2>1
<1>7. ASSUME NEW g, Is(g) PROVE g = f
  <2> DEFINE S == {n \in Nat : n <= len => g[n] = f[n]}
  <2>1. 0 \in S
    BY <1>6, <1>7
  <2>2. ASSUME NEW n \in Nat, n \in S PROVE n + 1 \in S
    <3> SUFFICES ASSUME n + 1 <= len PROVE g[n + 1] = f[n + 1]
      OBVIOUS
    <3>1. n \in 0..len /\ n + 1 \in 0..len /\ n + 1 # 0 /\ (n + 1) - 1 = n
      OBVIOUS
    <3>2. g[n] = f[n]
      BY <2>2, <3>1
    <3> QED BY <1>6, <1>7, <3>1, <3>2
  <2> HIDE DEF S
  <2>3. Nat \subseteq S
    BY <2>1, <2>2, SetInduction, Zenon
  <2>4. \A n \in 0..len : g[n] = f[n]
    BY <2>3 DEF S
  <2> QED BY <1>6, <1>7, <2>4
<1>8. after = f
  <2> HIDE DEF Is
  <2> QED BY <1>6, <1>7
<1>9. Families!Orphaned(k, p) = f[len]
  BY <1>8, Zenon DEF Families!Orphaned
<1> DEFINE x == f[len]
<1>10. Round(k, p, x, Left(len)) /\ Left(len) = 0
  BY <1>1, <1>5 DEF Left
<1> HIDE DEF x
<1>11. PICK M : Linked(x, M, p) /\ Len(M[p]) = 0
  BY <1>10 DEF Round
<1>12. Linked(x, M, NULL)
  <2>1. ASSUME NEW q \in Block, NEW i \in 1..Len(M[q])
        PROVE  x.yptr[M[q][i]] = IF i = 1 THEN NULL ELSE M[q][i - 1]
    <3>1. q # p
      BY <1>11
    <3> QED BY <1>11, <3>1 DEF Linked
  <2> QED BY <1>11, <2>1 DEF Linked
<1>13. ASSUME NEW c \in Block PROVE x.parent[c] = IF k.parent[c] = p THEN init ELSE k.parent[c]
  <2>1. x.parent[c] # p
    BY <1>11 DEF Linked
  <2> QED BY <1>10, <2>1 DEF Round
<1> QED BY <1>9, <1>12, <1>13 DEF x

\* What do_wait makes of the pointers: remove_links, and the block is cleared.
Cleared(k, c) ==
    [Families!remove_links(k, c) EXCEPT !.parent[c] = NULL, !.cptr[c] = NULL,
                                        !.optr[c] = NULL, !.yptr[c] = NULL]

LEMMA LinksCleared ==
    ASSUME NEW k \in Kin, NEW c \in Block, k.parent[c] \in Block, NULL \notin Block
    PROVE  /\ Cleared(k, c) \in Kin
           /\ Cleared(k, c).parent = [k.parent EXCEPT ![c] = NULL]
           /\ \A b \in Block :
                 /\ Cleared(k, c).cptr[b] =
                       IF b = c THEN NULL
                       ELSE IF k.yptr[c] = NULL /\ b = k.parent[c] THEN k.optr[c] ELSE k.cptr[b]
                 /\ Cleared(k, c).optr[b] =
                       IF b = c THEN NULL ELSE IF b = k.yptr[c] THEN k.optr[c] ELSE k.optr[b]
                 /\ Cleared(k, c).yptr[b] =
                       IF b = c THEN NULL ELSE IF b = k.optr[c] THEN k.yptr[c] ELSE k.yptr[b]
<1> DEFINE o == k.optr[c]
           y == k.yptr[c]
           p == k.parent[c]
           Y == IF o = NULL THEN k.yptr ELSE [k.yptr EXCEPT ![o] = y]
           O == IF y = NULL THEN k.optr ELSE [k.optr EXCEPT ![y] = o]
           C == IF y = NULL THEN [k.cptr EXCEPT ![p] = o] ELSE k.cptr
           h == Families!With(k, o, y)
           r == Families!remove_links(k, c)
           s == Cleared(k, c)
<1>1. /\ o \in Block \cup {NULL} /\ y \in Block \cup {NULL}
      /\ k = [parent |-> k.parent, cptr |-> k.cptr, optr |-> k.optr, yptr |-> k.yptr]
      /\ k.parent \in Pointers /\ k.cptr \in Pointers /\ k.optr \in Pointers /\ k.yptr \in Pointers
  BY DEF Kin, Pointers
<1>2. h = [parent |-> k.parent, cptr |-> k.cptr, optr |-> k.optr, yptr |-> Y]
  BY <1>1 DEF Families!With
<1>3. r = IF y # NULL THEN [h EXCEPT !.optr[y] = o] ELSE [h EXCEPT !.cptr[p] = o]
  BY DEF Families!remove_links
<1>4. /\ Y \in Pointers /\ O \in Pointers /\ C \in Pointers
      /\ \A b \in Block : /\ Y[b] = IF b = o THEN y ELSE k.yptr[b]
                          /\ O[b] = IF b = y THEN o ELSE k.optr[b]
                          /\ C[b] = IF y = NULL /\ b = p THEN o ELSE k.cptr[b]
  BY <1>1 DEF Pointers
<1> HIDE DEF h, r
<1>5. r = [parent |-> k.parent, cptr |-> C, optr |-> O, yptr |-> Y]
  <2>1. CASE y # NULL
    <3> HIDE DEF Y, o, y
    <3> QED BY <1>2, <1>3, <2>1
  <2>2. CASE y = NULL
    <3> HIDE DEF Y, o, y
    <3> QED BY <1>2, <1>3, <2>2
  <2> QED BY <2>1, <2>2
<1> HIDE DEF o, y, p, Y, O, C
<1> DEFINE parents == [k.parent EXCEPT ![c] = NULL]
           C2 == [C EXCEPT ![c] = NULL]
           O2 == [O EXCEPT ![c] = NULL]
           Y2 == [Y EXCEPT ![c] = NULL]
<1>6. s = [parent |-> parents, cptr |-> C2, optr |-> O2, yptr |-> Y2]
  <2>1. s = [r EXCEPT !.parent[c] = NULL, !.cptr[c] = NULL, !.optr[c] = NULL, !.yptr[c] = NULL]
    BY DEF Cleared, r
  <2> QED BY <1>5, <2>1, Zenon
<1> HIDE DEF s
<1>7. /\ parents \in Pointers /\ C2 \in Pointers /\ O2 \in Pointers /\ Y2 \in Pointers
      /\ \A b \in Block : /\ Y2[b] = IF b = c THEN NULL ELSE Y[b]
                          /\ O2[b] = IF b = c THEN NULL ELSE O[b]
                          /\ C2[b] = IF b = c THEN NULL ELSE C[b]
  BY <1>1, <1>4 DEF Pointers
<1>8. s.parent = parents /\ s.cptr = C2 /\ s.optr = O2 /\ s.yptr = Y2
  BY <1>6
<1>9. s \in Kin
  <2> HIDE DEF parents, C2, O2, Y2
  <2> QED BY <1>6, <1>7 DEF Kin
<1>10. ASSUME NEW b \in Block
       PROVE  /\ s.cptr[b] = IF b = c THEN NULL ELSE IF y = NULL /\ b = p THEN o ELSE k.cptr[b]
              /\ s.optr[b] = IF b = c THEN NULL ELSE IF b = y THEN o ELSE k.optr[b]
              /\ s.yptr[b] = IF b = c THEN NULL ELSE IF b = o THEN y ELSE k.yptr[b]
  <2> HIDE DEF parents, C2, O2, Y2
  <2> QED BY <1>4, <1>7, <1>8
<1> QED BY <1>8, <1>9, <1>10 DEF s, parents, o, y, p

\* A zombie, which has no children, leaves the list of its parent.
LEMMA ChildRemoved ==
    ASSUME NEW k, NEW L, NEW c \in Block, Linked(k, L, NULL), L[c] = <<>>,
           k.parent[c] \in Block
    PROVE  /\ \E M : Linked(Cleared(k, c), M, NULL)
           /\ Cleared(k, c).parent = [k.parent EXCEPT ![c] = NULL]
<1> DEFINE p == k.parent[c]
           l == L[p]
           n == Len(l)
           o == k.optr[c]
           y == k.yptr[c]
           s == Cleared(k, c)
<1>1. /\ k \in Kin /\ L \in [Block -> Seq(Block)] /\ NULL \notin Block
      /\ p \in Block /\ l \in Seq(Block) /\ n \in Nat /\ DOMAIN l = 1..n
      /\ \A i \in 1..n : l[i] \in Block
  <2>1. k \in Kin /\ L \in [Block -> Seq(Block)] /\ NULL \notin Block /\ p \in Block
    BY FamilyAssumption DEF Linked, Block, Families!Block
  <2>2. l \in Seq(Block)
    BY <2>1
  <2>3. n \in Nat /\ DOMAIN l = 1..n /\ \A i \in 1..n : l[i] \in Block
    BY <2>2, LenProperties, ElementOfSeq
  <2> QED BY <2>1, <2>2, <2>3
<1>2. /\ s \in Kin /\ s.parent = [k.parent EXCEPT ![c] = NULL]
      /\ \A b \in Block :
            /\ s.cptr[b] = IF b = c THEN NULL ELSE IF y = NULL /\ b = p THEN o ELSE k.cptr[b]
            /\ s.optr[b] = IF b = c THEN NULL ELSE IF b = y THEN o ELSE k.optr[b]
            /\ s.yptr[b] = IF b = c THEN NULL ELSE IF b = o THEN y ELSE k.yptr[b]
  BY <1>1, LinksCleared
<1> HIDE DEF s
<1>3. /\ \A i, j \in 1..n : l[i] = l[j] => i = j
      /\ k.cptr[p] = IF l = <<>> THEN NULL ELSE l[1]
      /\ \A i \in 1..n :
            /\ k.optr[l[i]] = IF i = n THEN NULL ELSE l[i + 1]
            /\ k.yptr[l[i]] = IF i = 1 THEN NULL ELSE l[i - 1]
      /\ \A b \in Block : k.parent[b] = p <=> \E i \in 1..n : l[i] = b
  <2>1. ASSUME NEW q \in Block
        PROVE  /\ \A i, j \in 1..Len(L[q]) : L[q][i] = L[q][j] => i = j
               /\ k.cptr[q] = IF L[q] = <<>> THEN NULL ELSE L[q][1]
               /\ \A i \in 1..Len(L[q]) :
                     /\ k.optr[L[q][i]] = IF i = Len(L[q]) THEN NULL ELSE L[q][i + 1]
                     /\ k.yptr[L[q][i]] = IF i = 1 THEN NULL ELSE L[q][i - 1]
               /\ \A b \in Block : k.parent[b] = q <=> \E i \in 1..Len(L[q]) : L[q][i] = b
    BY <1>1, Zenon DEF Linked
  <2> HIDE DEF p
  <2> QED BY <1>1, <2>1, Zenon
<1>4. PICK i \in 1..n : l[i] = c
  BY <1>3
<1>5. /\ o = IF i = n THEN NULL ELSE l[i + 1]
      /\ y = IF i = 1 THEN NULL ELSE l[i - 1]
  BY <1>3, <1>4
<1> DEFINE r == TakenOut(l, i)
           M == [L EXCEPT ![p] = r]
<1>6. /\ r \in Seq(Block) /\ Len(r) = n - 1
      /\ \A j \in 1..(n - 1) : r[j] = IF j < i THEN l[j] ELSE l[j + 1]
  BY <1>1, TakenOutProperties, Zenon
<1>7. /\ \A j, m \in 1..(n - 1) : r[j] = r[m] => j = m
      /\ \A b : (\E j \in 1..(n - 1) : r[j] = b) <=> (\E j \in 1..n : l[j] = b) /\ b # c
  <2>1. DOMAIN r = 1..(n - 1)
    BY <1>6, LenProperties
  <2>2. /\ l \in Seq(Block) /\ i \in 1..Len(l)
        /\ \A j, m \in DOMAIN l : l[j] = l[m] => j = m
    BY <1>1, <1>3, Zenon
  <2> HIDE DEF l, n
  <2>3. \A j, m \in DOMAIN r : r[j] = r[m] => j = m
    BY <2>2, OthersStay
  <2>4. \A b : (\E j \in DOMAIN r : r[j] = b) <=> (\E j \in DOMAIN l : l[j] = b) /\ b # l[i]
    BY <2>2, OthersStay, Zenon
  <2> HIDE DEF r
  <2> QED BY <1>1, <1>4, <2>1, <2>3, <2>4, Zenon
<1>8. M \in [Block -> Seq(Block)] /\ M[p] = r /\ \A q \in Block : q # p => M[q] = L[q]
  BY <1>1, <1>6
<1> HIDE DEF M, r, l, n, o, y, p
<1>9. p # c /\ n # 0
  <2>1. n # 0
    BY <1>1, <1>4
  <2>2. p # c
    BY <1>1, <2>1 DEF l, n
  <2> QED BY <2>1, <2>2
<1>16. /\ n \in Nat /\ i \in 1..n /\ n # 0
       /\ \A j \in 1..n : l[j] \in Block /\ l[j] # NULL /\ (l[j] = c <=> j = i)
  BY <1>1, <1>3, <1>4, <1>9
<1>10. s.cptr[p] = IF r = <<>> THEN NULL ELSE r[1]
  <2>1. r = <<>> <=> n = 1
    BY <1>1, <1>6
  <2>2. s.cptr[p] = IF y = NULL THEN o ELSE l[1]
    <3>1. l # <<>>
      BY <1>1, <1>9
    <3> QED BY <1>1, <1>2, <1>3, <1>9, <3>1
  <2>3. CASE i = 1
    <3>1. n # 1 => r[1] = l[2] /\ o = l[2]
      BY <1>1, <1>5, <1>6, <1>9, <2>3
    <3> QED BY <1>5, <2>1, <2>2, <2>3, <3>1
  <2>4. CASE i # 1
    <3>1. i - 1 \in 1..n /\ 1 \in 1..(n - 1) /\ 1 < i /\ n # 1
      BY <1>1, <2>4
    <3>2. r[1] = l[1] /\ y # NULL
      BY <1>1, <1>5, <1>6, <2>4, <3>1
    <3> QED BY <2>1, <2>2, <3>1, <3>2
  <2> QED BY <2>3, <2>4
<1>11. ASSUME NEW j \in 1..(n - 1)
       PROVE  s.optr[r[j]] = IF j = n - 1 THEN NULL ELSE r[j + 1]
  <2>1. CASE j < i
    <3>1. r[j] = l[j] /\ j \in 1..n /\ l[j] # c /\ l[j] \in Block
      BY <1>6, <1>16, <2>1
    <3>2. CASE j = i - 1
      <4>1. l[j] = y /\ (j = n - 1 <=> i = n) /\ j + 1 = i
        BY <1>16, <1>5, <2>1, <3>2
      <4>2. s.optr[r[j]] = o
        BY <1>2, <3>1, <4>1
      <4>3. j # n - 1 => r[j + 1] = l[i + 1]
        BY <1>16, <1>6, <4>1
      <4> QED BY <1>5, <4>1, <4>2, <4>3
    <3>3. CASE j # i - 1
      <4>1. j + 1 < i /\ j # n - 1 /\ j # n /\ j + 1 \in 1..(n - 1) /\ i # 1 /\ i - 1 \in 1..n
        BY <1>16, <2>1, <3>3
      <4>2. l[j] # y
        BY <1>3, <1>5, <3>1, <3>3, <4>1
      <4>3. s.optr[r[j]] = l[j + 1]
        BY <1>2, <1>3, <3>1, <4>1, <4>2
      <4>4. r[j + 1] = l[j + 1]
        BY <1>6, <4>1
      <4> QED BY <4>1, <4>3, <4>4
    <3> QED BY <3>2, <3>3
  <2>2. CASE ~ (j < i)
    <3>1. r[j] = l[j + 1] /\ j + 1 \in 1..n /\ j + 1 # i /\ (i # 1 => i - 1 \in 1..n /\ i - 1 # j + 1)
      BY <1>16, <1>6, <2>2
    <3>2. l[j + 1] # c /\ l[j + 1] \in Block
      BY <1>16, <3>1
    <3>3. l[j + 1] # y
      BY <1>16, <1>3, <1>5, <3>1, <3>2
    <3>4. s.optr[r[j]] = IF j + 1 = n THEN NULL ELSE l[(j + 1) + 1]
      BY <1>2, <1>3, <3>1, <3>2, <3>3
    <3>5. j # n - 1 => r[j + 1] = l[(j + 1) + 1]
      <4> SUFFICES ASSUME j # n - 1 PROVE r[j + 1] = l[(j + 1) + 1]
        OBVIOUS
      <4>1. j + 1 \in 1..(n - 1) /\ ~ (j + 1 < i)
        BY <1>16, <2>2
      <4> QED BY <1>6, <4>1, Zenon
    <3> QED BY <1>16, <3>4, <3>5
  <2> QED BY <2>1, <2>2
<1>12. ASSUME NEW j \in 1..(n - 1)
       PROVE  s.yptr[r[j]] = IF j = 1 THEN NULL ELSE r[j - 1]
  <2>1. CASE j < i
    <3>1. r[j] = l[j] /\ j \in 1..n /\ l[j] # c /\ l[j] \in Block /\ j # i + 1
      BY <1>6, <1>16, <2>1
    <3>2. i # n => i + 1 \in 1..n
      BY <1>16
    <3>3. l[j] # o
      BY <1>16, <1>3, <1>5, <3>1, <3>2
    <3>4. s.yptr[r[j]] = IF j = 1 THEN NULL ELSE l[j - 1]
      BY <1>2, <1>3, <3>1, <3>3
    <3>5. j # 1 => r[j - 1] = l[j - 1]
      <4> SUFFICES ASSUME j # 1 PROVE r[j - 1] = l[j - 1]
        OBVIOUS
      <4>1. j - 1 \in 1..(n - 1) /\ j - 1 < i
        BY <1>16, <2>1
      <4> QED BY <1>6, <4>1
    <3> QED BY <3>4, <3>5
  <2>2. CASE ~ (j < i)
    <3>1. r[j] = l[j + 1] /\ j + 1 \in 1..n /\ j + 1 # i
      BY <1>16, <1>6, <2>2
    <3>2. l[j + 1] # c /\ l[j + 1] \in Block
      BY <1>16, <3>1
    <3>3. CASE j = i
      <4>1. l[j + 1] = o
        BY <1>16, <1>5, <3>1, <3>3
      <4>2. s.yptr[r[j]] = y
        BY <1>2, <3>1, <3>2, <4>1
      <4>3. j # 1 => r[j - 1] = l[i - 1]
        <5> SUFFICES ASSUME j # 1 PROVE r[j - 1] = l[i - 1]
          OBVIOUS
        <5>1. j - 1 \in 1..(n - 1) /\ j - 1 < i
          BY <1>16, <3>3
        <5> QED BY <1>6, <3>3, <5>1
      <4> QED BY <1>5, <3>3, <4>2, <4>3
    <3>4. CASE j # i
      <4>1. /\ j + 1 # i + 1 /\ (i # n => i + 1 \in 1..n) /\ j + 1 # 1 /\ j # 1 /\ (j + 1) - 1 = j
            /\ j - 1 \in 1..(n - 1) /\ ~ (j - 1 < i) /\ (j - 1) + 1 = j
        BY <1>16, <2>2, <3>4
      <4>2. l[j + 1] # o
        BY <1>16, <1>3, <1>5, <3>1, <3>2, <4>1
      <4>3. s.yptr[r[j]] = l[j]
        BY <1>2, <1>3, <3>1, <3>2, <4>1, <4>2
      <4>4. r[j - 1] = l[j]
        BY <1>6, <4>1, Zenon
      <4> QED BY <4>1, <4>3, <4>4
    <3> QED BY <3>3, <3>4
  <2> QED BY <2>1, <2>2
<1>13. \A b \in Block : s.parent[b] = IF b = c THEN NULL ELSE k.parent[b]
  BY <1>1, <1>2 DEF Kin, Pointers
<1>14. ASSUME NEW q \in Block
       PROVE  /\ \A j, m \in 1..Len(M[q]) : M[q][j] = M[q][m] => j = m
              /\ s.cptr[q] = IF M[q] = <<>> THEN NULL ELSE M[q][1]
              /\ \A j \in 1..Len(M[q]) :
                    /\ s.optr[M[q][j]] = IF j = Len(M[q]) THEN NULL ELSE M[q][j + 1]
                    /\ s.yptr[M[q][j]] = IF j = 1 THEN NULL ELSE M[q][j - 1]
              /\ \A b \in Block : s.parent[b] = q <=> \E j \in 1..Len(M[q]) : M[q][j] = b
  <2>1. CASE q = p
    <3>1. \A b \in Block : s.parent[b] = p <=> \E j \in 1..(n - 1) : r[j] = b
      <4>1. \A b \in Block : s.parent[b] = p <=> k.parent[b] = p /\ b # c
        BY <1>1, <1>13, Zenon
      <4> QED BY <1>3, <1>7, <4>1, Zenon
    <3>2. M[q] = r /\ Len(M[q]) = n - 1
      BY <1>6, <1>8, <2>1
    <3> QED BY <1>7, <1>10, <1>11, <1>12, <2>1, <3>1, <3>2
  <2>2. CASE q # p
    <3>1. M[q] = L[q]
      BY <1>8, <2>2
    <3>2. /\ \A j, m \in 1..Len(L[q]) : L[q][j] = L[q][m] => j = m
          /\ k.cptr[q] = IF L[q] = <<>> THEN NULL ELSE L[q][1]
          /\ \A j \in 1..Len(L[q]) :
                /\ k.optr[L[q][j]] = IF j = Len(L[q]) THEN NULL ELSE L[q][j + 1]
                /\ k.yptr[L[q][j]] = IF j = 1 THEN NULL ELSE L[q][j - 1]
          /\ \A b \in Block : k.parent[b] = q <=> \E j \in 1..Len(L[q]) : L[q][j] = b
      BY <1>1, Zenon DEF Linked
    <3>3. s.cptr[q] = IF L[q] = <<>> THEN NULL ELSE L[q][1]
      <4>1. CASE q = c
        BY <1>1, <1>2, <4>1
      <4>2. CASE q # c
        BY <1>1, <1>2, <2>2, <3>2, <4>2
      <4> QED BY <4>1, <4>2
    <3>4. ASSUME NEW j \in 1..Len(L[q])
          PROVE  s.optr[L[q][j]] = k.optr[L[q][j]] /\ s.yptr[L[q][j]] = k.yptr[L[q][j]]
      <4>1. L[q][j] \in Block /\ k.parent[L[q][j]] = q
        <5>1. L[q] \in Seq(Block)
          BY <1>1
        <5>2. L[q][j] \in Block
          BY <5>1, ElementOfSeq
        <5> QED BY <3>2, <5>2
      <4>2. L[q][j] # c
        BY <2>2, <4>1 DEF p
      <4>3. y \in Block => k.parent[y] = p
        <5> SUFFICES ASSUME y \in Block PROVE k.parent[y] = p
          OBVIOUS
        <5>1. i # 1 /\ i - 1 \in 1..n /\ y = l[i - 1]
          BY <1>1, <1>5
        <5> QED BY <1>3, <5>1
      <4>4. o \in Block => k.parent[o] = p
        <5> SUFFICES ASSUME o \in Block PROVE k.parent[o] = p
          OBVIOUS
        <5>1. i # n /\ i + 1 \in 1..n /\ o = l[i + 1]
          BY <1>1, <1>5
        <5> QED BY <1>3, <5>1
      <4> QED BY <1>2, <2>2, <4>1, <4>2, <4>3, <4>4
    <3>5. \A b \in Block : s.parent[b] = q <=> \E j \in 1..Len(L[q]) : L[q][j] = b
      <4>1. k.parent[c] # q /\ NULL # q
        BY <1>1, <2>2 DEF p
      <4>2. \A b \in Block : s.parent[b] = q <=> k.parent[b] = q
        BY <1>13, <4>1
      <4> QED BY <3>2, <4>2
    <3>6. \A j \in 1..Len(L[q]) :
                /\ s.optr[L[q][j]] = IF j = Len(L[q]) THEN NULL ELSE L[q][j + 1]
                /\ s.yptr[L[q][j]] = IF j = 1 THEN NULL ELSE L[q][j - 1]
      BY <3>2, <3>4
    <3>7. \A j, m \in 1..Len(L[q]) : L[q][j] = L[q][m] => j = m
      BY <3>2
    <3> HIDE DEF s, M
    <3>8. s.cptr[q] = IF M[q] = <<>> THEN NULL ELSE M[q][1]
      BY <3>1, <3>3
    <3>9. \A j, m \in 1..Len(M[q]) : M[q][j] = M[q][m] => j = m
      BY <3>1, <3>7
    <3>10. \A j \in 1..Len(M[q]) :
                /\ s.optr[M[q][j]] = IF j = Len(M[q]) THEN NULL ELSE M[q][j + 1]
                /\ s.yptr[M[q][j]] = IF j = 1 THEN NULL ELSE M[q][j - 1]
      BY <3>1, <3>6
    <3>11. \A b \in Block : s.parent[b] = q <=> \E j \in 1..Len(M[q]) : M[q][j] = b
      BY <3>1, <3>5
    <3> QED BY <3>8, <3>9, <3>10, <3>11, Zenon
  <2> QED BY <2>1, <2>2
<1>15. Linked(s, M, NULL)
  <2>1. s \in Kin /\ M \in [Block -> Seq(Block)]
    BY <1>2, <1>8
  <2> HIDE DEF s, M
  <2>2. ASSUME NEW q \in Block
        PROVE  \A j \in 1..Len(M[q]) :
                  /\ s.optr[M[q][j]] = IF j = Len(M[q]) THEN NULL ELSE M[q][j + 1]
                  /\ q # NULL \/ j # 1 => s.yptr[M[q][j]] = IF j = 1 THEN NULL ELSE M[q][j - 1]
    BY <1>14
  <2>3. ASSUME NEW q \in Block
        PROVE  /\ \A j, m \in 1..Len(M[q]) : M[q][j] = M[q][m] => j = m
               /\ s.cptr[q] = IF M[q] = <<>> THEN NULL ELSE M[q][1]
               /\ \A b \in Block : s.parent[b] = q <=> \E j \in 1..Len(M[q]) : M[q][j] = b
    BY <1>14
  <2> QED BY <2>1, <2>2, <2>3, Zenon DEF Linked
<1> QED BY <1>2, <1>15 DEF s

\* There are not more children than processes: each is in proc_list.
LEMMA ChildrenCounted ==
    ASSUME ListsInv, NEW k, NEW L, Linked(k, L, NULL), NEW p \in Block,
           \A c \in Block : k.parent[c] = p => c \in Named
    PROVE  Len(L[p]) \in Nat /\ Len(proc_list) \in Nat /\ Len(L[p]) <= Len(proc_list)
<1> DEFINE l == L[p]
           T == 1..Len(proc_list)
           f == [i \in 1..Len(l) |-> CHOOSE j \in T : proc_list[j] = l[i]]
<1>1. /\ l \in Seq(Block) /\ Len(l) \in Nat /\ Len(proc_list) \in Nat
      /\ \A i \in 1..Len(l) : l[i] \in Block
      /\ ToSet(proc_list) = Named /\ DOMAIN proc_list = T
  BY LenProperties, ElementOfSeq DEF Linked, ListsInv
<1>2. /\ \A i, j \in 1..Len(l) : l[i] = l[j] => i = j
      /\ \A i \in 1..Len(l) : l[i] \in Named
  BY <1>1 DEF Linked
<1> HIDE DEF l, T
<1>3. \A i \in 1..Len(l) : \E j \in T : proc_list[j] = l[i]
  BY <1>1, <1>2 DEF ToSet
<1>4. f \in [1..Len(l) -> T] /\ \A i \in 1..Len(l) : proc_list[f[i]] = l[i]
  BY <1>3
<1> HIDE DEF f
<1> SUFFICES ASSUME Len(proc_list) < Len(l) PROVE FALSE
  BY <1>1 DEF l
<1>5. \E i, j \in 1..Len(l) : i # j /\ f[i] = f[j]
  BY <1>1, <1>4, TooMany, Zenon DEF T
<1> QED BY <1>2, <1>4, <1>5

\* do_wait goes through all the children of p.
LEMMA ChildrenListed ==
    ASSUME NEW k, NEW L, Linked(k, L, NULL), NEW p \in Block,
           Len(proc_list) \in Nat, Len(L[p]) <= Len(proc_list)
    PROVE  Families!Children(k, p) = L[p]
<1> DEFINE N == Len(proc_list)
           l == L[p]
           m == Len(l)
           A(h) == SubSeq(l, 1, h)
           Step(s) == IF Families!Next(k, p, s) = NULL THEN s
                      ELSE Append(s, Families!Next(k, p, s))
           Is(f) == f = [n \in 0..N |-> IF n = 0 THEN <<>> ELSE Step(f[n - 1])]
           Cut(n) == IF n <= m THEN n ELSE m
           g == [n \in 0..N |-> A(Cut(n))]
<1>1. /\ l \in Seq(Block) /\ m \in Nat /\ NULL \notin Block /\ m <= N /\ N \in Nat
      /\ \A i \in 1..m : l[i] \in Block
      /\ k.cptr[p] = IF l = <<>> THEN NULL ELSE l[1]
      /\ \A i \in 1..m : k.optr[l[i]] = IF i = m THEN NULL ELSE l[i + 1]
  BY FamilyAssumption, LenProperties, ElementOfSeq DEF Linked, Block, Families!Block
<1> HIDE DEF l
<1>2. \A h \in 0..m : /\ A(h) \in Seq(Block) /\ Len(A(h)) = h
                      /\ \A i \in 1..h : A(h)[i] = l[i]
  <2> SUFFICES ASSUME NEW h \in 0..m
               PROVE  /\ A(h) \in Seq(Block) /\ Len(A(h)) = h
                      /\ \A i \in 1..h : A(h)[i] = l[i]
    OBVIOUS
  <2>1. 1 \in 1..(Len(l) + 1) /\ h \in (1 - 1)..Len(l) /\ h - 1 + 1 = h
    BY <1>1
  <2>2. /\ A(h) \in Seq(Block) /\ Len(A(h)) = h - 1 + 1
        /\ \A i \in 1..(h - 1 + 1) : A(h)[i] = l[1 + i - 1]
    <3>1. l \in Seq(Block)
      BY <1>1
    <3> HIDE DEF g, N, m
    <3> QED BY <2>1, <3>1, Piece, ZenonT(30)
  <2>3. \A i \in 1..h : 1 + i - 1 = i
    OBVIOUS
  <2> HIDE DEF A
  <2> QED BY <2>1, <2>2, <2>3
<1> HIDE DEF A
<1>3. A(0) = <<>> /\ A(m) = l
  <2>1. A(0) = <<>>
    <3>1. A(0) \in Seq(Block) /\ Len(A(0)) = 0
      BY <1>1, <1>2
    <3> QED BY <3>1, EmptySeq
  <2>2. A(m) = l
    <3>1. A(m) \in Seq(Block) /\ Len(A(m)) = m /\ \A i \in 1..m : A(m)[i] = l[i]
      BY <1>1, <1>2
    <3> QED BY <1>1, <3>1, SeqEqual
  <2> QED BY <2>1, <2>2
<1>4. ASSUME NEW h \in 0..m PROVE Step(A(h)) = IF h = m THEN A(m) ELSE A(h + 1)
  <2>1. Families!Next(k, p, A(h)) = IF h = m THEN NULL ELSE l[h + 1]
    <3>1. CASE h = 0
      <4>1. Families!Next(k, p, A(h)) = k.cptr[p]
        BY <1>3, <3>1 DEF Families!Next
      <4>2. l = <<>> <=> m = 0
        BY <1>1
      <4> QED BY <1>1, <3>1, <4>1, <4>2
    <3>2. CASE h # 0
      <4>1. h \in 1..h /\ h \in 1..m
        BY <1>1, <3>2
      <4>2. A(h) # <<>> /\ A(h)[Len(A(h))] = l[h]
        BY <1>2, <3>2, <4>1
      <4> QED BY <1>1, <4>1, <4>2 DEF Families!Next
    <3> QED BY <3>1, <3>2
  <2>2. CASE h = m
    BY <2>1, <2>2
  <2>3. CASE h # m
    <3>1. h + 1 \in 1..m /\ h + 1 \in 0..m /\ l[h + 1] \in Block /\ l[h + 1] # NULL
      <4>1. h + 1 \in 1..m /\ h + 1 \in 0..m
        BY <1>1, <2>3
      <4> QED BY <1>1, <4>1
    <3>2. Step(A(h)) = Append(A(h), l[h + 1])
      BY <2>1, <2>3, <3>1
    <3> DEFINE b == Append(A(h), l[h + 1])
               a == A(h + 1)
    <3>3. /\ A(h) \in Seq(Block) /\ Len(A(h)) = h
          /\ \A i \in 1..h : A(h)[i] = l[i]
      BY <1>2
    <3>4. /\ a \in Seq(Block) /\ Len(a) = h + 1 /\ \A i \in 1..(h + 1) : a[i] = l[i]
      BY <1>2, <3>1
    <3>5. /\ b \in Seq(Block) /\ Len(b) = h + 1 /\ b[h + 1] = l[h + 1]
          /\ \A i \in 1..h : b[i] = l[i]
      BY <3>1, <3>3
    <3> HIDE DEF a, b
    <3>6. \A i \in 1..(h + 1) : b[i] = a[i]
      <4>1. \A i \in 1..(h + 1) : i \in 1..h \/ i = h + 1
        OBVIOUS
      <4> QED BY <3>4, <3>5, <4>1
    <3>7. b = a
      BY <3>4, <3>5, <3>6, SeqEqual
    <3> QED BY <2>3, <3>2, <3>7 DEF a, b
  <2> QED BY <2>2, <2>3
<1> HIDE DEF Step
<1>5. Is(g)
  <2>1. ASSUME NEW n \in 0..N PROVE g[n] = IF n = 0 THEN <<>> ELSE Step(g[n - 1])
    <3>1. CASE n = 0
      BY <1>1, <1>3, <3>1
    <3>2. CASE n # 0
      <4>1. n - 1 \in 0..N /\ Cut(n - 1) \in 0..m
            /\ Cut(n) = IF Cut(n - 1) = m THEN m ELSE Cut(n - 1) + 1
        BY <1>1, <3>2
      <4> HIDE DEF Cut, N
      <4>2. g[n - 1] = A(Cut(n - 1)) /\ g[n] = A(Cut(n))
        BY <4>1
      <4>3. Step(A(Cut(n - 1))) = IF Cut(n - 1) = m THEN A(m) ELSE A(Cut(n - 1) + 1)
        BY <1>4, <4>1
      <4> QED BY <3>2, <4>1, <4>2, <4>3
    <3> QED BY <3>1, <3>2
  <2>2. g = [n \in 0..N |-> g[n]]
    OBVIOUS
  <2> HIDE DEF g, N
  <2> QED BY <2>1, <2>2, Zenon
<1> HIDE DEF g
<1>6. ASSUME NEW f, Is(f) PROVE f = g
  <2> DEFINE S == {n \in Nat : n <= N => f[n] = g[n]}
  <2>1. 0 \in S
    <3>1. 0 \in 0..N
      BY <1>1
    <3> QED BY <1>5, <1>6, <3>1
  <2>2. ASSUME NEW n \in Nat, n \in S PROVE n + 1 \in S
    <3> SUFFICES ASSUME n + 1 <= N PROVE f[n + 1] = g[n + 1]
      OBVIOUS
    <3>1. n \in 0..N /\ n + 1 \in 0..N /\ n + 1 # 0 /\ (n + 1) - 1 = n
      BY <1>1
    <3>2. f[n] = g[n]
      BY <2>2, <3>1
    <3> QED BY <1>5, <1>6, <3>1, <3>2
  <2> HIDE DEF S
  <2>3. Nat \subseteq S
    BY <2>1, <2>2, SetInduction
  <2>4. \A n \in 0..N : f[n] = g[n]
    BY <2>3 DEF S
  <2> QED BY <1>5, <1>6, <2>4
<1> DEFINE upto == CHOOSE f : Is(f)
<1>7. upto = g
  <2> HIDE DEF Is
  <2> QED BY <1>5, <1>6
<1>8. Families!Children(k, p) = g[N]
  BY <1>7, Zenon DEF Families!Children, Step
<1>9. g[N] = A(m)
  <2>1. N \in 0..N /\ Cut(N) = m
    BY <1>1
  <2> QED BY <2>1 DEF g
<1> QED BY <1>3, <1>8, <1>9 DEF l

\* The pointers are lists of children, those in use have a parent, and it is alive.
KinInv ==
    /\ zombie \subseteq Named /\ init \in Named
    /\ \E L : Linked(kin, L, NULL)
    /\ \A c \in Block : kin.parent[c] # NULL <=> c \in Named
    /\ \A c \in Named : kin.parent[c] \in Used \ zombie

LEMMA KinInit ==
    ASSUME Families!FamilyInit
    PROVE  KinInv
<1> DEFINE none == [b \in Block |-> NULL]
           k == [parent |-> none, cptr |-> none, optr |-> none, yptr |-> none]
           L == [b \in Block |-> <<>>]
<1>1. /\ pid[idle] = 0 /\ pid[init] = 1 /\ \A c \in Child : pid[c] = -1
      /\ zombie = {} /\ kin = Families!set_links(k, idle, init)
  <2>1. /\ pid[idle] = 0 /\ pid[init] = 1 /\ \A c \in Child : pid[c] = -1
        /\ zombie = {}
    BY DEF Families!FamilyInit
  <2>2. PICK n \in [Block -> {NULL}] :
            kin = Families!set_links([parent |-> n, cptr |-> n, optr |-> n, yptr |-> n],
                                     idle, init)
    BY DEF Families!FamilyInit, Block
  <2>3. n = none
    BY <2>2
  <2> QED BY <2>1, <2>2, <2>3
<1>2. /\ Block = Child \cup {idle, init} /\ idle \in Block /\ init \in Block /\ NULL \notin Block
      /\ Used = {idle, init} /\ Named = {init}
  BY <1>1, FamilyAssumption DEF Named, Used, Families!Used, Block, Families!Block
<1>3. none \in Pointers /\ \A b \in Block : none[b] = NULL
  BY DEF Pointers
<1>4. Linked(k, L, NULL) /\ k.parent = none /\ k \in Kin
  <2>1. /\ L \in [Block -> Seq(Block)]
        /\ \A b \in Block : L[b] = <<>> /\ Len(L[b]) = 0
    OBVIOUS
  <2>2. \A b \in Block : \A i : i \notin 1..Len(L[b])
    BY <2>1
  <2> HIDE DEF L, none
  <2>3. k \in Kin /\ k.parent = none /\ k.cptr = none /\ k.optr = none /\ k.yptr = none
    BY <1>3 DEF Kin
  <2> QED BY <1>2, <1>3, <2>1, <2>2, <2>3 DEF Linked
<1> HIDE DEF L, k, none
<1>5. Linked(kin, [L EXCEPT ![idle] = <<init>> \o L[idle]], NULL)
  BY <1>1, <1>2, <1>3, <1>4, LinkAdded
<1>6. kin.parent = [none EXCEPT ![init] = idle]
  <2>1. kin = NewLinks(k, idle, init)
    BY <1>1, <1>4, LinksSet
  <2>2. NewLinks(k, idle, init).parent = [k.parent EXCEPT ![init] = idle]
    BY DEF NewLinks
  <2> QED BY <1>4, <2>1, <2>2
<1>7. \A b \in Block : kin.parent[b] = IF b = init THEN idle ELSE NULL
  BY <1>2, <1>3, <1>6 DEF Pointers
<1>8. idle # NULL
  BY <1>2
<1> QED BY <1>1, <1>2, <1>5, <1>7, <1>8 DEF KinInv

LEMMA ForkKin ==
    ASSUME ListsInv, NumbersInv, KinInv, NEW p, NEW c \in Child, Families!do_fork(p, c)
    PROVE  KinInv'
<1>1. /\ kin' = Families!set_links(kin, p, c) /\ zombie' = zombie
      /\ p \in Used \ zombie /\ p # idle /\ c \notin Used
  BY DEF Families!do_fork, Families!Alive, Used
<1>2. /\ Block' = Block /\ NULL \notin Block /\ c \in Block /\ c # idle
      /\ Used \subseteq Block
  BY FamilyAssumption DEF Block, Families!Block, Used, Families!Used
<1>3. Used' = Used \cup {c} /\ Named' = Named \cup {c}
  <2>1. PICK n \in 1..(MAX_PID - 1), s \in 1..MAX_PID :
            Families!get_pid = <<n, s>> /\ Vacant(n, s)
    BY NumberGiven DEF Families!do_fork
  <2>2. pid' = [pid EXCEPT ![c] = n] /\ n # -1
    BY <2>1 DEF Families!do_fork
  <2>3. Used' = Used \cup {c}
    BY <1>2, <2>2 DEF Used, Families!Used, Families!Block, ListsInv, Block
  <2> QED BY <1>2, <2>3 DEF Named
<1>4. PICK L : Linked(kin, L, NULL)
  BY DEF KinInv
<1>5. kin \in Kin /\ kin.parent[c] = NULL
  BY <1>1, <1>2, <1>4 DEF Linked, KinInv, Named
<1>6. Linked(kin', [L EXCEPT ![p] = <<c>> \o L[p]], NULL)
  BY <1>1, <1>2, <1>4, <1>5, LinkAdded
<1>7. kin'.parent = [kin.parent EXCEPT ![c] = p]
  <2>1. kin' = NewLinks(kin, p, c)
    BY <1>1, <1>5, LinksSet
  <2>2. NewLinks(kin, p, c).parent = [kin.parent EXCEPT ![c] = p]
    BY DEF NewLinks
  <2> QED BY <2>1, <2>2
<1>8. \A b \in Block : kin'.parent[b] = IF b = c THEN p ELSE kin.parent[b]
  BY <1>2, <1>5, <1>7 DEF Kin, Pointers
<1>9. zombie' \subseteq Named' /\ init \in Named' /\ p # NULL /\ Named \subseteq Block
  BY <1>1, <1>2, <1>3 DEF KinInv, Named
<1>10. \E M : Linked(kin', M, NULL)
  BY <1>6
<1>11. /\ \A b \in Block : kin'.parent[b] # NULL <=> b \in Named'
       /\ \A b \in Named' : kin'.parent[b] \in Used' \ zombie'
  BY <1>1, <1>2, <1>3, <1>8, <1>9 DEF KinInv
<1> QED BY <1>2, <1>9, <1>10, <1>11 DEF KinInv

LEMMA ExitKin ==
    ASSUME ListsInv, KinInv, NEW p \in Block, Families!do_exit(p)
    PROVE  KinInv'
<1>1. /\ kin' = Families!Orphaned(kin, p) /\ zombie' = zombie \cup {p} /\ pid' = pid
      /\ p \in Used \ zombie /\ p # idle /\ p # init
  BY DEF Families!do_exit, Families!Alive, Used
<1>2. /\ Block' = Block /\ NULL \notin Block /\ init \in Block
      /\ Used' = Used /\ Named' = Named /\ Named \subseteq Block
  BY <1>1, FamilyAssumption DEF Named, Block, Families!Block, Used, Families!Used
<1>3. PICK L : Linked(kin, L, NULL)
  BY DEF KinInv
<1>4. \A c \in Block : kin.parent[c] = p => c \in Named
  BY <1>2 DEF KinInv
<1>5. Len(proc_list) \in Nat /\ Len(L[p]) <= Len(proc_list)
  BY <1>3, <1>4, ChildrenCounted
<1>6. /\ \E M : Linked(kin', M, NULL)
      /\ \A c \in Block : kin'.parent[c] = IF kin.parent[c] = p THEN init ELSE kin.parent[c]
  <2>1. \E M : Linked(Families!Orphaned(kin, p), M, NULL)
    BY <1>1, <1>3, <1>5, OrphansAdopted, Zenon
  <2>2. \A c \in Block : Families!Orphaned(kin, p).parent[c]
                             = IF kin.parent[c] = p THEN init ELSE kin.parent[c]
    BY <1>1, <1>3, <1>5, OrphansAdopted, Zenon
  <2> QED BY <1>1, <2>1, <2>2
<1>7. zombie' \subseteq Named' /\ init \in Named' /\ init \in Used' \ zombie'
  BY <1>1, <1>2, FamilyAssumption DEF KinInv, ListsInv, Named
<1>8. /\ \A b \in Block : kin'.parent[b] # NULL <=> b \in Named'
      /\ \A b \in Named' : kin'.parent[b] \in Used' \ zombie'
  BY <1>1, <1>2, <1>6, <1>7 DEF KinInv
<1> QED BY <1>2, <1>6, <1>7, <1>8 DEF KinInv

LEMMA ReapKin ==
    ASSUME ListsInv, KinInv, NEW c \in zombie, Families!Reaped(c)
    PROVE  KinInv'
<1>1. kin' = Cleared(kin, c) /\ zombie' = zombie \ {c} /\ pid' = [pid EXCEPT ![c] = -1]
  BY DEF Families!Reaped, Cleared
<1>2. /\ Block' = Block /\ NULL \notin Block /\ c \in Block /\ c \in Named /\ c # init /\ c # idle
      /\ Named \subseteq Block /\ Used \subseteq Block
  BY FamilyAssumption DEF Named, Block, Families!Block, Used, Families!Used, ListsInv, KinInv
<1>3. Used' = Used \ {c} /\ Named' = Named \ {c}
  BY <1>1, <1>2 DEF Named, Used, Families!Used, Families!Block, ListsInv, Block
<1>4. PICK L : Linked(kin, L, NULL)
  BY DEF KinInv
<1>5. L[c] = <<>> /\ kin \in Kin
  <2>1. \A b \in Block : kin.parent[b] # c
    BY <1>2 DEF KinInv
  <2>2. L[c] \in Seq(Block) /\ kin \in Kin
    BY <1>2, <1>4 DEF Linked
  <2>3. \A i \in 1..Len(L[c]) : FALSE
    <3>1. \A i \in 1..Len(L[c]) : L[c][i] \in Block
      BY <2>2, ElementOfSeq
    <3> QED BY <1>2, <1>4, <2>1, <3>1 DEF Linked
  <2>4. Len(L[c]) = 0
    <3>1. Len(L[c]) \in Nat /\ (Len(L[c]) # 0 => 1 \in 1..Len(L[c]))
      BY <2>2, LenProperties
    <3> QED BY <2>3, <3>1
  <2> QED BY <2>2, <2>4, EmptySeq
<1>6. kin.parent[c] \in Block
  BY <1>2 DEF KinInv
<1>7. (\E M : Linked(kin', M, NULL)) /\ kin'.parent = [kin.parent EXCEPT ![c] = NULL]
  <2>1. \E M : Linked(Cleared(kin, c), M, NULL)
    BY <1>2, <1>4, <1>5, <1>6, ChildRemoved, Zenon
  <2>2. Cleared(kin, c).parent = [kin.parent EXCEPT ![c] = NULL]
    BY <1>2, <1>4, <1>5, <1>6, ChildRemoved
  <2> QED BY <1>1, <2>1, <2>2
<1>8. \A b \in Block : kin'.parent[b] = IF b = c THEN NULL ELSE kin.parent[b]
  BY <1>2, <1>5, <1>7 DEF Kin, Pointers
<1>9. zombie' \subseteq Named' /\ init \in Named'
  BY <1>1, <1>2, <1>3 DEF KinInv
<1>10. /\ \A b \in Block : kin'.parent[b] # NULL <=> b \in Named'
       /\ \A b \in Named' : kin'.parent[b] \in Used' \ zombie'
  BY <1>1, <1>2, <1>3, <1>8 DEF KinInv
<1> QED BY <1>2, <1>7, <1>9, <1>10 DEF KinInv

LEMMA KinStep ==
    ASSUME ListsInv, NumbersInv, KinInv, Families!FamilyNext
    PROVE  KinInv'
<1>1. PICK p \in Block : \/ \E c \in Child : Families!do_fork(p, c)
                        \/ Families!do_exit(p)
                        \/ Families!WaitAny(p)
                        \/ \E n \in 1..(MAX_PID - 1) : Families!WaitPid(p, n)
  BY DEF Families!FamilyNext, Block
<1>2. CASE \E c \in Child : Families!do_fork(p, c)
  BY <1>2, ForkKin
<1>3. CASE Families!do_exit(p)
  BY <1>3, ExitKin
<1>4. CASE Families!WaitAny(p)
  <2>1. \E c \in zombie : Families!Reaped(c)
    BY <1>4 DEF Families!WaitAny
  <2> QED BY <2>1, ReapKin
<1>5. CASE \E n \in 1..(MAX_PID - 1) : Families!WaitPid(p, n)
  <2>1. \E c \in zombie : Families!Reaped(c)
    BY <1>5 DEF Families!WaitPid
  <2> QED BY <2>1, ReapKin
<1> QED BY <1>1, <1>2, <1>3, <1>4, <1>5

\* After any forks, deaths, adoptions and waits the list that begins at a process's
\* youngest child has exactly the processes whose parent it is, read from either
\* end, and only the living have children: set_links, remove_links (proc.c:145) and
\* the loop of do_exit (proc.c:560) never leave a pointer behind.
THEOREM RelativesAgree == ResourcesSpec => []FamilyExact
<1> DEFINE Inv == running = "family" => ListsInv /\ NumbersInv /\ KinInv
<1>1. ResourcesInit => Inv
  BY NumbersInit, KinInit DEF ResourcesInit
<1>2. Inv /\ [ResourcesNext]_managers => Inv'
  <2> SUFFICES ASSUME Inv, [ResourcesNext]_managers, running' = "family"
               PROVE  ListsInv' /\ NumbersInv' /\ KinInv'
    OBVIOUS
  <2>1. running = "family" /\ [Families!FamilyNext]_fvars
    BY FamilyStep
  <2>2. CASE UNCHANGED fvars
    <3>1. Block' = Block /\ Used' = Used /\ Named' = Named /\ kin' = kin /\ zombie' = zombie
      BY <2>2 DEF fvars, Named, Used, Block, Families!Used, Families!Block
    <3>2. ListsInv' /\ NumbersInv'
      BY <2>1, <2>2, <3>1 DEF fvars, ListsInv, NumbersInv
    <3>3. KinInv'
      BY <2>1, <3>1 DEF KinInv
    <3> QED BY <3>2, <3>3
  <2> QED BY <2>1, <2>2, NumbersStep, KinStep
<1>3. Inv => FamilyExact
  <2> SUFFICES ASSUME running = "family", ListsInv, KinInv PROVE Families!FamilyExact
    BY DEF FamilyExact
  <2>1. PICK L : Linked(kin, L, NULL)
    BY DEF KinInv
  <2>2. NULL \notin Block /\ Named \subseteq Block /\ Used = Named \cup {idle}
    BY FamilyAssumption DEF Named, Used, Families!Used, Block, Families!Block, ListsInv
  <2>3. ASSUME NEW p \in Block
        PROVE  /\ Families!IsInjective(Families!Children(kin, p))
               /\ Families!Range(Families!Children(kin, p)) = {c \in Used : kin.parent[c] = p}
               /\ \A i \in DOMAIN Families!Children(kin, p) :
                     kin.yptr[Families!Children(kin, p)[i]]
                         = (IF i = 1 THEN NULL ELSE Families!Children(kin, p)[i - 1])
               /\ Families!Children(kin, p) # <<>> => p \in Families!Alive
    <3> DEFINE l == L[p]
    <3>1. Families!Children(kin, p) = l
      <4>1. \A c \in Block : kin.parent[c] = p => c \in Named
        BY <2>2 DEF KinInv
      <4>2. Len(proc_list) \in Nat /\ Len(L[p]) <= Len(proc_list)
        BY <2>1, <4>1, ChildrenCounted
      <4> QED BY <2>1, <4>2, ChildrenListed
    <3>2. /\ l \in Seq(Block) /\ Len(l) \in Nat /\ DOMAIN l = 1..Len(l)
          /\ \A i \in 1..Len(l) : l[i] \in Block
      BY <2>1, LenProperties, ElementOfSeq DEF Linked
    <3>3. /\ \A i, j \in 1..Len(l) : l[i] = l[j] => i = j
          /\ \A i \in 1..Len(l) : kin.yptr[l[i]] = IF i = 1 THEN NULL ELSE l[i - 1]
          /\ \A c \in Block : kin.parent[c] = p <=> \E i \in 1..Len(l) : l[i] = c
      BY <2>1, <2>2 DEF Linked
    <3> HIDE DEF l
    <3>4. Families!IsInjective(l)
      BY <3>2, <3>3 DEF Families!IsInjective
    <3>5. Families!Range(l) = {c \in Used : kin.parent[c] = p}
      <4>1. \A c : c \in Families!Range(l) <=> \E i \in 1..Len(l) : l[i] = c
        BY <3>2, Zenon DEF Families!Range
      <4>2. \A c \in Block : kin.parent[c] = p => c \in Named
        BY <2>2 DEF KinInv
      <4>3. \A c : c \in Families!Range(l) <=> c \in Used /\ kin.parent[c] = p
        <5>1. Used \subseteq Block
          BY DEF Used, Families!Used, Block
        <5> QED BY <2>2, <3>2, <3>3, <4>1, <4>2, <5>1
      <4> QED BY <4>3
    <3>6. l # <<>> => p \in Families!Alive
      <4> SUFFICES ASSUME l # <<>> PROVE p \in Families!Alive
        OBVIOUS
      <4>1. 1 \in 1..Len(l)
        BY <3>2, EmptySeq
      <4>2. l[1] \in Block /\ kin.parent[l[1]] = p
        BY <3>2, <3>3, <4>1
      <4> QED BY <2>2, <4>2 DEF KinInv, Families!Alive, Used
    <3> QED BY <3>1, <3>2, <3>3, <3>4, <3>5, <3>6
  <2>4. Families!Range(proc_list) = Families!Used \ {idle} /\ Families!IsInjective(proc_list)
    <3>1. Families!Range(proc_list) = ToSet(proc_list)
      BY DEF Families!Range, ToSet
    <3> QED BY <3>1 DEF ListsInv, Named, Used, Families!IsInjective
  <2> QED BY <2>3, <2>4 DEF Families!FamilyExact, Block, Used
<1> HIDE DEF Inv
<1> QED BY <1>1, <1>2, <1>3, PTL DEF ResourcesSpec
==============================================================================
