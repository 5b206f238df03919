----------------------------- MODULE MCResources -----------------------------
(* Programs for AddressSpace: two that load, one over several page tables, and
   files that are no program, end early or map a page twice. *)
EXTENDS Resources
Seg(s, f, e) == [start |-> s, filled |-> f, end |-> e]
Stack == [start |-> 6, end |-> 8]
Small == [elf |-> TRUE, segments |-> <<Seg(0, 1, 1), Seg(1, 2, 2)>>, reads |-> 2]
Wide == [elf |-> TRUE, segments |-> <<Seg(0, 1, 1), Seg(1, 2, 4)>>, reads |-> 2]
Script == [elf |-> FALSE, segments |-> <<>>, reads |-> 0]
Cut == [elf |-> TRUE, segments |-> <<Seg(0, 1, 1), Seg(1, 2, 2)>>, reads |-> 1]
Twice == [elf |-> TRUE, segments |-> <<Seg(0, 2, 2), Seg(1, 2, 2)>>, reads |-> 3]
AllDisks == {{Small, Script, Cut}, {Small, Wide}, {Wide, Twice}}
==============================================================================
