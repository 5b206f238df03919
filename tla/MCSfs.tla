-------------------------------- MODULE MCSfs --------------------------------
(* Sfs for TLC: files and entries are interchangeable.                      *)
EXTENDS Sfs

Symmetric == Permutations(Inodes) \cup Permutations(Fds)

\* Bound of the run that checks contents: nothing happens after a call has
\* failed for want of a block, where the property promises nothing.
EnoughSpace == ~ nospace
==============================================================================
