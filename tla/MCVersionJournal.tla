-------------------------- MODULE MCVersionJournal --------------------------
(* Small instances of VersionJournal. *)
EXTENDS VersionJournal

\* The disks are asked in any order.
MCSymmetry == Permutations(Disks)

\* What "last" knows is used when a listing begins, and the disks are of no
\* account to one that has read them all.  What comes after a listing comes
\* without it as well: a listing changes no journal.
MCView ==
  <<misses, streams, due, gone,
    IF Complete THEN Cardinality(asked)
    ELSE <<journal, clock, puts, asked, unread, IF asked = {} THEN last ELSE {}>> >>

=============================================================================
