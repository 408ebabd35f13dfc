-------------------------- MODULE MCEntryLifecycle --------------------------
EXTENDS EntryLifecycle, TLC

Symmetry == Permutations(Coords) \cup Permutations(ZoneTasks)
=============================================================================
