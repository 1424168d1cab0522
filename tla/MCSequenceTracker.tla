-------------------------- MODULE MCSequenceTracker -------------------------
EXTENDS SequenceTracker

Symmetry == Permutations(Docs) \cup Permutations(Notifiers)
=============================================================================
