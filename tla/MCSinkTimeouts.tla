--------------------------- MODULE MCSinkTimeouts ---------------------------
EXTENDS SinkTimeouts, TLC
Symmetry == Permutations(Owners)
=============================================================================
