--------------------------- MODULE MC_StagingQueue ---------------------------
EXTENDS StagingQueue, TLC

CONSTANTS i1, i2, t1, t2

Symmetric == Permutations({i1, i2}) \cup Permutations({t1, t2})
IdSymmetric == Permutations({i1, i2})
==============================================================================
