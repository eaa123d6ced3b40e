---------------------------- MODULE MCResultPost ----------------------------
\* ResultPost on small sets of results, runs and workers, for TLC.
EXTENDS ResultPost, TLC

CONSTANTS w1, w2, m1, m2, r1, r2

\* Every run is started by the first worker.
AtFirst == [r \in Runs |-> w1]

Symmetry == Permutations(Results)

=============================================================================
