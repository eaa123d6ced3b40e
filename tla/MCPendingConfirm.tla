-------------------------- MODULE MCPendingConfirm --------------------------
\* PendingConfirm on small sets of cards and requests, for TLC.
EXTENDS PendingConfirm, TLC

Symmetry == Permutations(Actions) \cup Permutations(Requests)

=============================================================================
