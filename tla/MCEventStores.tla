--------------------------- MODULE MCEventStores ---------------------------
EXTENDS EventStores, TLC

CONSTANTS s1, s2

\* Time means nothing to the in-memory store, eviction nothing to the others.
MCMaxNow == [memory |-> 0, redis |-> 2, postgres |-> 2]
MCMaxId == [memory |-> 5, redis |-> 2, postgres |-> 3]

Symmetry == Permutations(Session)

=============================================================================
