-------------------------- MODULE MCMatchResources --------------------------
EXTENDS MatchResources, TLC

ThreadSymmetry == Permutations(Threads)

\* Of two patterns the large one runs without JIT, its match data goes through
\* the shared slots, and the other has its JIT flag off by then.
LargeIsInterpreted == jitOn[2] = FALSE /\ \A o \in Objects : pairs[o] = 2 => Global /\ ~jitOn[1]
==============================================================================
