---------------------------- MODULE MCModuleCache ----------------------------
EXTENDS ModuleCache, TLC

ThreadSymmetry == Permutations(Threads)
==============================================================================
