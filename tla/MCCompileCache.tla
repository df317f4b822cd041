--------------------------- MODULE MCCompileCache ---------------------------
EXTENDS CompileCache, TLC

ThreadSymmetry == Permutations(Threads)
=============================================================================
