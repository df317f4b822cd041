----------------------------- MODULE MCFindIter ------------------------------
EXTENDS FindIter, TLC

ThreadSymmetry == Permutations(Threads)

MCTexts == {<<>>, <<"a">>, <<"wide">>, <<"A", "-">>, <<"latin", "a">>, <<"a", "wide", "a">>}
MCAlternatives == {<<>>, <<0>>, <<1>>, <<0, 1>>, <<2, 0>>}
MCPositions == -1..3
==============================================================================
