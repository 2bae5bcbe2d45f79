---------------------------- MODULE MCCoronaLib ----------------------------
EXTENDS CoronaLib, TLC

MCSymmetry == Permutations(Coro)

=============================================================================
