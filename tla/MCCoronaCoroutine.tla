------------------------- MODULE MCCoronaCoroutine -------------------------
EXTENDS CoronaCoroutine, TLC

MCSymmetry == Permutations(Coro)

=============================================================================
