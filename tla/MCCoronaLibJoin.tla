-------------------------- MODULE MCCoronaLibJoin ----------------------------
EXTENDS CoronaLibJoin, TLC

\* Coroutine ids are interchangeable.
MCSymmetry == Permutations(Coro)

=============================================================================
