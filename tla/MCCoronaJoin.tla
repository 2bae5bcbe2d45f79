---------------------------- MODULE MCCoronaJoin ----------------------------
EXTENDS CoronaJoin, TLC

\* Coroutine ids are interchangeable.
MCSymmetry == Permutations(Coro)

=============================================================================
