-------------------------- MODULE MCCoronaHelpers --------------------------
EXTENDS CoronaHelpers

\* The `producer` test sends 42 then 12; three more items make the producer
\* block on the full channel more than once.
MCItems == <<42, 12, 7, 3, 9>>

\* The two items of the `producer` test.
MCTestItems == <<42, 12>>

=============================================================================
