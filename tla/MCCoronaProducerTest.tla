------------------------ MODULE MCCoronaProducerTest ------------------------
EXTENDS CoronaProducerTest

\* The items of the `producer` test, and longer runs of the same producer.
MCWorkloads == {<<42, 12>>, <<42, 12, 7>>, <<42, 12, 7, 3>>}

\* futures::unsync::mpsc::channel(1) holds exactly one item.
MCCapacities == {1}

=============================================================================
