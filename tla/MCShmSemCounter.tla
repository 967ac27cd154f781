--------------------------- MODULE MCShmSemCounter ---------------------------
\* Model values for ShmSemCounter: a producer and two consumers.
EXTENDS ShmSemCounter
CONSTANTS p1, c1, c2
MCProducer == {p1}
MCConsumer == {c1, c2}
=============================================================================
