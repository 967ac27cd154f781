------------------------- MODULE MCEchoServerThread -------------------------
\* Model values for EchoServerThread: three clients on two descriptors.
EXTENDS EchoServerThread, TLC
CONSTANTS c1, c2, c3
MCClient == {c1, c2, c3}
Symmetry == Permutations(MCClient)
=============================================================================
