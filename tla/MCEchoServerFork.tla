-------------------------- MODULE MCEchoServerFork --------------------------
\* Model values for EchoServerFork.  Clients are named in the order in which
\* they connect: every behaviour is one of these, up to names.
EXTENDS EchoServerFork
CONSTANTS c1, c2, c3
MCClient == {c1, c2, c3}
Arrival == <<c1, c2, c3>>
NamedInOrder ==
  \A k \in 2..Cardinality(Client) :
    client'[Arrival[k]] # "new" => client'[Arrival[k - 1]] # "new"
MCSpec == Init /\ [][Next /\ NamedInOrder]_vars /\ Fairness
=============================================================================
