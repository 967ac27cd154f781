---------------------------- MODULE MCChatServerRts ----------------------------
\* Model values for ChatServerRts.  Clients are named in the order in which
\* they connect: every behaviour is one of these, up to names.
EXTENDS ChatServerRts
CONSTANTS c1, c2, c3
MCClient == {c1, c2, c3}
MCTwoClients == {c1, c2}
Arrival == <<c1, c2, c3>>
NamedInOrder ==
  \A k \in 2..Cardinality(Client) :
    client'[Arrival[k]] # "new" => client'[Arrival[k - 1]] # "new"
MCSpec == Init /\ [][Next /\ NamedInOrder]_vars /\ Fairness
=============================================================================
