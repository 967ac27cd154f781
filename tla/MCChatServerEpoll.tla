--------------------------- MODULE MCChatServerEpoll ---------------------------
\* Model values for ChatServerEpoll.  Clients are named in the order in which
\* they connect: every behaviour is one of these, up to names.
EXTENDS ChatServerEpoll
CONSTANTS c1, c2, c3
MCClient == {c1, c2, c3}
MCTwoClients == {c1, c2}
Arrival == <<c1, c2, c3>>
NamedInOrder ==
  \A k \in 2..Cardinality(Client) :
    client'[Arrival[k]] # "new" => client'[Arrival[k - 1]] # "new"
\* Bound: only the first client says more than one line.
FewLines == \A c \in Client \ {c1} : said'[c] <= 1
MCSpec == Init /\ [][Next /\ NamedInOrder /\ FewLines]_vars /\ Fairness
=============================================================================
