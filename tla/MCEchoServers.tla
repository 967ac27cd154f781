---------------------------- MODULE MCEchoServers ----------------------------
(***************************************************************************)
(* Three clients, named in the order in which they connect: every          *)
(* behaviour is one of these, up to names.  The third server, which serves *)
(* one client, has two.                                                    *)
(***************************************************************************)
EXTENDS EchoServers

CONSTANTS c1, c2, c3

MCClient == {c1, c2, c3}
Arrival == <<c1, c2, c3>>
NamedInOrder ==
  \A k \in 2..Cardinality(Client) :
    client'[Arrival[k]] # "new" => client'[Arrival[k - 1]] # "new"

MCNext ==
  /\ EchoNext
  /\ NamedInOrder
  /\ program = "echo_server_oob" => client'[c3] = "new"

MCSpec == EchoInit /\ [][MCNext]_servers /\ EchoFairness
=============================================================================
