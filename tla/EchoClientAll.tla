--------------------------- MODULE EchoClientAll ---------------------------
(***************************************************************************)
(* 24_IPv6/echo_clint_all: tries the addresses of a name in turn, an IPv6  *)
(* address over every interface but the loopback one.  What getaddrinfo    *)
(* and if_nameindex return, and what answers, does not change meanwhile.   *)
(***************************************************************************)
EXTENDS Naturals, Sequences

CONSTANTS Addresses, \* what getaddrinfo may return: sequences of families
          Interfaces \* what if_nameindex may return: sequences of names

LookupAssumption ==
  Addresses \subseteq Seq({"inet", "inet6"}) /\ Interfaces \subseteq Seq(STRING)

VARIABLES result, ifaces,
          supported, \* the families of which a socket can be had
          up,        \* what connect succeeds for: an address and an interface, or 0
          pc,        \* "socket", "inet", "inet6", "close" or "over"
          rp, ifp,   \* the loops' positions
          sock_fd,   \* the address the open socket is for, 0 if it is closed
          connection

world == <<result, ifaces, supported, up>>
vars == <<world, pc, rp, ifp, sock_fd, connection>>

Init ==
  /\ result \in Addresses /\ ifaces \in Interfaces
  /\ supported \in SUBSET {"inet", "inet6"}
  /\ up \in SUBSET {u \in (1 .. Len(result)) \X (0 .. Len(ifaces)) : result[u[1]] = "inet" <=> u[2] = 0}
  /\ pc = "socket" /\ rp = 1 /\ ifp = 1 /\ sock_fd = 0 /\ connection = FALSE

NextAddress == rp' = rp + 1 /\ pc' = "socket"

Socket ==
  /\ pc = "socket" /\ rp <= Len(result)
  /\ IF result[rp] \in supported
       THEN sock_fd' = rp /\ ifp' = 1 /\ pc' = result[rp] /\ UNCHANGED rp
       ELSE NextAddress /\ UNCHANGED <<ifp, sock_fd>>
  /\ UNCHANGED <<world, connection>>

\* IPv4: success leaves the loop at once.
Inet ==
  /\ pc = "inet"
  /\ connection' = (<<rp, 0>> \in up)
  /\ pc' = IF connection' THEN "over" ELSE "close"
  /\ UNCHANGED <<world, rp, ifp, sock_fd>>

\* Mutated form of Skips: the loopback interface is tried like the others.
Never(name) == FALSE

\* strcmp(ifp->if_name, "lo") == 0
Skips(name) == name = "lo"

\* IPv6: one interface after the other, on the same socket.
Inet6 ==
  /\ pc = "inet6"
  /\ connection' = (ifp <= Len(ifaces) /\ ~Skips(ifaces[ifp]) /\ <<rp, ifp>> \in up)
  /\ ifp' = IF connection' THEN ifp ELSE ifp + 1
  /\ pc' = IF connection' \/ ifp > Len(ifaces) THEN "close" ELSE "inet6"
  /\ UNCHANGED <<world, rp, sock_fd>>

\* if(connection) break; close
Close ==
  /\ pc = "close"
  /\ IF connection THEN pc' = "over" /\ UNCHANGED <<rp, sock_fd>>
                   ELSE NextAddress /\ sock_fd' = 0
  /\ UNCHANGED <<world, ifp, connection>>

\* rp == NULL: "Connection Failed"
Fails ==
  /\ pc = "socket" /\ rp > Len(result)
  /\ pc' = "over"
  /\ UNCHANGED <<world, rp, ifp, sock_fd, connection>>

Next == Socket \/ Inet \/ Inet6 \/ Close \/ Fails

Spec == Init /\ [][Next]_vars

-----------------------------------------------------------------------------
\* What the loops are to find.
Reachable(k) ==
  /\ result[k] \in supported
  /\ \/ result[k] = "inet" /\ <<k, 0>> \in up
     \/ result[k] = "inet6" /\ \E j \in DOMAIN ifaces : ifaces[j] # "lo" /\ <<k, j>> \in up

\* The program ends connected to the first address that can be reached, or,
\* if there is none, without a connection; no other socket stays open.
FirstReachable ==
  pc = "over" =>
    /\ \A k \in DOMAIN result : k < rp => ~Reachable(k)
    /\ connection <=> rp \in DOMAIN result
    /\ connection => Reachable(rp)
    /\ sock_fd = IF connection THEN rp ELSE 0
=============================================================================
