---------------------------- MODULE LocalPrograms ----------------------------
(***************************************************************************)
(* Programs of one machine: the three of chapter 14 whose threads share    *)
(* memory, the two pairs of chapter 11 whose processes share fifos or a    *)
(* Unix domain socket, and three that are alone: the one that waits for    *)
(* several files, the one that tries several addresses, the one that       *)
(* computes a checksum.  Each has variables of its own.                    *)
(***************************************************************************)
EXTENDS CountThreadMutex, CountThread, CatcMulti

CONSTANTS PipeClient, Capacity, MaxStops,      \* of PipeEcho
          UdomainClient, NoClient, Backlog, FdLimit, \* and of UdomainEcho
          maxfd, File, MaxInput,               \* of MySelect
          Addresses, Interfaces,               \* of EchoClientAll
          Word, Packet, Sent                   \* of IcmpCheck

VARIABLES made, p_server, p_client, myfifo_r, myfifo_w, written, dropped, p_stops,
          file, u_server, client_fd, used, backlog, u_client, conn, question, reply, u_shown, u_stops,
          input, s_written, readfds, s_pc, s_i, again, seen,
          result, ifaces, supported, up, a_pc, rp, ifp, sock_fd, connection,
          k_pc, buffer, p, sum

Pipe == INSTANCE PipeEcho WITH
  Client <- PipeClient, server <- p_server, client <- p_client, stops <- p_stops
Udomain == INSTANCE UdomainEcho WITH
  Client <- UdomainClient, server <- u_server, client <- u_client, shown <- u_shown, stops <- u_stops
Sel == INSTANCE MySelect WITH written <- s_written, pc <- s_pc, i <- s_i
All == INSTANCE EchoClientAll WITH pc <- a_pc
Icmp == INSTANCE IcmpCheck WITH pc <- k_pc

ASSUME LocalAssumption ==
  /\ RaceAssumption /\ CatcAssumption
  /\ Pipe!PipeAssumption /\ Udomain!UdomainAssumption
  /\ Sel!SelectAssumption /\ All!LookupAssumption /\ Icmp!IcmpAssumption

-----------------------------------------------------------------------------
\* Who blocks on a fifo, what a client of the socket takes for an answer, what
\* makes myselect wait although there is something to read, which address is
\* connected to, and that a checksum completes what was added up.
LocalInv == Pipe!Inv /\ Udomain!Inv /\ Sel!Inv /\ All!FirstReachable /\ Icmp!Complete

\* Whoever receives the header alone finds its checksum intact, although it was
\* computed over all of the buffer.
HeaderVerifies == Icmp!Verifies
=============================================================================
