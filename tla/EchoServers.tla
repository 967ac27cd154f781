----------------------------- MODULE EchoServers -----------------------------
(***************************************************************************)
(* The same clients against each of the three echo servers that are a      *)
(* single process: `program` says which of them runs, the variables of the *)
(* others keep their initial values.                                       *)
(***************************************************************************)
EXTENDS EchoClient

CONSTANTS NoClient,   \* nobody is being served, a free descriptor
          PollFdLimit \* descriptors of EchoServerNonblocking

VARIABLES program,
          i_pc, i_client, i_buf,
          p_pc, p_i, maxfd, client_fd_array, fdtab, p_buf, cut,
          o_pc, o_client, open, o_buf, shrunk, urgent, sigurg

Iterative == INSTANCE EchoServerIterative
               WITH pc <- i_pc, client_sockfd <- i_client, buf <- i_buf
Polling == INSTANCE EchoServerNonblocking
             WITH FdLimit <- PollFdLimit, pc <- p_pc, i <- p_i, buf <- p_buf
Oob == INSTANCE EchoServerOob
         WITH pc <- o_pc, client_sockfd <- o_client, buf <- o_buf

ASSUME EchoServersAssumption ==
  Iterative!IterativeAssumption /\ Polling!PollAssumption /\ Oob!OobAssumption

i_server == <<i_pc, i_client, i_buf>>
p_server == <<p_pc, p_i, maxfd, client_fd_array, fdtab, p_buf, cut>>
o_server == <<o_pc, o_client, open, o_buf, shrunk, urgent, sigurg>>
i_vars == <<net, i_server>>
p_vars == <<net, p_server>>
o_vars == <<net, o_server>>
servers == <<program, net, i_server, p_server, o_server>>

EchoInit ==
  /\ program \in {"echo_server", "echo_server_nonblocking", "echo_server_oob"}
  /\ Iterative!Init /\ Polling!ServerInit /\ Oob!ServerInit

EchoNext ==
  /\ UNCHANGED program
  /\ \/ program = "echo_server" /\ Iterative!Next /\ UNCHANGED <<p_server, o_server>>
     \/ program = "echo_server_nonblocking" /\ Polling!Next /\ UNCHANGED <<i_server, o_server>>
     \/ program = "echo_server_oob" /\ Oob!Next /\ UNCHANGED <<i_server, p_server>>

\* The fairness of each program, for the one that runs.
EchoFairness ==
  /\ WF_i_vars(program = "echo_server" /\ Iterative!Serve)
  /\ \A c \in Client :
       /\ WF_i_vars(program = "echo_server" /\ Iterative!ClientReads(c))
       /\ WF_i_vars(program = "echo_server" /\ Iterative!Types(c))
  /\ WF_p_vars(program = "echo_server_nonblocking" /\ Polling!Serve)
  /\ \A c \in Client : WF_p_vars(program = "echo_server_nonblocking" /\ Polling!ClientReads(c))
  /\ WF_o_vars(program = "echo_server_oob" /\ Oob!Serve)
  /\ \A c \in Client : WF_o_vars(program = "echo_server_oob" /\ Oob!ClientReads(c))

EchoSpec == EchoInit /\ [][EchoNext]_servers /\ EchoFairness

-----------------------------------------------------------------------------
\* The types of the programs; what the polling one's buffer holds and whose
\* bytes its clients are sent; what the third echoes and when it handles a signal.
ServersInv ==
  /\ program = "echo_server" => Iterative!TypeOK
  /\ program = "echo_server_nonblocking" => Polling!Inv
  /\ program = "echo_server_oob" => Oob!Inv

\* What the clients of the iterative server are shown, with nothing if another
\* program runs.
Untouched == [c \in Client |-> <<>>]
IterativeEcho ==
  INSTANCE EchoService
    WITH asked <- IF program = "echo_server" THEN asked ELSE Untouched,
         answer <- IF program = "echo_server" THEN Iterative!Printed ELSE Untouched

\* The iterative server implements the service: nobody gets another's bytes.
IterativeImplementsEcho == IterativeEcho!Spec

\* Everybody is served, if every user types.
IterativeAllServed == program = "echo_server" => Iterative!AllServed

\* The polling server answers who has a descriptor, until it has given away its
\* last one: from then on it serves nobody, for ever.
PollProgress ==
  /\ Polling!WedgedForGood
  /\ program = "echo_server_nonblocking" => Polling!Answered

\* The third serves its first client, its urgent byte included, and never another.
OobFirstOnly ==
  /\ Oob!FirstOnly
  /\ program = "echo_server_oob" => Oob!FirstServed
=============================================================================
