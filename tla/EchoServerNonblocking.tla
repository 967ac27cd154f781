----------------------- MODULE EchoServerNonblocking -----------------------
(***************************************************************************)
(* 16_block_nonblock/echo_server_nonblocking: one process polls.  A round  *)
(* accepts until nothing waits and then reads every connection once, in    *)
(* the order of the descriptors, into one buffer that is cleared once a    *)
(* round; MAXLINE bytes of it are written back whatever was read.          *)
(***************************************************************************)
EXTENDS EchoClient

CONSTANTS FdLimit,  \* descriptors left for connections
          NoClient  \* a free descriptor

PollAssumption == FdLimit \in Nat \ {0} /\ NoClient \notin Client

VARIABLES pc,              \* "accept", "scan" or "dead"
          i,               \* the loop's counter
          maxfd,           \* the highest descriptor ever accepted
          client_fd_array, \* the descriptors marked 1
          fdtab,           \* kernel: the connection behind each descriptor
          buf,
          cut              \* history: some read returned less than MAXLINE bytes

server == <<pc, i, maxfd, client_fd_array, fdtab, buf, cut>>
vars == <<net, server>>

Fd == 1..FdLimit
Free == {fd \in Fd : fdtab[fd] = NoClient}
Lowest(S) == CHOOSE fd \in S : \A other \in S : fd <= other

ServerInit ==
  /\ pc = "accept" /\ i = 0 /\ maxfd = 0 /\ client_fd_array = {} /\ cut = FALSE
  /\ fdtab = [fd \in Fd |-> NoClient]
  /\ buf = Zeroed

Init == NetInit /\ ServerInit

Gone(c) == c \notin Range(backlog) /\ c \notin Range(fdtab)

ClientReads(c) == ReadAnswer(c, Gone(c)) /\ UNCHANGED server
UserActs(c) == (Connect(c, pc # "dead") \/ Ask(c) \/ HangUp(c)) /\ UNCHANGED server

-----------------------------------------------------------------------------
\* accept succeeds: mark the descriptor and continue with the next accept.
Accept ==
  /\ pc = "accept" /\ backlog # <<>> /\ Free # {}
  /\ LET fd == Lowest(Free)
     IN  /\ fdtab' = [fdtab EXCEPT ![fd] = Head(backlog)]
         /\ client_fd_array' = client_fd_array \cup {fd}
         /\ maxfd' = IF fd > maxfd THEN fd ELSE maxfd
  /\ TakeNext
  /\ UNCHANGED <<pc, i, buf, cut>>

\* Mutated form of AcceptSettled: any error of accept leads on to the reads.
AnyError == backlog = <<>> \/ Free = {}

\* EAGAIN: nothing waits.  The kernel takes a descriptor before it looks at the
\* queue: with none free the error is EMFILE even if nothing waits, and the
\* loop continues with the next accept, which changes nothing.
AcceptSettled == Free # {} /\ backlog = <<>>

StartRound ==
  /\ pc = "accept" /\ AcceptSettled
  /\ pc' = "scan"
  /\ UNCHANGED <<net, i, maxfd, client_fd_array, fdtab, buf, cut>>

\* Mutated form of InLoop: the loop stops one descriptor early.
InLoopShort(fd) == fd < maxfd

\* i < maxfd + 1
InLoop(fd) == fd < maxfd + 1

\* The descriptors the round still has to read.
Ahead == {fd \in client_fd_array : i <= fd /\ InLoop(fd)}

\* Mutated form of Cleared: neither memset is there.
NotCleared(b) == b

\* The memset at the top of the loop; the one before the reads repeats it.
Cleared(b) == Zeroed

\* Back to the top of the loop.
LeaveRound == pc' = "accept" /\ i' = 0 /\ buf' = Cleared(buf)

EndRound ==
  /\ pc = "scan" /\ Ahead = {}
  /\ LeaveRound
  /\ UNCHANGED <<net, maxfd, client_fd_array, fdtab, cut>>

\* read: EAGAIN.
ReadNothing(fd) ==
  /\ toServer[fdtab[fd]] = <<>> /\ ~Closed(fdtab[fd])
  /\ i' = fd + 1
  /\ UNCHANGED <<net, pc, maxfd, client_fd_array, fdtab, buf, cut>>

\* read some bytes, write MAXLINE.
Echoed(fd) ==
  LET c == fdtab[fd]
  IN  \E n \in 1..Len(toServer[c]) :
        /\ buf' = ReadInto(buf, c, n)
        /\ cut' = (cut \/ n < MaxLine)
        /\ toServer' = [toServer EXCEPT ![c] = SubSeq(@, n + 1, Len(@))]
        /\ answer' = IF Closed(c) THEN answer ELSE [answer EXCEPT ![c] = @ \o buf']
        /\ i' = fd + 1
        /\ UNCHANGED <<client, asked, backlog, pc, maxfd, client_fd_array, fdtab>>

\* The same when the peer has reset the connection: SIGPIPE ends the server.
BrokenPipe(fd) ==
  /\ Closed(fdtab[fd]) /\ toServer[fdtab[fd]] # <<>>
  /\ pc' = "dead"
  /\ fdtab' = [d \in Fd |-> NoClient]
  /\ backlog' = <<>>
  /\ UNCHANGED <<client, asked, toServer, answer, i, maxfd, client_fd_array, buf, cut>>

\* Mutated form of Unmarked: client_fd_array[client_sockfd] = -1 is missing.
StillMarked(fd) == client_fd_array

Unmarked(fd) == client_fd_array \ {fd}

\* read: 0 or an error.  Close, and leave the round.
ReadEnd(fd) ==
  /\ Closed(fdtab[fd]) /\ toServer[fdtab[fd]] = <<>>
  /\ fdtab' = [fdtab EXCEPT ![fd] = NoClient]
  /\ client_fd_array' = Unmarked(fd)
  /\ LeaveRound
  /\ UNCHANGED <<net, maxfd, cut>>

Poll ==
  /\ pc = "scan" /\ Ahead # {}
  /\ LET fd == Lowest(Ahead) IN ReadNothing(fd) \/ Echoed(fd) \/ ReadEnd(fd)

Serve == Accept \/ StartRound \/ EndRound \/ Poll

Killed == pc = "scan" /\ Ahead # {} /\ BrokenPipe(Lowest(Ahead))

Next == Serve \/ Killed \/ \E c \in Client : ClientReads(c) \/ UserActs(c)

\* The server is always runnable; a user need not act.
Fairness == WF_vars(Serve) /\ \A c \in Client : WF_vars(ClientReads(c))

Spec == Init /\ [][Next]_vars /\ Fairness

-----------------------------------------------------------------------------
\* Types of the variables.
TypeOK ==
  /\ NetTypeOK
  /\ pc \in {"accept", "scan", "dead"}
  /\ i \in Nat /\ maxfd \in Nat /\ cut \in BOOLEAN
  /\ client_fd_array \subseteq Fd
  /\ fdtab \in [Fd -> Client \cup {NoClient}]
  /\ Len(buf) = MaxLine

\* The array the program keeps by hand marks exactly the open descriptors, none
\* of them above maxfd, and each is another client's.
ArrayAgreesWithTable ==
  pc # "dead" =>
    /\ client_fd_array = Fd \ Free
    /\ \A fd \in client_fd_array :
         fd <= maxfd /\ \A d \in client_fd_array : fdtab[d] = fdtab[fd] => d = fd

\* The buffer is common to all, but what it holds in a round was read in that
\* round, from clients on the descriptors already passed: a stranger's bytes
\* come from those and never from an earlier round or a closed connection.
BufferOfThisRound ==
  pc = "scan" =>
    \A u \in Range(buf) \ {NUL} : \E fd \in client_fd_array : fd < i /\ u[1] = fdtab[fd]

\* As long as TCP hands over what a client wrote in one piece, nobody is sent
\* a byte that is not its own.
OwnUnlessCut == ~cut => \A c \in Client : answer[c] \in {<<>>, Append(asked[c], NUL)}

\* Connections are read only while a descriptor is free.
ReadsBelowLimit == pc = "scan" => Free # {}

Inv ==
  /\ TypeOK /\ ArrayAgreesWithTable /\ BufferOfThisRound /\ OwnUnlessCut
  /\ ReadsBelowLimit

\* The last descriptor has been given away, whether or not anybody else waits.
Wedged == Free = {}

\* Then the loop goes round accept for ever: nobody is answered again, and as
\* nothing is read no descriptor is ever closed.
WedgedForGood == [][Wedged => Wedged' /\ UNCHANGED <<fdtab, answer>>]_vars

\* Otherwise every accepted client that asks is answered, however the others
\* come and go.
Answered ==
  \A c \in Client :
    (client[c] = "waiting" /\ c \in Range(fdtab))
      ~> (answer[c] # <<>> \/ Closed(c) \/ pc = "dead" \/ Wedged)
=============================================================================
