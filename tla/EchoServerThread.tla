--------------------------- MODULE EchoServerThread ---------------------------
(***************************************************************************)
(* 14_Linux_Mulit_thread/echo_server_thread: main accepts and starts a     *)
(* detached thread per connection, handing it the address of the one       *)
(* variable client_fd that the next accept overwrites.  Descriptors are    *)
(* the process's: the lowest free one is taken, any thread may close it.   *)
(***************************************************************************)
EXTENDS EchoClient

CONSTANTS NoClient, \* a free descriptor
          FdLimit   \* connections the process can have open

ASSUME ThreadAssumption == NoClient \notin Client /\ FdLimit \in Nat \ {0}

VARIABLES fdtab,     \* the connection behind each descriptor
          client_fd, \* main's variable; Failed after an accept that failed
          pc,        \* what the thread made for each connection does
          sockfd,    \* each thread's copy of client_fd
          reading,   \* the connection a blocked read is on
          buf,       \* each thread's buffer
          dead,      \* did a SIGPIPE end the process?
          raced      \* history: client_fd overwritten before a thread read it

thread == <<pc, sockfd, reading, buf>>
vars == <<net, thread, fdtab, client_fd, dead, raced>>

Fd == 1..FdLimit
Failed == 0
Free == {fd \in Fd : fdtab[fd] = NoClient}
Connected(fd) == fd # Failed /\ fdtab[fd] # NoClient

Init ==
  /\ NetInit
  /\ fdtab = [fd \in Fd |-> NoClient]
  /\ client_fd = Failed
  /\ pc = [c \in Client |-> "none"]
  /\ sockfd = [c \in Client |-> Failed]
  /\ reading = [c \in Client |-> NoClient]
  /\ buf = [c \in Client |-> Zeroed]
  /\ dead = FALSE /\ raced = FALSE

\* A read in progress keeps its connection, whoever closes the descriptor.
Gone(c) == c \notin Range(backlog) \cup Range(fdtab) \cup Range(reading)

server == <<thread, fdtab, client_fd, dead, raced>>

ClientReads(c) == ReadAnswer(c, Gone(c)) /\ UNCHANGED server

UserActs(c) == (Connect(c, ~dead) \/ Ask(c) \/ HangUp(c)) /\ UNCHANGED server

\* client_fd is overwritten: whoever has not copied it yet will be misled.
Overwrite(fd) ==
  /\ client_fd' = fd
  /\ raced' = (raced \/ \E t \in Client : pc[t] = "start")

LowestFree == {fd \in Free : \A other \in Free : fd <= other}

\* accept, pthread_create, pthread_detach.
Accept ==
  /\ ~dead /\ backlog # <<>>
  /\ \E fd \in LowestFree :
       /\ fdtab' = [fdtab EXCEPT ![fd] = Head(backlog)]
       /\ Overwrite(fd)
  /\ pc' = [pc EXCEPT ![Head(backlog)] = "start"]
  /\ TakeNext
  /\ UNCHANGED <<sockfd, reading, buf, dead>>

\* accept fails for want of a descriptor, even if nobody waits: the loop goes on,
\* but client_fd is -1 now.
AcceptFails ==
  /\ ~dead /\ Free = {}
  /\ Overwrite(Failed)
  /\ UNCHANGED <<net, thread, fdtab, dead>>

-----------------------------------------------------------------------------
Goto(t, where) == pc' = [pc EXCEPT ![t] = where]

\* sockfd = *((int *)data)
Start(t) ==
  /\ pc[t] = "start"
  /\ sockfd' = [sockfd EXCEPT ![t] = client_fd]
  /\ Goto(t, "read")
  /\ UNCHANGED <<net, reading, buf, fdtab, client_fd, dead, raced>>

\* read is called: the descriptor is looked up now; a bad one ends the loop.
Read(t) ==
  /\ pc[t] = "read"
  /\ IF Connected(sockfd[t])
       THEN Goto(t, "blocked") /\ reading' = [reading EXCEPT ![t] = fdtab[sockfd[t]]]
       ELSE Goto(t, "close") /\ UNCHANGED reading
  /\ UNCHANGED <<net, sockfd, buf, fdtab, client_fd, dead, raced>>

\* Mutated form of Continues: the loop goes on only while reads fill the buffer.
ContinuesWhenFull(n) == n = MaxLine

\* read() > 0
Continues(n) == n > 0

\* read returns data ...
ReadData(t) ==
  /\ pc[t] = "blocked"
  /\ \E n \in 1..MaxLine :
       /\ Take(reading[t], n)
       /\ buf' = [buf EXCEPT ![t] = ReadInto(@, reading[t], n)]
       /\ Goto(t, IF Continues(n) THEN "write" ELSE "close")
  /\ reading' = [reading EXCEPT ![t] = NoClient]
  /\ UNCHANGED <<sockfd, fdtab, client_fd, dead, raced>>

\* ... or the end of the connection.
ReadEnd(t) ==
  /\ pc[t] = "blocked" /\ Closed(reading[t]) /\ toServer[reading[t]] = <<>>
  /\ reading' = [reading EXCEPT ![t] = NoClient]
  /\ Goto(t, "close")
  /\ UNCHANGED <<net, sockfd, buf, fdtab, client_fd, dead, raced>>

\* Mutated form of Cleared: the memset at the end of the loop is missing.
NotCleared(b) == b

\* memset(buf, 0x00, MAXLINE)
Cleared(b) == Zeroed

\* write looks the descriptor up again; then memset.
Write(t) ==
  /\ pc[t] = "write"
  /\ IF Connected(sockfd[t]) THEN Give(fdtab[sockfd[t]], UpToNul(buf[t])) ELSE UNCHANGED net
  /\ buf' = [buf EXCEPT ![t] = Cleared(@)]
  /\ Goto(t, "read")
  /\ UNCHANGED <<sockfd, reading, fdtab, client_fd, dead, raced>>

\* The peer has reset the connection: SIGPIPE ends the process, all of it.
BrokenPipe(t) ==
  /\ pc[t] = "write" /\ Connected(sockfd[t]) /\ Closed(fdtab[sockfd[t]])
  /\ UpToNul(buf[t]) # <<>>
  /\ dead' = TRUE
  /\ pc' = [c \in Client |-> "done"]
  /\ fdtab' = [fd \in Fd |-> NoClient]
  /\ reading' = [c \in Client |-> NoClient]
  /\ backlog' = <<>>
  /\ UNCHANGED <<client, asked, toServer, answer, sockfd, buf, client_fd, raced>>

\* Mutated form of Closing: the thread closes what main's variable says.
ClosingMains(t) == client_fd

\* The argument of close, whatever connection it is by now.
Closing(t) == sockfd[t]

Close(t) ==
  /\ pc[t] = "close"
  /\ fdtab' = [fd \in Fd |-> IF fd = Closing(t) THEN NoClient ELSE fdtab[fd]]
  /\ Goto(t, "done")
  /\ UNCHANGED <<net, sockfd, reading, buf, client_fd, dead, raced>>

ThreadStep(t) == Start(t) \/ Read(t) \/ ReadData(t) \/ ReadEnd(t) \/ Write(t) \/ Close(t)

Next ==
  \/ Accept \/ AcceptFails
  \/ \E c \in Client : ClientReads(c) \/ UserActs(c) \/ ThreadStep(c) \/ BrokenPipe(c)

\* Every thread is scheduled; a user need not act.
Fairness ==
  /\ WF_vars(Accept)
  /\ \A c \in Client : WF_vars(ThreadStep(c)) /\ WF_vars(ClientReads(c))

Spec == Init /\ [][Next]_vars /\ Fairness

-----------------------------------------------------------------------------
\* Types of the variables.
TypeOK ==
  /\ NetTypeOK
  /\ fdtab \in [Fd -> Client \cup {NoClient}]
  /\ client_fd \in Fd \cup {Failed}
  /\ pc \in [Client -> {"none", "start", "read", "blocked", "write", "close", "done"}]
  /\ sockfd \in [Client -> Fd \cup {Failed}]
  /\ reading \in [Client -> Client \cup {NoClient}]
  /\ buf \in [Client -> Seq((Client \X Nat) \cup {NUL})]
  /\ dead \in BOOLEAN /\ raced \in BOOLEAN

Copied(t) == pc[t] \in {"read", "blocked", "write", "close"}

\* As long as every thread read client_fd before the next accept, every
\* connection has its own thread, the thread its own descriptor, and the
\* reuse of descriptors confuses nobody.
OneThreadEach ==
  ~raced =>
    /\ \A t \in Client : pc[t] = "start" => fdtab[client_fd] = t
    /\ \A t \in Client : Copied(t) => fdtab[sockfd[t]] = t
    /\ \A c \in Client \cap Range(fdtab) : pc[c] \in {"start"} \/ Copied(c)
    /\ \A t \in Client : reading[t] \in {t, NoClient}

\* And what a client gets back is a beginning of its own line.
EchoIntegrity == ~raced => \A c \in Client : IsPrefix(answer[c], asked[c])

\* Raced or not, with descriptors closed and reused under their readers,
\* no unit a client sent is ever echoed twice, to whomever.
NeverTwice ==
  \A d, e \in Client : \A k \in DOMAIN answer[d], m \in DOMAIN answer[e] :
    answer[d][k] = answer[e][m] => d = e /\ k = m

Inv == TypeOK /\ OneThreadEach /\ EchoIntegrity /\ NeverTwice
=============================================================================
