----------------------------- MODULE UdomainEcho -----------------------------
(***************************************************************************)
(* 11_IPC/echo_server_udomain and echo_client_udomain, over an AF_UNIX     *)
(* stream socket.  The server serves one client until it has gone and      *)
(* never closes its descriptor.  The client looks at the result of neither *)
(* connect nor read, and prints its buffer as the server's answer; it      *)
(* holds the question until the answer overwrites it.                      *)
(***************************************************************************)
EXTENDS Naturals, SequencesExt

CONSTANTS Client,
          NoClient,
          Backlog,  \* the 5 of listen
          FdLimit,  \* descriptors the server has for connections
          MaxStops  \* bound: how often the server is stopped

UdomainAssumption ==
  NoClient \notin Client /\ {Backlog, FdLimit} \subseteq Nat \ {0} /\ MaxStops \in Nat

VARIABLES file,      \* the socket file exists
          server,    \* "down", "accept" or "read"
          client_fd, \* the client being served
          used,      \* descriptors the server has used for connections
          backlog,
          client,    \* "new", "typing", "asking" (wrote, is reading), "quit" or "killed"
          conn,      \* its connection: "none", "alive", or "dead" once its server is
          question,  \* the connection carries a question
          reply,     \* the connection carries a reply
          shown,     \* who wrote the line printed last: "none", "server" or "self"
          stops

vars == <<file, server, client_fd, used, backlog, client, conn, question, reply, shown, stops>>
mine == <<client, conn, question, reply, shown>>

Init ==
  /\ file = FALSE /\ server = "down" /\ client_fd = NoClient /\ used = 0 /\ backlog = <<>>
  /\ client = [c \in Client |-> "new"] /\ conn = [c \in Client |-> "none"]
  /\ question = [c \in Client |-> FALSE] /\ reply = [c \in Client |-> FALSE]
  /\ shown = [c \in Client |-> "none"] /\ stops = 0

Gone(c) == client[c] \in {"quit", "killed"}

-----------------------------------------------------------------------------
(* The client. *)

\* access, connect.  connect waits while the backlog is full, and fails if
\* nobody listens behind the file; the client goes on either way.
Connect(c) ==
  /\ client[c] = "new" /\ file
  /\ IF server = "down"
       THEN UNCHANGED <<conn, backlog>>
       ELSE /\ Len(backlog) < Backlog
            /\ conn' = [conn EXCEPT ![c] = "alive"]
            /\ backlog' = Append(backlog, c)
  /\ client' = [client EXCEPT ![c] = "typing"]
  /\ UNCHANGED <<file, server, client_fd, used, question, reply, shown, stops>>

\* write: fails on a socket that is not connected, ends the client with SIGPIPE
\* on one whose other end has gone.
Ask(c) ==
  /\ client[c] = "typing"
  /\ client' = [client EXCEPT ![c] = IF conn[c] = "dead" THEN "killed" ELSE "asking"]
  /\ question' = [question EXCEPT ![c] = conn[c] = "alive"]
  /\ UNCHANGED <<file, server, client_fd, used, backlog, conn, reply, shown, stops>>

\* Mutated form of Blocking: read comes back without waiting.
NonBlocking(c) == FALSE

\* read waits as long as the server may still answer.
Blocking(c) == conn[c] = "alive" /\ ~reply[c]

\* read, and print what is in the buffer.
Read(c) ==
  /\ client[c] = "asking" /\ ~Blocking(c)
  /\ shown' = [shown EXCEPT ![c] = IF reply[c] THEN "server" ELSE "self"]
  /\ reply' = [reply EXCEPT ![c] = FALSE]
  /\ client' = [client EXCEPT ![c] = "typing"]
  /\ UNCHANGED <<file, server, client_fd, used, backlog, conn, question, stops>>

\* The user types quit, or interrupts the client.
Quit(c) ==
  /\ client[c] = "typing"
  /\ client' = [client EXCEPT ![c] = "quit"]
  /\ UNCHANGED <<file, server, client_fd, used, backlog, conn, question, reply, shown, stops>>

Kill(c) ==
  /\ client[c] \in {"typing", "asking"}
  /\ client' = [client EXCEPT ![c] = "killed"]
  /\ UNCHANGED <<file, server, client_fd, used, backlog, conn, question, reply, shown, stops>>

-----------------------------------------------------------------------------
(* The server. *)

\* Unlink an old file; socket, bind, listen.
Start ==
  /\ server = "down"
  /\ server' = "accept" /\ file' = TRUE /\ used' = 0
  /\ UNCHANGED <<client_fd, backlog, mine, stops>>

\* The process ends: every connection to it is dead; the file stays.
Ends ==
  /\ server' = "down" /\ client_fd' = NoClient /\ backlog' = <<>>
  /\ conn' = [c \in Client |-> IF conn[c] = "alive" THEN "dead" ELSE conn[c]]
  /\ UNCHANGED <<file, used, client, question, shown>>

Accept ==
  /\ server = "accept" /\ backlog # <<>> /\ used < FdLimit
  /\ client_fd' = Head(backlog) /\ backlog' = Tail(backlog) /\ used' = used + 1
  /\ server' = "read"
  /\ UNCHANGED <<file, mine, stops>>

\* Mutated form of MayFail: an error for want of a descriptor is retried.
MayFailAtFirst == used = 0 /\ backlog # <<>>

\* accept fails for want of a descriptor, even if nobody waits; or for its first
\* client because addrlen is not initialised and happens to be negative.
MayFail == used = FdLimit \/ (used = 0 /\ backlog # <<>>)

\* return 0
AcceptFails ==
  /\ server = "accept" /\ MayFail
  /\ Ends
  /\ UNCHANGED <<reply, stops>>

\* Mutated form of Broken: the write is not skipped when read returns 0.
GoneAtAll(c) == Gone(c)

\* Does the connection end in an error, or in the middle of a conversation?  A
\* client that is killed leaves a question, or a reply it has not read.
Broken(c) == Gone(c) /\ (question[c] \/ reply[c])

\* read a line, write it back.
Serve ==
  /\ server = "read" /\ question[client_fd] /\ ~Gone(client_fd)
  /\ question' = [question EXCEPT ![client_fd] = FALSE]
  /\ reply' = [reply EXCEPT ![client_fd] = TRUE]
  /\ UNCHANGED <<file, server, client_fd, used, backlog, client, conn, shown, stops>>

\* The same to a client that has gone, or after a read that failed: only 0 is
\* looked for, and the write, even of nothing, raises SIGPIPE.
BrokenPipe ==
  /\ server = "read" /\ Broken(client_fd)
  /\ Ends
  /\ UNCHANGED <<reply, stops>>

\* Mutated form of EndOfFile: only a negative result ends the loop.
NeverZero(c) == FALSE

\* read returns 0.
EndOfFile(c) == Gone(c) /\ ~Broken(c)

\* break, without close.
ClientEnds ==
  /\ server = "read" /\ EndOfFile(client_fd)
  /\ server' = "accept" /\ client_fd' = NoClient
  /\ UNCHANGED <<file, used, backlog, mine, stops>>

\* Somebody stops the server.
Stop ==
  /\ server # "down" /\ stops < MaxStops
  /\ stops' = stops + 1
  /\ Ends
  /\ UNCHANGED reply

ServerStep == Accept \/ AcceptFails \/ Serve \/ BrokenPipe \/ ClientEnds

Next ==
  \/ Start \/ ServerStep \/ Stop
  \/ \E c \in Client : Connect(c) \/ Ask(c) \/ Read(c) \/ Quit(c) \/ Kill(c)

\* The programs run; users need not type.
Fairness == WF_vars(ServerStep) /\ \A c \in Client : WF_vars(Read(c))

Spec == Init /\ [][Next]_vars /\ Fairness

-----------------------------------------------------------------------------
\* Types of the variables.
TypeOK ==
  /\ file \in BOOLEAN /\ server \in {"down", "accept", "read"}
  /\ client_fd \in Client \cup {NoClient} /\ used \in 0..FdLimit
  /\ IsInjective(backlog) /\ Range(backlog) \subseteq Client
  /\ client \in [Client -> {"new", "typing", "asking", "quit", "killed"}]
  /\ conn \in [Client -> {"none", "alive", "dead"}]
  /\ shown \in [Client -> {"none", "server", "self"}]

\* A connection is alive exactly while the server has it or will accept it, and
\* carries a question or the reply to it, never both.
OneAtATime ==
  /\ server = "read" <=> client_fd # NoClient
  /\ \A c \in Client : (c = client_fd \/ c \in Range(backlog)) => conn[c] = "alive"
  /\ \A c \in Client : ~(question[c] /\ reply[c])
  /\ \A c \in Client : client[c] = "typing" => ~question[c] \/ conn[c] = "dead"

\* What a client prints as the server's line is its own without the server's
\* doing only if it never was connected or its server has ended: over a living
\* connection every line printed was echoed.
NoSelfTalk == \A c \in Client : conn[c] = "alive" => shown[c] # "self"

Inv == TypeOK /\ OneAtATime /\ NoSelfTalk

\* Clients that quit with the word quit do the server no harm but for the
\* descriptor; it ends of itself only at its first accept, when the descriptors
\* are used up, or when the client it serves was killed before its answer.
EndsOnlyWhen ==
  [][server # "down" /\ server' = "down" /\ stops' = stops =>
       used \in {0, FdLimit} \/ client[client_fd] = "killed"]_vars

\* The descriptors of clients that have gone are never free again: after as many
\* clients as it has descriptors the server's next accept ends it.
EndsAtLimit == used = FdLimit /\ server = "accept" ~> server = "down"

\* Who asks is answered, or learns that nobody does, unless the server is kept
\* by a client that neither asks nor leaves.
Answered ==
  \A c \in Client :
    client[c] = "asking" ~>
      (client[c] # "asking" \/ \E d \in Client \ {c} : client_fd = d /\ client[d] = "typing")
=============================================================================
