------------------------- MODULE EchoServerIterative -------------------------
(***************************************************************************)
(* 4_network/echo_server (server is the same program, its port an          *)
(* argument): one client after the other is accepted, read once, sent the  *)
(* whole buffer and closed.                                                *)
(***************************************************************************)
EXTENDS EchoClient

CONSTANT NoClient \* nobody is being served

IterativeAssumption == NoClient \notin Client

VARIABLES pc,            \* "accept", "read" or "write"
          client_sockfd, \* the connection being served
          buf

vars == <<net, pc, client_sockfd, buf>>

Init == NetInit /\ pc = "accept" /\ client_sockfd = NoClient /\ buf = Zeroed

Gone(c) == c # client_sockfd /\ c \notin Range(backlog)

server == <<pc, client_sockfd, buf>>

ClientReads(c) == ReadAnswer(c, Gone(c)) /\ UNCHANGED server

Types(c) == (Ask(c) \/ (HangUp(c) /\ client[c] = "typing")) /\ UNCHANGED server

UserActs(c) == (Connect(c, TRUE) \/ (HangUp(c) /\ client[c] = "waiting")) /\ UNCHANGED server

\* Mutated form of Cleared: the memset at the top of the loop is missing.
NotCleared(b) == b

\* memset(buf, 0x00, MAXBUF)
Cleared(b) == Zeroed

Accept ==
  /\ pc = "accept" /\ backlog # <<>>
  /\ buf' = Cleared(buf)
  /\ client_sockfd' = Head(backlog)
  /\ pc' = "read"
  /\ TakeNext

\* Mutated form of AfterRead: read on until the client closes, then answer.
ReadToEnd == "read"

AfterRead == "write"

\* read returns at most MAXBUF bytes, and may return fewer.
Read ==
  /\ pc = "read"
  /\ \E n \in 1..MaxLine :
       /\ Take(client_sockfd, n)
       /\ buf' = ReadInto(buf, client_sockfd, n)
  /\ pc' = AfterRead
  /\ UNCHANGED client_sockfd

\* Mutated form of AfterEnd: the continue is missing.
NoContinue == "write"

AfterEnd == "accept"

\* read returns 0 or fails: close, continue.
ReadEnd ==
  /\ pc = "read" /\ Closed(client_sockfd) /\ toServer[client_sockfd] = <<>>
  /\ pc' = AfterEnd /\ client_sockfd' = NoClient
  /\ UNCHANGED <<net, buf>>

\* write MAXBUF bytes, whatever was read, and close.
Write ==
  /\ pc = "write"
  /\ Give(client_sockfd, buf)
  /\ pc' = "accept" /\ client_sockfd' = NoClient
  /\ UNCHANGED buf

Serve == Accept \/ Read \/ ReadEnd \/ Write

Next == Serve \/ \E c \in Client : ClientReads(c) \/ Types(c) \/ UserActs(c)

\* The server runs; every user types in the end, or hangs up.
Fairness ==
  /\ WF_vars(Serve)
  /\ \A c \in Client : WF_vars(ClientReads(c)) /\ WF_vars(Types(c))

Spec == Init /\ [][Next]_vars /\ Fairness

-----------------------------------------------------------------------------
\* Types of the variables, and the server serves nobody it has not accepted.
TypeOK ==
  /\ NetTypeOK
  /\ pc \in {"accept", "read", "write"}
  /\ client_sockfd \in Client \cup {NoClient}
  /\ client_sockfd = NoClient <=> pc = "accept"
  /\ client_sockfd \notin Range(backlog)
  /\ buf \in Seq((Client \X Nat) \cup {NUL}) /\ Len(buf) = MaxLine

\* A client prints a string: of its answer all up to the zeros behind it.
Printed == [c \in Client |-> UpToNul(answer[c])]
Echo == INSTANCE EchoService WITH answer <- Printed

\* Cut anywhere by TCP and sharing one buffer, no client gets another's data.
ImplementsEcho == Echo!Spec

\* If every user types, everybody in the queue is answered: nobody behind a
\* slow user waits for ever.
AllServed ==
  \A c \in Client :
    c \in Range(backlog) ~> answer[c] # <<>> \/ client[c] = "left"
=============================================================================
