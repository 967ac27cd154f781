---------------------------- MODULE EchoServerOob ----------------------------
(***************************************************************************)
(* 12_recv_send/echo_server_oob: an echo server that serves one client and *)
(* prints the urgent byte it may send.  The loop that reads is never left, *)
(* and its buffer never cleared.  No client of the repository sends an     *)
(* urgent byte; Urgent stands for one that does, once.                     *)
(***************************************************************************)
EXTENDS EchoClient

CONSTANT NoClient \* nobody has been accepted yet

OobAssumption == NoClient \notin Client

VARIABLES pc,            \* "accept", "own", "read", "write" or "dead"
          client_sockfd, \* the connection behind it
          open,          \* ... which has not been closed yet
          buf,
          shrunk,        \* history: a read was shorter than one before it
          urgent,        \* what has become of each urgent byte, see Fate
          sigurg         \* SIGURG is pending

\* Not sent; sent while nobody is told; announced, but still on its way; come;
\* asked for in vain; printed.
Fate == {"none", "early", "noticed", "arrived", "missed", "shown"}

server == <<pc, client_sockfd, open, buf, shrunk>>
oob == <<urgent, sigurg>>
vars == <<net, server, oob>>

ServerInit ==
  /\ pc = "accept" /\ client_sockfd = NoClient /\ open = FALSE
  /\ buf = Zeroed /\ shrunk = FALSE
  /\ urgent = [c \in Client |-> "none"] /\ sigurg = FALSE

Init == NetInit /\ ServerInit

Gone(c) ==
  /\ c \notin Range(backlog)
  /\ c = client_sockfd => ~open

ClientReads(c) == ReadAnswer(c, Gone(c)) /\ UNCHANGED <<server, oob>>
UserActs(c) == (Connect(c, pc # "dead") \/ Ask(c) \/ HangUp(c)) /\ UNCHANGED <<server, oob>>

\* The kernel raises SIGURG for the connections that have an owner.
Owned(c) == c = client_sockfd /\ open /\ pc # "own"

\* A client sends its urgent byte.  The notice of it, which raises the signal,
\* may come ahead of the byte.
Urgent(c) ==
  /\ client[c] \in {"typing", "waiting"} /\ urgent[c] = "none" /\ ~Gone(c)
  /\ \E fate \in IF Owned(c) THEN {"noticed", "arrived"} ELSE {"early"} :
       urgent' = [urgent EXCEPT ![c] = fate]
  /\ sigurg' = (sigurg \/ Owned(c))
  /\ UNCHANGED <<net, server>>

\* The byte follows its notice; no second signal is raised.
UrgentByte(c) ==
  /\ urgent[c] = "noticed"
  /\ urgent' = [urgent EXCEPT ![c] = "arrived"]
  /\ UNCHANGED <<net, server, sigurg>>

\* What recv(MSG_OOB) may come to: the byte, EAGAIN while it is on its way, or
\* an error if the client has reset the connection.
Fetched(c) ==
  (IF urgent[c] = "arrived" THEN {"shown"} ELSE {"missed"})
    \cup (IF Closed(c) THEN {"missed"} ELSE {})

-----------------------------------------------------------------------------
Accept ==
  /\ pc = "accept" /\ backlog # <<>>
  /\ client_sockfd' = Head(backlog) /\ open' = TRUE
  /\ TakeNext
  /\ pc' = "own"
  /\ UNCHANGED <<buf, shrunk, oob>>

\* signal, fcntl(F_SETOWN).
Own ==
  /\ pc = "own" /\ pc' = "read"
  /\ UNCHANGED <<net, client_sockfd, open, buf, shrunk, oob>>

\* urg_handler runs before the program's next call.  It does not look at the
\* result of recv: if that failed it prints its uninitialised variable.
Handler ==
  /\ sigurg /\ sigurg' = FALSE
  /\ \E fate \in Fetched(client_sockfd) : urgent' = [urgent EXCEPT ![client_sockfd] = fate]
  /\ UNCHANGED <<net, server>>

Read ==
  /\ pc = "read" /\ open /\ ~sigurg
  /\ \E n \in 1..MaxLine :
       /\ Take(client_sockfd, n)
       /\ buf' = ReadInto(buf, client_sockfd, n)
       /\ shrunk' = (shrunk \/ n < SelectInSeq(buf, LAMBDA u : u = NUL) - 1)
  /\ pc' = "write"
  /\ UNCHANGED <<client_sockfd, open, oob>>

\* Mutated form of AfterEnd: break, as in the other servers.
Breaks == "accept"

\* continue, which is the inner loop's.
AfterEnd == "read"

\* read <= 0: the connection is closed and read again, for ever.
ReadEnd ==
  /\ pc = "read" /\ open /\ ~sigurg
  /\ Closed(client_sockfd) /\ toServer[client_sockfd] = <<>>
  /\ open' = FALSE
  /\ pc' = AfterEnd
  /\ UNCHANGED <<net, client_sockfd, buf, shrunk, oob>>

\* Mutated form of Text: MAXLINE bytes are written, as by the other servers.
AllOf(b) == b

\* strlen(buf)
Text(b) == UpToNul(b)

\* write <= 0, which it is when there is no text, closes the connection.
Write ==
  /\ pc = "write" /\ ~sigurg
  /\ Give(client_sockfd, Text(buf))
  /\ open' = (Text(buf) # <<>>)
  /\ pc' = "read"
  /\ UNCHANGED <<client_sockfd, buf, shrunk, oob>>

\* A write to a connection that the client has reset.
BrokenPipe ==
  /\ pc = "write" /\ ~sigurg /\ Closed(client_sockfd) /\ Text(buf) # <<>>
  /\ pc' = "dead" /\ open' = FALSE /\ backlog' = <<>>
  /\ UNCHANGED <<client, asked, toServer, answer, client_sockfd, buf, shrunk, oob>>

Serve == Accept \/ Own \/ Handler \/ Read \/ ReadEnd \/ Write

Next ==
  \/ Serve \/ BrokenPipe
  \/ \E c \in Client : ClientReads(c) \/ UserActs(c) \/ Urgent(c) \/ UrgentByte(c)

\* The programs run; a user need not act.
Fairness == WF_vars(Serve) /\ \A c \in Client : WF_vars(ClientReads(c))

Spec == Init /\ [][Next]_vars /\ Fairness

-----------------------------------------------------------------------------
\* Types of the variables.
TypeOK ==
  /\ NetTypeOK
  /\ pc \in {"accept", "own", "read", "write", "dead"}
  /\ client_sockfd \in Client \cup {NoClient}
  /\ {open, shrunk, sigurg} \subseteq BOOLEAN
  /\ buf \in [1..MaxLine -> (Client \X Nat) \cup {NUL}]
  /\ urgent \in [Client -> Fate]

\* The echo is exact unless a piece came that is shorter than one before it:
\* then the end of the longer one is sent once more, but nobody else's.
EchoUnlessShrunk ==
  \A c \in Client :
    /\ ~shrunk => IsPrefix(answer[c], asked[c])
    /\ Range(answer[c]) \subseteq Range(asked[c])

\* When the handler runs the connection is open and a byte nobody has asked for
\* is there or on its way: what it prints is uninitialised only if that byte is
\* late or the client has gone.
HandlerFinds == sigurg => open /\ urgent[client_sockfd] \in {"noticed", "arrived"}

Inv == TypeOK /\ EchoUnlessShrunk /\ HandlerFinds

\* Who has been accepted is the only one ever served: the others are connected
\* and wait as long as the server runs, after that client's end too.
FirstOnly ==
  [][client_sockfd # NoClient =>
       /\ client_sockfd' = client_sockfd
       /\ \A c \in Client \ {client_sockfd} :
            answer'[c] = answer[c] /\ (client'[c] = "closed" /\ client[c] # "closed" => pc = "dead")]_vars

\* Its line is answered, and the handler run for its urgent byte if the notice
\* comes after F_SETOWN.
Owed(c) ==
  /\ c = client_sockfd
  /\ \/ client[c] = "waiting" /\ answer[c] = <<>>
     \/ urgent[c] \in {"noticed", "arrived"}

FirstServed == \A c \in Client : Owed(c) ~> ~Owed(c)
=============================================================================
