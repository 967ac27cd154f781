----------------------------- MODULE ChatClient -----------------------------
(***************************************************************************)
(* 17_epoll_siginfo/chat_linux_cli, and the connections, descriptors and   *)
(* message history of the chat servers it talks to.  The client sends what *)
(* the user types and shows what arrives, until either side closes.  Lines *)
(* are counted: the k-th line a client says is the k-th the server reads.  *)
(***************************************************************************)
EXTENDS Integers, FiniteSets, SequencesExt

CONSTANTS Client,   \* clients, each with one connection
          NoClient, \* a free descriptor
          Backlog,  \* the 5 of listen
          FdLimit,  \* connections the server can have open
          Room,     \* messages a connection holds before its client reads
          MaxLines, \* bound: lines a client says
          MaxQuits  \* bound: clients that leave

ASSUME ChatAssumption ==
  /\ NoClient \notin Client
  /\ {Backlog, FdLimit, Room} \subseteq Nat \ {0} /\ {MaxLines, MaxQuits} \subseteq Nat

VARIABLES client,    \* each client is "new", "in", has "left" or is "over"
          said,      \* lines it has sent
          seen,      \* messages it has shown
          backlog,   \* connections that wait for accept
          fdtab,     \* the connection behind each descriptor
          log, heard, joined, delivered \* the chat, as in ChatService

users == <<client, said, seen>>
chat == <<log, heard, joined, delivered>>
chatVars == <<users, backlog, fdtab, chat>>

Fd == 1..FdLimit
LowestFree == {fd \in Fd : /\ fdtab[fd] = NoClient
                           /\ \A lower \in 1 .. fd - 1 : fdtab[lower] # NoClient}

ChatInit ==
  /\ client = [c \in Client |-> "new"]
  /\ said = [c \in Client |-> 0] /\ seen = [c \in Client |-> 0]
  /\ backlog = <<>>
  /\ fdtab = [fd \in Fd |-> NoClient]
  /\ log = <<>>
  /\ heard = [c \in Client |-> 0]
  /\ joined = [c \in Client |-> -1]
  /\ delivered = [c \in Client |-> <<>>]

Unread(c) == said[c] - heard[c]
InFlight(c) == Len(delivered[c]) - seen[c]

Connect(c, listening) ==
  /\ client[c] = "new" /\ listening /\ Len(backlog) < Backlog
  /\ client' = [client EXCEPT ![c] = "in"]
  /\ backlog' = Append(backlog, c)
  /\ UNCHANGED <<said, seen, fdtab, chat>>

\* A line from the keyboard is written to the socket.
Say(c) ==
  /\ client[c] = "in" /\ said[c] < MaxLines
  /\ said' = [said EXCEPT ![c] = @ + 1]
  /\ UNCHANGED <<client, seen, backlog, fdtab, chat>>

\* What the socket has is written to the screen.
Show(c) ==
  /\ client[c] = "in" /\ InFlight(c) > 0
  /\ seen' = [seen EXCEPT ![c] = @ + 1]
  /\ UNCHANGED <<client, said, backlog, fdtab, chat>>

\* The user ends the client.
Quit(c) ==
  /\ client[c] = "in" /\ Cardinality({d \in Client : client[d] = "left"}) < MaxQuits
  /\ client' = [client EXCEPT ![c] = "left"]
  /\ UNCHANGED <<said, seen, backlog, fdtab, chat>>

\* read finds the connection closed by the server: return 1.
Ended(c) ==
  /\ client[c] = "in" /\ InFlight(c) = 0 /\ c \notin Range(backlog) \cup Range(fdtab)
  /\ client' = [client EXCEPT ![c] = "over"]
  /\ UNCHANGED <<said, seen, backlog, fdtab, chat>>

-----------------------------------------------------------------------------
(* The server's end. *)

\* accept: the first connection of the backlog gets the lowest descriptor.
Open(fd) ==
  /\ fd \in LowestFree /\ backlog # <<>>
  /\ fdtab' = [fdtab EXCEPT ![fd] = Head(backlog)]
  /\ backlog' = Tail(backlog)
  /\ joined' = [joined EXCEPT ![Head(backlog)] = Len(log)]
  /\ UNCHANGED <<users, log, heard, delivered>>

\* read: the next n lines, as one message.
Hear(c, n) ==
  /\ heard' = [heard EXCEPT ![c] = @ + n]
  /\ log' = Append(log, [from |-> c, first |-> heard[c] + 1, last |-> heard[c] + n])
  /\ UNCHANGED <<users, backlog, fdtab, joined, delivered>>

\* write to a client that is there.
Put(c) ==
  /\ client[c] = "in"
  /\ delivered' = [delivered EXCEPT ![c] = Append(@, Last(log))]
  /\ UNCHANGED <<users, backlog, fdtab, log, heard, joined>>

CloseFd(fd) == fdtab' = [fdtab EXCEPT ![fd] = NoClient] /\ UNCHANGED <<users, backlog, chat>>

\* The process ends: all its connections with it.
Collapse ==
  /\ fdtab' = [fd \in Fd |-> NoClient] /\ backlog' = <<>>
  /\ UNCHANGED <<users, chat>>

ChatTypeOK ==
  /\ client \in [Client -> {"new", "in", "left", "over"}]
  /\ said \in [Client -> 0..MaxLines]
  /\ \A c \in Client : heard[c] \in 0..said[c] /\ seen[c] \in 0..Len(delivered[c])
  /\ backlog \in Seq(Client) /\ IsInjective(backlog)
  /\ fdtab \in [Fd -> Client \cup {NoClient}]
  /\ joined \in [Client -> Int]

Service == INSTANCE ChatService
=============================================================================
