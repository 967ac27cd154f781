----------------------------- MODULE EchoClient -----------------------------
(***************************************************************************)
(* TCP_IP/echo_client (4_network/echo_client is the same program) and the  *)
(* TCP connections through which it reaches the echo servers.  The client  *)
(* connects, sends the line typed at the keyboard in a zeroed buffer of    *)
(* MAXLINE bytes, reads once and closes.  A line is LineLen units, the     *)
(* zeros behind it are one; TCP may cut and join what it carries anywhere. *)
(***************************************************************************)
EXTENDS Naturals, FiniteSets, SequencesExt

CONSTANTS Client,  \* clients, each with one connection
          NUL,     \* the zeros behind a line
          LineLen, \* units in a line
          Backlog  \* the 5 of listen

ASSUME ClientAssumption ==
  {LineLen, Backlog} \subseteq Nat \ {0} /\ NUL \notin Client \X (1..LineLen)

VARIABLES client,   \* what each client does
          asked,    \* the line it has sent
          toServer, \* what its connection still carries towards the server
          answer,   \* what the server has written to its connection
          backlog   \* connections that wait for accept

net == <<client, asked, toServer, answer, backlog>>

Line(c) == [i \in 1..LineLen |-> <<c, i>>]
MaxLine == LineLen + 1
Zeroed == [i \in 1..MaxLine |-> NUL]

NetInit ==
  /\ client = [c \in Client |-> "new"]
  /\ asked = [c \in Client |-> <<>>]
  /\ toServer = [c \in Client |-> <<>>]
  /\ answer = [c \in Client |-> <<>>]
  /\ backlog = <<>>

NetTypeOK ==
  /\ client \in [Client -> {"new", "typing", "waiting", "closed", "left"}]
  /\ asked \in [Client -> Seq(Client \X Nat)]
  /\ toServer \in [Client -> Seq((Client \X Nat) \cup {NUL})]
  /\ answer \in [Client -> Seq((Client \X Nat) \cup {NUL})]
  /\ backlog \in Seq(Client) /\ IsInjective(backlog)

\* connect: succeeds while somebody listens and the backlog has room.
Connect(c, listening) ==
  /\ client[c] = "new" /\ listening /\ Len(backlog) < Backlog
  /\ client' = [client EXCEPT ![c] = "typing"]
  /\ backlog' = Append(backlog, c)
  /\ UNCHANGED <<asked, toServer, answer>>

\* read the keyboard, write MAXLINE bytes.
Ask(c) ==
  /\ client[c] = "typing"
  /\ client' = [client EXCEPT ![c] = "waiting"]
  /\ asked' = [asked EXCEPT ![c] = Line(c)]
  /\ toServer' = [toServer EXCEPT ![c] = Append(Line(c), NUL)]
  /\ UNCHANGED <<answer, backlog>>

\* One read, which yields what has come or the end of the connection; close.
ReadAnswer(c, gone) ==
  /\ client[c] = "waiting" /\ (answer[c] # <<>> \/ gone)
  /\ client' = [client EXCEPT ![c] = "closed"]
  /\ UNCHANGED <<asked, toServer, answer, backlog>>

\* The user interrupts the client.
HangUp(c) ==
  /\ client[c] \in {"typing", "waiting"}
  /\ client' = [client EXCEPT ![c] = "left"]
  /\ UNCHANGED <<asked, toServer, answer, backlog>>

Closed(c) == client[c] \in {"closed", "left"}

-----------------------------------------------------------------------------
(* The server's end of a connection. *)

\* read takes n units off the connection ...
Take(c, n) ==
  /\ n \in 1..Len(toServer[c])
  /\ toServer' = [toServer EXCEPT ![c] = SubSeq(@, n + 1, Len(@))]
  /\ UNCHANGED <<client, asked, answer, backlog>>

\* ... to the front of the buffer b.
ReadInto(b, c, n) == SubSeq(toServer[c], 1, n) \o SubSeq(b, n + 1, MaxLine)

\* The first strlen(b) units of a buffer.
UpToNul(b) == SubSeq(b, 1, SelectInSeq(b, LAMBDA u : u = NUL) - 1)

\* write: what a closed client is sent is lost.
Give(c, data) ==
  /\ answer' = IF Closed(c) THEN answer ELSE [answer EXCEPT ![c] = @ \o data]
  /\ UNCHANGED <<client, asked, toServer, backlog>>

\* accept takes the first connection off the backlog.
TakeNext == backlog' = Tail(backlog) /\ UNCHANGED <<client, asked, toServer, answer>>
=============================================================================
