----------------------------- MODULE FileClient -----------------------------
(***************************************************************************)
(* 26_file_server/file_cli, and the connections it makes.  One run of the  *)
(* client is one request: it opens its own file, sends the query, then     *)
(* sends its file or saves what comes back until the connection ends.      *)
(* A file is a sequence of blocks, each sent and received as a whole.      *)
(***************************************************************************)
EXTENDS Integers, FiniteSets, SequencesExt

CONSTANTS Client,   \* runs of the client
          Name,     \* names of files
          Server,   \* the origin of blocks the server had from the start
          OldSize,  \* the blocks of each file the server has
          Size,     \* the blocks of every client's own file
          Backlog,  \* the 5 of listen
          Room,     \* blocks a connection holds in each direction
          MaxKills  \* bound: clients the user interrupts

ASSUME FileAssumption ==
  /\ Server \notin Client
  /\ DOMAIN OldSize \subseteq Name /\ OldSize \in [DOMAIN OldSize -> Nat]
  /\ {Size, Backlog, Room} \subseteq Nat \ {0} /\ MaxKills \in Nat

Query == "query"
Blocks(origin, n) == [k \in 1..n |-> <<origin, k>>]
Mine(c) == Blocks(c, Size)

VARIABLES client,  \* "new", "open", "send", "recv"; "done", "failed", "killed"
          request, \* what each client asks for
          up,      \* what its connection carries to the server ...
          down,    \* ... and to the client
          sent,    \* blocks of its file it has sent
          got,     \* blocks it has received
          local,   \* its own file
          backlog  \* connections that wait for accept

clients == <<client, request, up, down, sent, got, local, backlog>>

NoRequest == [command |-> "none", name |-> "none"]
Request == {NoRequest} \cup [command : {"upload", "download"}, name : Name]
             \cup {[command |-> "list", name |-> "none"]}

ClientInit ==
  /\ client = [c \in Client |-> "new"]
  /\ request = [c \in Client |-> NoRequest]
  /\ up = [c \in Client |-> <<>>] /\ down = [c \in Client |-> <<>>]
  /\ sent = [c \in Client |-> 0] /\ got = [c \in Client |-> 0]
  /\ local = [c \in Client |-> Mine(c)]
  /\ backlog = <<>>

\* The process is over, and its end of the connection closed with it.
Ended(c) == client[c] \in {"done", "failed", "killed"}
Goto(c, state) == client' = [client EXCEPT ![c] = state]

\* The command line is read, connect succeeds.
Connect(c, listening) ==
  /\ client[c] = "new" /\ listening /\ Len(backlog) < Backlog
  /\ \E r \in Request : request' = [request EXCEPT ![c] = r]
  /\ backlog' = Append(backlog, c)
  /\ Goto(c, "open")
  /\ UNCHANGED <<up, down, sent, got, local>>

\* An unknown command: close at once.  Or the client's file cannot be opened:
\* nothing is sent, not even the query.
GiveUp(c) ==
  /\ client[c] = "open" /\ request[c].command # "list"
  /\ Goto(c, IF request[c] = NoRequest THEN "done" ELSE "failed")
  /\ UNCHANGED <<request, up, down, sent, got, local, backlog>>

\* send waits for room.  If the server has closed the connection what is sent is
\* lost, which the client learns from a later send, if at all.
Carried(c, data, served) ==
  /\ served => Len(up[c]) < Room
  /\ up' = IF served THEN [up EXCEPT ![c] = Append(@, data)] ELSE up

SendQuery(c, served) ==
  /\ client[c] = "open" /\ request[c] # NoRequest
  /\ Carried(c, Query, served)
  /\ Goto(c, IF request[c].command = "upload" THEN "send" ELSE "recv")
  /\ UNCHANGED <<request, down, sent, got, local, backlog>>

\* upload: read a block of the file, send it.
SendBlock(c, served) ==
  /\ client[c] = "send" /\ sent[c] < Size
  /\ Carried(c, Mine(c)[sent[c] + 1], served)
  /\ sent' = [sent EXCEPT ![c] = @ + 1]
  /\ UNCHANGED <<client, request, down, got, local, backlog>>

\* The server has closed the connection: SIGPIPE or an error of send.
SendFails(c, served) ==
  /\ \/ client[c] = "open" /\ request[c] # NoRequest
     \/ client[c] = "send" /\ sent[c] < Size
  /\ ~served
  /\ \E end \in {"failed", "killed"} : Goto(c, end)
  /\ UNCHANGED <<request, up, down, sent, got, local, backlog>>

\* What a file becomes when the blocks are written from its beginning on: it
\* is opened without O_TRUNC and keeps its tail.
Overlaid(old, new) ==
  [k \in 1 .. (IF Len(old) > Len(new) THEN Len(old) ELSE Len(new)) |->
     IF k <= Len(new) THEN new[k] ELSE old[k]]

\* download: write what comes to the file, at its own offset; get_list: to the
\* screen.
Receive(c) ==
  /\ client[c] = "recv" /\ down[c] # <<>>
  /\ down' = [down EXCEPT ![c] = Tail(@)]
  /\ got' = [got EXCEPT ![c] = @ + 1]
  /\ local' = IF request[c].command = "list" THEN local
              ELSE [local EXCEPT ![c] =
                      Overlaid(@, Append(SubSeq(@, 1, got[c]), Head(down[c])))]
  /\ UNCHANGED <<client, request, up, sent, backlog>>

\* The file cannot be written to: return -1.
ReceiveFails(c) ==
  /\ client[c] = "recv" /\ down[c] # <<>> /\ request[c].command = "download"
  /\ Goto(c, "failed")
  /\ UNCHANGED <<request, up, down, sent, got, local, backlog>>

\* The whole file is sent; or recv meets the end of the connection, whatever
\* its reason: return 1.
Finish(c, served) ==
  /\ \/ client[c] = "send" /\ sent[c] = Size
     \/ client[c] = "recv" /\ down[c] = <<>> /\ ~served
  /\ Goto(c, "done")
  /\ UNCHANGED <<request, up, down, sent, got, local, backlog>>

\* The user interrupts the client.
Kill(c) ==
  /\ client[c] \in {"open", "send", "recv"}
  /\ Cardinality({d \in Client : client[d] = "killed"}) < MaxKills
  /\ Goto(c, "killed")
  /\ UNCHANGED <<request, up, down, sent, got, local, backlog>>

ClientRuns(c, served) ==
  \/ GiveUp(c) \/ Receive(c)
  \/ SendQuery(c, served) \/ SendBlock(c, served) \/ SendFails(c, served)
  \/ Finish(c, served)

ClientTypeOK ==
  /\ client \in [Client -> {"new", "open", "send", "recv", "done", "failed", "killed"}]
  /\ request \in [Client -> Request]
  /\ sent \in [Client -> 0..Size] /\ got \in [Client -> Nat]
  /\ \A c \in Client : Len(up[c]) <= Room + 1 /\ Len(down[c]) <= Room
  /\ backlog \in Seq(Client) /\ IsInjective(backlog)
=============================================================================
