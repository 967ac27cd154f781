------------------------------ MODULE PipeEcho ------------------------------
(***************************************************************************)
(* 11_IPC/echo_server_pipe and echo_client_pipe: two fifos that all open   *)
(* for reading and writing.  The server moves what clients write from one  *)
(* to the other; clients print `Server -> ' and their own line, and nobody *)
(* ever reads what the server has written.                                 *)
(***************************************************************************)
EXTENDS Naturals, FiniteSets

CONSTANTS Client,
          Capacity, \* lines of MAXLINE bytes a fifo holds
          MaxStops  \* bound: how often the server is stopped

PipeAssumption == Capacity \in Nat \ {0} /\ MaxStops \in Nat

VARIABLES made,    \* the server has made the fifos
          server,  \* "down", "read" or "write"
          client,  \* "none", "typing" or "write"
          myfifo_r, myfifo_w, \* lines in each fifo
          written, \* history: lines clients have written since all was closed
          dropped, \* history: of those, lines a stopped server had in its buffer
          stops

vars == <<made, server, client, myfifo_r, myfifo_w, written, dropped, stops>>

Init ==
  /\ made = FALSE /\ server = "down" /\ client = [c \in Client |-> "none"]
  /\ myfifo_r = 0 /\ myfifo_w = 0 /\ written = 0 /\ dropped = 0 /\ stops = 0

\* mkfifo keeps a fifo that is there.
StartServer ==
  /\ server = "down"
  /\ server' = "read" /\ made' = TRUE
  /\ UNCHANGED <<client, myfifo_r, myfifo_w, written, dropped, stops>>

\* The client's open needs the files; it never waits for another end.
StartClient(c) ==
  /\ client[c] = "none" /\ made
  /\ client' = [client EXCEPT ![c] = "typing"]
  /\ UNCHANGED <<made, server, myfifo_r, myfifo_w, written, dropped, stops>>

\* A line, or the end of the input, which is sent like one.
Type(c) ==
  /\ client[c] = "typing"
  /\ client' = [client EXCEPT ![c] = "write"]
  /\ UNCHANGED <<made, server, myfifo_r, myfifo_w, written, dropped, stops>>

\* Mutated form of Unread: the client reads the answer.
ReadBack == IF myfifo_w > 0 THEN myfifo_w - 1 ELSE 0

\* What the client leaves in myfifo_w, which it has open: everything.
Unread == myfifo_w

\* write blocks while the fifo is full; then the line is printed as the server's.
ClientWrite(c) ==
  /\ client[c] = "write" /\ myfifo_r < Capacity
  /\ myfifo_r' = myfifo_r + 1 /\ written' = written + 1
  /\ myfifo_w' = Unread
  /\ client' = [client EXCEPT ![c] = "typing"]
  /\ UNCHANGED <<made, server, dropped, stops>>

\* What a fifo holds is lost with the last process that has it open.
Closing(up, running) ==
  IF up \/ running # {}
    THEN UNCHANGED <<myfifo_r, myfifo_w, written>>
    ELSE myfifo_r' = 0 /\ myfifo_w' = 0 /\ written' = 0

Running == {c \in Client : client[c] # "none"}

\* quit, or an interrupt, also of a blocked write.
Quit(c) ==
  /\ client[c] # "none"
  /\ client' = [client EXCEPT ![c] = "none"]
  /\ Closing(server # "down", Running \ {c})
  /\ dropped' = IF written' = 0 THEN 0 ELSE dropped
  /\ UNCHANGED <<made, server, stops>>

\* Mutated form of Readable: the names of the fifos are swapped.
ReadsOwn == myfifo_w > 0

Readable == myfifo_r > 0

ServerRead ==
  /\ server = "read" /\ Readable
  /\ myfifo_r' = myfifo_r - 1
  /\ server' = "write"
  /\ UNCHANGED <<made, client, myfifo_w, written, dropped, stops>>

\* write, which blocks while the fifo is full; lseek on one fails, which nobody
\* looks at.
ServerWrite ==
  /\ server = "write" /\ myfifo_w < Capacity
  /\ myfifo_w' = myfifo_w + 1
  /\ server' = "read"
  /\ UNCHANGED <<made, client, myfifo_r, written, dropped, stops>>

StopServer ==
  /\ server # "down" /\ stops < MaxStops
  /\ stops' = stops + 1
  /\ server' = "down"
  /\ Closing(FALSE, Running)
  /\ dropped' = IF written' = 0 THEN 0 ELSE dropped + IF server = "write" THEN 1 ELSE 0
  /\ UNCHANGED <<made, client>>

ServerStep == ServerRead \/ ServerWrite

Next ==
  \/ StartServer \/ ServerStep \/ StopServer
  \/ \E c \in Client : StartClient(c) \/ Type(c) \/ ClientWrite(c) \/ Quit(c)

\* The programs run; users need not type.
Fairness == WF_vars(ServerStep) /\ \A c \in Client : WF_vars(ClientWrite(c))

Spec == Init /\ [][Next]_vars /\ Fairness

-----------------------------------------------------------------------------
\* Types of the variables: no fifo holds more than it can.
TypeOK ==
  /\ made \in BOOLEAN /\ server \in {"down", "read", "write"}
  /\ client \in [Client -> {"none", "typing", "write"}]
  /\ myfifo_r \in 0..Capacity /\ myfifo_w \in 0..Capacity
  /\ written \in Nat /\ dropped \in 0..stops

\* Every line written is in one of the fifos, in the server's buffer or dropped
\* with it; so two fifos and a buffer are all that clients can write before
\* everybody blocks, however long the programs run.
LinesAccounted ==
  /\ written = myfifo_r + myfifo_w + dropped + (IF server = "write" THEN 1 ELSE 0)
  /\ written <= 2 * Capacity + 1 + stops

Inv == TypeOK /\ LinesAccounted

\* A full myfifo_w stays full, and with it the server blocked or about to block,
\* until every process has closed it: restarting the server does not help.
FullForGood ==
  [][myfifo_w = Capacity => myfifo_w' = Capacity \/ (server' = "down" /\ Running' = {})]_vars

\* Short of that every client gets its prompt back.
PromptReturns ==
  \A c \in Client :
    client[c] = "write" ~> (client[c] # "write" \/ myfifo_w = Capacity \/ server = "down")
=============================================================================
