--------------------------- MODULE ChatServerEpoll ---------------------------
(***************************************************************************)
(* 17_epoll_siginfo/chat_cil: one thread takes batches of events from      *)
(* epoll_wait, accepts, reads, and writes each message to every connected  *)
(* client in the order of descriptors, with blocking writes.               *)
(***************************************************************************)
EXTENDS ChatClient

CONSTANTS Listen,        \* the event of the listening socket
          MaxInterrupts  \* bound: calls of epoll_wait that a signal interrupts

ASSUME EpollAssumption == Listen \notin Client /\ MaxInterrupts \in Nat

VARIABLES pc,        \* "wait" for events, handle an "event", "send", or "dead"
          batch,     \* events of the batch not handled yet
          user_fds,  \* the descriptors the server believes connected
          interest,  \* clients in the event pool
          user_data, \* the fd member of every allocated udata
          i,         \* send_msg's loop variable
          reset      \* clients whose host has reset their connection

server == <<pc, batch, user_fds, interest, user_data, i, reset>>
vars == <<chatVars, server>>

Init ==
  /\ ChatInit
  /\ pc = "wait" /\ batch = {} /\ i = 1
  /\ user_fds = {} /\ interest = {} /\ reset = {}
  /\ user_data = <<>>

UserActs(c) ==
  /\ Connect(c, pc # "dead") \/ Say(c) \/ Quit(c)
  /\ UNCHANGED server

ClientRuns(c) == (Show(c) \/ Ended(c)) /\ UNCHANGED server

Readable(c) == Unread(c) > 0 \/ client[c] = "left"

\* What epoll reports: it is level-triggered.
Ready == {c \in interest : Readable(c)} \cup (IF backlog # <<>> THEN {Listen} ELSE {})

EpollWait ==
  /\ pc = "wait" /\ Ready # {}
  /\ batch' = Ready /\ pc' = "event"
  /\ UNCHANGED <<chatVars, user_fds, interest, user_data, i, reset>>

\* EINTR after a stop and continue: return 1.
Interrupted ==
  /\ pc = "wait" /\ MaxInterrupts > 0
  /\ pc' = "dead"
  /\ Collapse
  /\ UNCHANGED <<batch, user_fds, interest, user_data, i, reset>>

\* The loop goes on with the rest of the batch, then with epoll_wait.
Done(e) == batch' = batch \ {e} /\ pc' = IF batch' = {} THEN "wait" ELSE "event"

\* Mutated form of Added: epoll_ctl(EPOLL_CTL_ADD) is missing.
NotAdded(c) == {}

Added(c) == {c}

\* The listening socket: accept, remember the descriptor, add it to the pool.
Accept ==
  /\ pc = "event" /\ Listen \in batch
  /\ \E fd \in LowestFree :
       /\ Open(fd)
       /\ user_fds' = user_fds \cup {fd}
       /\ interest' = interest \cup Added(Head(backlog))
       /\ user_data' = [c \in DOMAIN user_data \cup {Head(backlog)} |->
                          IF c = Head(backlog) THEN fd ELSE user_data[c]]
  /\ Done(Listen)
  /\ UNCHANGED <<i, reset>>

\* No descriptor is left: nobody looks at the -1, which reaches user_fds[-1],
\* the padding before the array, and an udata that is never used.
AcceptFails ==
  /\ pc = "event" /\ Listen \in batch /\ LowestFree = {}
  /\ Done(Listen)
  /\ UNCHANGED <<chatVars, user_fds, interest, user_data, i, reset>>

\* A connection with data: read it, and start send_msg.
Read(c) ==
  /\ pc = "event" /\ c \in batch \ {Listen}
  /\ \E n \in 1..Unread(c) : Hear(fdtab[user_data[c]], n)
  /\ i' = 1 /\ pc' = "send" /\ batch' = batch \ {c}
  /\ UNCHANGED <<user_fds, interest, user_data, reset>>

\* Mutated form of Forgotten: user_fds[fd] = -1 is missing.
NotForgotten(fd) == {}

Forgotten(fd) == {fd}

\* The end of a connection: out of the pool, close, forget it, free.
Drop(c) ==
  /\ pc = "event" /\ c \in batch \ {Listen} /\ Unread(c) = 0 /\ client[c] = "left"
  /\ interest' = interest \ {c}
  /\ CloseFd(user_data[c])
  /\ user_fds' = user_fds \ Forgotten(user_data[c])
  /\ user_data' = [d \in DOMAIN user_data \ {c} |-> user_data[d]]
  /\ Done(c)
  /\ UNCHANGED <<i, reset>>

-----------------------------------------------------------------------------
(* send_msg, with i running over all descriptors. *)

\* Mutated form of Recipient: the sender does not get its own message.
NotToSender(fd) == fd \in user_fds /\ fdtab[fd] # Last(log).from

Recipient(fd) == fd \in user_fds

\* Mutated form of LastFd: i <= 1024 has become i < 1023.
LastButOne == FdLimit - 1

LastFd == FdLimit

Sending == pc = "send" /\ i <= LastFd /\ Recipient(i)

\* write blocks while the connection is full.
SendWrite ==
  /\ Sending /\ InFlight(fdtab[i]) < Room
  /\ Put(fdtab[i])
  /\ i' = i + 1
  /\ UNCHANGED <<pc, batch, user_fds, interest, user_data, reset>>

\* The client has left: its host answers the write with a reset.
SendLost ==
  /\ Sending /\ client[fdtab[i]] = "left"
  /\ reset' = reset \cup {fdtab[i]}
  /\ i' = i + 1
  /\ UNCHANGED <<chatVars, pc, batch, user_fds, interest, user_data>>

\* A write after the reset (or after the client left with messages unread)
\* raises SIGPIPE, which nobody handles.
BrokenPipe ==
  /\ Sending /\ client[fdtab[i]] = "left"
  /\ fdtab[i] \in reset \/ InFlight(fdtab[i]) > 0
  /\ pc' = "dead"
  /\ Collapse
  /\ UNCHANGED <<batch, user_fds, interest, user_data, i, reset>>

SendSkip ==
  /\ pc = "send" /\ i <= LastFd /\ ~Recipient(i)
  /\ i' = i + 1
  /\ UNCHANGED <<chatVars, pc, batch, user_fds, interest, user_data, reset>>

SendEnd ==
  /\ pc = "send" /\ i > LastFd
  /\ pc' = IF batch = {} THEN "wait" ELSE "event"
  /\ UNCHANGED <<chatVars, batch, user_fds, interest, user_data, i, reset>>

ServerStep ==
  \/ EpollWait \/ Accept \/ AcceptFails \/ SendWrite \/ SendLost \/ SendSkip \/ SendEnd
  \/ \E c \in Client : Read(c) \/ Drop(c)

Next ==
  \/ ServerStep \/ Interrupted \/ BrokenPipe
  \/ \E c \in Client : UserActs(c) \/ ClientRuns(c)

\* The server runs, and every client shows what arrives; nobody need type.
Fairness == WF_vars(ServerStep) /\ \A c \in Client : WF_vars(ClientRuns(c))

Spec == Init /\ [][Next]_vars /\ Fairness

-----------------------------------------------------------------------------
\* Types of the variables.
TypeOK ==
  /\ ChatTypeOK
  /\ pc \in {"wait", "event", "send", "dead"}
  /\ batch \subseteq Client \cup {Listen}
  /\ user_fds \subseteq Fd /\ interest \subseteq Client /\ reset \subseteq Client
  /\ user_data \in [DOMAIN user_data -> Fd] /\ DOMAIN user_data \subseteq Client
  /\ i \in 1 .. FdLimit + 1

\* The four records of who is connected agree between any two handlers: the
\* table of descriptors, user_fds, the pool and the allocated udata.
RegistriesAgree ==
  pc # "dead" =>
    /\ user_fds = {fd \in Fd : fdtab[fd] # NoClient}
    /\ interest = DOMAIN user_data
    /\ \A c \in interest : fdtab[user_data[c]] = c
    /\ \A fd \in user_fds : fdtab[fd] \in interest

\* No event of a batch goes stale before its turn, although the events before
\* it accept and close: its udata is still allocated and the read and the
\* accept it calls for will not block the only thread.
NoStaleEvent ==
  pc # "dead" =>
    /\ \A c \in batch \ {Listen} : c \in DOMAIN user_data /\ Readable(c)
    /\ Listen \in batch => backlog # <<>>

Inv == TypeOK /\ RegistriesAgree /\ NoStaleEvent

\* Every client gets the log, from its arrival on, in order and without gaps.
ImplementsChat == Service!Spec

\* "The server sends the message to all clients connected at the moment" (and
\* send_msg, "sends the data read to all connected clients"): a client that
\* was there when a message was read gets it, unless it leaves itself.
AllReceive ==
  \A c \in Client : \A n \in 1 .. MaxLines * Cardinality(Client) :
    joined[c] \in 0 .. n - 1 /\ n <= Len(log) ~>
      joined[c] + Len(delivered[c]) >= n \/ client[c] = "left"

\* The same as long as the server lives: full connections, departures and
\* descriptors that close and are reused keep no message from anybody; and every
\* line a connected client says is read in the end, even if it has left meanwhile.
AllServedWhileUp ==
  \A c \in Client :
    /\ \A n \in 1 .. MaxLines * Cardinality(Client) :
         joined[c] \in 0 .. n - 1 /\ n <= Len(log) ~>
           joined[c] + Len(delivered[c]) >= n \/ client[c] = "left" \/ pc = "dead"
    /\ \A n \in 1..MaxLines :
         joined[c] # -1 /\ said[c] >= n ~> heard[c] >= n \/ pc = "dead"
=============================================================================
