---------------------------- MODULE ChatServerRts ----------------------------
(***************************************************************************)
(* 17_epoll_siginfo/chat_server_rts: one thread takes real-time signals    *)
(* off a queue.  The kernel queues one per event on a socket that has an   *)
(* owner (F_SETOWN): a connection, data, an end of file, an error, room in *)
(* a connection that was full.  The signal names a descriptor, whatever it *)
(* stands for by the time the signal is taken.  All sockets are            *)
(* non-blocking.  The unread lines of a client fit the buffer.             *)
(***************************************************************************)
EXTENDS ChatClient

CONSTANT SigMax \* signals the queue holds

ASSUME RtsAssumption == SigMax \in Nat \ {0}

VARIABLES pc,       \* "listen", "wait", "setup" a new connection, "send", "dead"
          queue,    \* the queued signals' si_fd
          sigio,    \* did the queue overflow?  Then SIGIO is raised instead
          async,    \* descriptors whose events raise signals
          user_fds, \* descriptors the server believes connected
          sockfd,   \* the connection that is being set up
          i,        \* send_chat_msg's loop variable
          reset,    \* clients whose host has reset their connection
          full,     \* clients whose connection had no room for a message
          early,    \* history: lines said before the connection was set up
          lost      \* history: clients that lost a message

signals == <<queue, sigio>>
server == <<pc, async, user_fds, sockfd, i, reset, full, early, lost>>
vars == <<chatVars, signals, server>>

Listener == 0

Init ==
  /\ ChatInit
  /\ pc = "listen" /\ queue = <<>> /\ sigio = FALSE
  /\ async = {} /\ user_fds = {} /\ sockfd = Listener /\ i = 1
  /\ reset = {} /\ full = {} /\ lost = {}
  /\ early = [c \in Client |-> 0]

\* Mutated form of Owned: not a real-time signal, of which one at most is pending.
NotPending(fds) == (fds \cap async) \ Range(queue)

\* Those of the descriptors fds that have an owner.
Owned(fds) == fds \cap async

\* An event on the descriptors fds (at most one of them has an owner).
Raise(fds) ==
  IF Owned(fds) = {} THEN UNCHANGED signals
  ELSE IF Len(queue) < SigMax
    THEN \E fd \in Owned(fds) : queue' = Append(queue, fd) /\ UNCHANGED sigio
    ELSE sigio' = TRUE /\ UNCHANGED queue

FdsOf(c) == {fd \in Fd : fdtab[fd] = c}

UserActs(c) ==
  /\ \/ Connect(c, pc # "dead") /\ Raise({Listener})
     \/ (Say(c) \/ Quit(c)) /\ Raise(FdsOf(c))
  /\ UNCHANGED server

\* Reading makes room, which is an event where room was wanted.
ClientShows(c) ==
  /\ Show(c)
  /\ Raise(IF c \in full THEN FdsOf(c) ELSE {})
  /\ full' = full \ {c}
  /\ UNCHANGED <<pc, async, user_fds, sockfd, i, reset, early, lost>>

ClientEnds(c) == Ended(c) /\ UNCHANGED <<signals, server>>

-----------------------------------------------------------------------------
\* setup_sigio(listenfd), after listen: connections may have come before.
SetupListener ==
  /\ pc = "listen"
  /\ async' = {Listener} /\ pc' = "wait"
  /\ UNCHANGED <<chatVars, signals, user_fds, sockfd, i, reset, full, early, lost>>

\* sigwaitinfo returns with the first signal of the queue.
Taken(fd) == pc = "wait" /\ queue # <<>> /\ fd = Head(queue)

Dequeue == queue' = Tail(queue) /\ UNCHANGED sigio

\* The listener: accept ...
Accept ==
  /\ Taken(Listener) /\ Dequeue
  /\ \E fd \in LowestFree : Open(fd) /\ sockfd' = fd
  /\ pc' = "setup"
  /\ UNCHANGED <<async, user_fds, i, reset, full, early, lost>>

\* ... which fails when nobody waits or no descriptor is left; or takes the
\* connection and drops it, if addrlen, never initialised, is negative.
AcceptFails ==
  /\ Taken(Listener) /\ Dequeue
  /\ \/ (backlog = <<>> \/ LowestFree = {}) /\ UNCHANGED backlog
     \/ backlog # <<>> /\ LowestFree # {} /\ backlog' = Tail(backlog)
  /\ UNCHANGED <<users, fdtab, chat, server>>

\* setup_sigio(sockfd), user_fds[sockfd] = 1: data may have come before.
SetupConnection ==
  /\ pc = "setup"
  /\ async' = async \cup {sockfd} /\ user_fds' = user_fds \cup {sockfd}
  /\ early' = [early EXCEPT ![fdtab[sockfd]] = said[fdtab[sockfd]]]
  /\ pc' = "wait"
  /\ UNCHANGED <<chatVars, signals, sockfd, i, reset, full, lost>>

\* Mutated form of LinesRead: the buffer takes one line.
OneLine(c) == 1

LinesRead(c) == Unread(c)

\* A connection with data: read all of it, and start send_chat_msg.
Read(fd) ==
  /\ Taken(fd) /\ Dequeue /\ fdtab[fd] # NoClient /\ Unread(fdtab[fd]) > 0
  /\ Hear(fdtab[fd], LinesRead(fdtab[fd]))
  /\ i' = 1 /\ pc' = "send"
  /\ UNCHANGED <<async, user_fds, sockfd, reset, full, early, lost>>

\* Mutated form of Forgotten: user_fds[si_fd] = 0 is missing.
NotForgotten(fd) == {}

Forgotten(fd) == {fd}

\* read yields 0 or -1: the end of the connection, a descriptor that is closed
\* already, or no data at the moment (EAGAIN).  In each case it is closed.
Drop(fd) ==
  /\ Taken(fd) /\ Dequeue /\ (fdtab[fd] # NoClient => Unread(fdtab[fd]) = 0)
  /\ CloseFd(fd)
  /\ user_fds' = user_fds \ Forgotten(fd) /\ async' = async \ {fd}
  /\ UNCHANGED <<pc, sockfd, i, reset, full, early, lost>>

-----------------------------------------------------------------------------
(* send_chat_msg, with i running over all descriptors. *)

\* Mutated form of Recipient: the sender does not get its own message.
NotToSender(fd) == fd \in user_fds /\ fdtab[fd] # Last(log).from

Recipient(fd) == fd \in user_fds

Sending == pc = "send" /\ i \in Fd /\ Recipient(i)

SendWrite ==
  /\ Sending /\ InFlight(fdtab[i]) < Room
  /\ Put(fdtab[i])
  /\ i' = i + 1
  /\ UNCHANGED <<signals, pc, async, user_fds, sockfd, reset, full, early, lost>>

\* No room: EAGAIN, which nobody looks at.
SendFull ==
  /\ Sending /\ client[fdtab[i]] = "in" /\ InFlight(fdtab[i]) >= Room
  /\ full' = full \cup {fdtab[i]} /\ lost' = lost \cup {fdtab[i]}
  /\ i' = i + 1
  /\ UNCHANGED <<chatVars, signals, pc, async, user_fds, sockfd, reset, early>>

\* The client has left: its host answers with a reset, an event on the socket.
SendLost ==
  /\ Sending /\ client[fdtab[i]] = "left"
  /\ reset' = reset \cup {fdtab[i]}
  /\ Raise(IF fdtab[i] \in reset THEN {} ELSE {i})
  /\ i' = i + 1
  /\ UNCHANGED <<chatVars, pc, async, user_fds, sockfd, full, early, lost>>

SendSkip ==
  /\ pc = "send" /\ i \in Fd /\ ~Recipient(i)
  /\ i' = i + 1
  /\ UNCHANGED <<chatVars, signals, pc, async, user_fds, sockfd, reset, full, early, lost>>

SendEnd ==
  /\ pc = "send" /\ i > FdLimit
  /\ pc' = "wait"
  /\ UNCHANGED <<chatVars, signals, async, user_fds, sockfd, i, reset, full, early, lost>>

\* A write after the reset raises SIGPIPE; an overflow of the queue SIGIO.
Dies ==
  /\ pc # "dead"
  /\ \/ sigio
     \/ /\ Sending /\ client[fdtab[i]] = "left"
        /\ fdtab[i] \in reset \/ InFlight(fdtab[i]) > 0
  /\ pc' = "dead" /\ async' = {}
  /\ Collapse
  /\ UNCHANGED <<signals, user_fds, sockfd, i, reset, full, early, lost>>

ServerStep ==
  \/ SetupListener \/ Accept \/ SetupConnection
  \/ SendWrite \/ SendFull \/ SendLost \/ SendSkip \/ SendEnd
  \/ \E fd \in Fd : Read(fd) \/ Drop(fd)

Next ==
  \/ ServerStep \/ AcceptFails \/ Dies
  \/ \E c \in Client : UserActs(c) \/ ClientShows(c) \/ ClientEnds(c)

\* The server runs, and every client shows what arrives; nobody need type.
Fairness ==
  /\ WF_vars(ServerStep \/ AcceptFails)
  /\ \A c \in Client : WF_vars(ClientShows(c)) /\ WF_vars(ClientEnds(c))

Spec == Init /\ [][Next]_vars /\ Fairness

-----------------------------------------------------------------------------
\* Types of the variables.
TypeOK ==
  /\ ChatTypeOK
  /\ pc \in {"listen", "wait", "setup", "send", "dead"}
  /\ queue \in Seq(Fd \cup {Listener}) /\ Len(queue) <= SigMax
  /\ sigio \in BOOLEAN
  /\ async \subseteq Fd \cup {Listener} /\ user_fds \subseteq Fd
  /\ sockfd \in Fd \cup {Listener} /\ i \in 1 .. FdLimit + 1
  /\ {reset, full, lost} \subseteq SUBSET Client
  /\ early \in [Client -> 0..MaxLines]

\* Stale signals for reused descriptors, second closes and failed accepts
\* notwithstanding, user_fds is exactly the set of open connections, each of
\* them with an owner, apart from the one that is being set up.
RegistriesAgree ==
  pc # "dead" =>
    /\ user_fds = {fd \in Fd : fdtab[fd] # NoClient} \ (IF pc = "setup" THEN {sockfd} ELSE {})
    /\ async = user_fds \cup (IF pc = "listen" THEN {} ELSE {Listener})

\* The server depends on the queue alone: as soon as a connection has been set
\* up, a line said on it and not read yet still has a signal in the queue,
\* however many reads took several lines for one signal.
NoForgottenLine ==
  pc # "dead" /\ ~sigio =>
    \A fd \in user_fds :
      LET c == fdtab[fd]
      IN  Unread(c) > 0 /\ said[c] > early[c] => fd \in Range(queue)

\* Every client gets messages in the order of the log, none twice and none
\* from before its arrival; and without gaps, unless a write found its
\* connection full.
Position(m) == CHOOSE n \in DOMAIN log : log[n] = m

InOrder ==
  \A c \in Client : \A n \in DOMAIN delivered[c] :
    LET before == IF n = 1 THEN joined[c] ELSE Position(delivered[c][n - 1])
        here == Position(delivered[c][n])
    IN  IF c \in lost THEN here > before ELSE here = before + 1

Inv == TypeOK /\ RegistriesAgree /\ NoForgottenLine /\ InOrder

\* A line said on a connection that has been set up is read in the end, or
\* the connection closed, if the queue does not overflow.
SetUpIsHeard ==
  \A fd \in Fd : \A c \in Client : \A n \in 1..MaxLines :
    fd \in user_fds /\ fdtab[fd] = c /\ said[c] >= n /\ n > early[c] ~>
      heard[c] >= n \/ fdtab[fd] # c \/ sigio

\* Connections that wait without a signal that would have them accepted.
Missed == Len(backlog) - Cardinality({n \in DOMAIN queue : queue[n] = Listener})

\* A connection that comes before setup_sigio(listenfd), or whose signal found no
\* descriptor free, is never made up for: a later signal accepts the oldest
\* connection, and one waits in its place for ever.  No other is missed.
NeverCaughtUp ==
  [][pc' # "dead" /\ ~sigio' =>
       /\ Missed' >= Missed
       /\ Missed' > Missed => pc = "listen" \/ LowestFree = {}]_vars

\* "A signal raised by a connection: send_chat_msg delivers the message to all
\* clients": no signal from a client that is there does anything else.
SignalMeansMessage ==
  [][\A fd \in user_fds :
       Taken(fd) /\ client[fdtab[fd]] = "in" /\ queue' = Tail(queue) => pc' = "send"]_vars
=============================================================================
