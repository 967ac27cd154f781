------------------------ MODULE ChatServerEpollProofs ------------------------
(***************************************************************************)
(* Proofs about ChatServerEpoll, for any clients, descriptors and bounds.  *)
(* Inv is inductive together with where each client is (Whereabouts), what *)
(* a client that is not accepted yet has received (Arrivals), and how far  *)
(* the message being sent has come (InStep).  InStep is also why the       *)
(* server, which only ever writes the last message, implements the chat.   *)
(***************************************************************************)
EXTENDS ChatServerEpoll, QueueLemmas

Message == [from : Client, first : Nat, last : Nat]

\* Types that Inv leaves open: how long the log and its copies are.
HistoryOK ==
  /\ heard \in [Client -> Nat] /\ seen \in [Client -> Nat]
  /\ log \in Seq(Message)
  /\ delivered \in [Client -> Seq(Message)]

\* A client is new, in the backlog, or behind one descriptor, the one its udata
\* names; a server that is dead has no connection.
Whereabouts ==
  /\ \A c \in Client : client[c] = "new" => c \notin Range(backlog) \cup Range(fdtab)
  /\ Range(backlog) \cap Range(fdtab) = {}
  /\ \A fd \in user_fds : pc # "dead" => user_data[fdtab[fd]] = fd
  /\ pc = "dead" => backlog = <<>> /\ \A fd \in Fd : fdtab[fd] = NoClient

\* A client that has not been accepted has been sent nothing.
Arrivals ==
  /\ \A c \in Client :
       client[c] = "new" \/ c \in Range(backlog) => joined[c] = -1 /\ delivered[c] = <<>>
  /\ \A c \in Client : c \in Range(fdtab) => joined[c] \in Nat

\* While message Len(log) is sent, the clients at descriptor i and above still
\* miss it; every other connected client has the whole log from its arrival on.
Missing(fd) == IF pc = "send" /\ fd >= i THEN 1 ELSE 0

InStep ==
  /\ \A fd \in Fd :
       fdtab[fd] \in Client /\ client[fdtab[fd]] = "in" =>
         joined[fdtab[fd]] + Len(delivered[fdtab[fd]]) + Missing(fd) = Len(log)
  /\ pc = "send" => log # <<>>

IInv == Inv /\ HistoryOK /\ Whereabouts /\ Arrivals /\ InStep

\* Nobody has come, nothing has been said.
LEMMA InitIInv == Init => IInv
<1> SUFFICES ASSUME Init PROVE IInv
  OBVIOUS
<1> USE ChatAssumption, EpollAssumption DEF Init, ChatInit
<1>1. Range(backlog) = {} /\ Range(fdtab) \subseteq {NoClient}
  BY DEF Range
<1>2. ChatTypeOK
  BY DEF ChatTypeOK, IsInjective
<1>3. TypeOK
  BY <1>2 DEF TypeOK
<1>4. RegistriesAgree /\ NoStaleEvent
  BY DEF RegistriesAgree, NoStaleEvent
<1>5. HistoryOK
  BY DEF HistoryOK
<1>6. Whereabouts
  BY <1>1 DEF Whereabouts
<1>7. Arrivals
  BY <1>1 DEF Arrivals
<1>8. InStep
  BY DEF InStep
<1> QED
  BY <1>3, <1>4, <1>5, <1>6, <1>7, <1>8 DEF IInv, Inv

\* A client connects: it joins the backlog.
LEMMA ConnectIInv ==
  ASSUME IInv, NEW c \in Client, Connect(c, pc # "dead"), UNCHANGED server PROVE IInv'
<1> USE ChatAssumption, EpollAssumption DEF IInv, Inv, Connect, server, chat
<1>1. c \notin Range(backlog) /\ c \notin Range(fdtab) /\ backlog \in Seq(Client) /\ IsInjective(backlog)
  BY DEF Whereabouts, TypeOK, ChatTypeOK
<1>2. /\ backlog' \in Seq(Client) /\ IsInjective(backlog')
      /\ Range(backlog') = Range(backlog) \cup {c}
  BY <1>1, QueueAppend
<1>3. TypeOK'
  BY <1>2 DEF TypeOK, ChatTypeOK
<1>4. RegistriesAgree'
  BY DEF RegistriesAgree
<1>5. NoStaleEvent'
  <2>1. \A d \in Client : Readable(d) => Readable(d)'
    BY DEF Readable, Unread, TypeOK, ChatTypeOK
  <2>2. backlog' # <<>>
    BY <1>1
  <2> QED
    BY <2>1, <2>2 DEF NoStaleEvent, TypeOK
<1>6. HistoryOK'
  BY DEF HistoryOK
<1>7. Whereabouts'
  BY <1>1, <1>2 DEF Whereabouts, TypeOK, ChatTypeOK
<1>8. Arrivals'
  BY <1>1, <1>2 DEF Arrivals, TypeOK, ChatTypeOK
<1>9. InStep'
  BY <1>1 DEF InStep, Missing, TypeOK, ChatTypeOK, Range
<1> QED
  BY <1>3, <1>4, <1>5, <1>6, <1>7, <1>8, <1>9

\* Steps of a client that the server does not see.
LEMMA UserIInv ==
  ASSUME IInv, NEW c \in Client, Say(c) \/ Show(c) \/ Quit(c) \/ Ended(c), UNCHANGED server
  PROVE  IInv'
<1> USE ChatAssumption, EpollAssumption DEF IInv, Inv
<1>1. UNCHANGED <<backlog, fdtab, log, heard, joined, delivered,
                  pc, batch, user_fds, interest, user_data, i, reset>>
  BY DEF Say, Show, Quit, Ended, chat, server
<1>2. /\ client \in [Client -> {"new", "in", "left", "over"}] /\ said \in [Client -> 0..MaxLines]
      /\ seen \in [Client -> Nat] /\ MaxLines \in Nat
      /\ \A d \in Client : heard[d] \in 0..said[d] /\ seen[d] \in 0..Len(delivered[d])
  BY DEF TypeOK, ChatTypeOK, HistoryOK
<1>3. \/ UNCHANGED <<client, seen>> /\ said[c] < MaxLines /\ said' = [said EXCEPT ![c] = @ + 1]
      \/ UNCHANGED <<client, said>> /\ Len(delivered[c]) - seen[c] > 0
           /\ seen' = [seen EXCEPT ![c] = @ + 1]
      \/ UNCHANGED <<said, seen>> /\ client[c] = "in" /\ client' = [client EXCEPT ![c] = "left"]
      \/ UNCHANGED <<said, seen>> /\ client[c] = "in" /\ client' = [client EXCEPT ![c] = "over"]
           /\ c \notin Range(fdtab)
  BY DEF Say, Show, Quit, Ended, InFlight
<1>4. /\ client' \in [Client -> {"new", "in", "left", "over"}]
      /\ \A d \in Client : client'[d] = "new" => client[d] = "new"
      /\ \A d \in Client : client'[d] = "in" => client[d] = "in"
      /\ \A d \in Client : client[d] = "left" => client'[d] = "left"
  BY <1>2, <1>3
<1>5. said' \in [Client -> 0..MaxLines] /\ \A d \in Client : said'[d] >= said[d]
  <2>1. said' = said \/ (said[c] < MaxLines /\ said' = [said EXCEPT ![c] = @ + 1])
    BY <1>3
  <2>2. said \in [Client -> 0..MaxLines] /\ MaxLines \in Nat
    BY <1>2
  <2> HIDE DEF IInv, Inv
  <2> QED
    BY <2>1, <2>2
<1>6. seen' \in [Client -> Nat]
  BY <1>2, <1>3
<1>7. ASSUME NEW d \in Client PROVE heard'[d] \in 0..said'[d] /\ seen'[d] \in 0..Len(delivered'[d])
  <2>1. heard'[d] \in 0..said'[d]
    BY <1>1, <1>2, <1>5
  <2>2. Len(delivered[d]) \in Nat
    BY DEF HistoryOK
  <2>3. seen[d] \in 0..Len(delivered[d])
    BY <1>2
  <2>4. \/ seen'[d] = seen[d]
        \/ seen'[d] = seen[d] + 1 /\ Len(delivered[d]) - seen[d] > 0
    BY <1>2, <1>3
  <2> QED
    BY <1>1, <2>1, <2>2, <2>3, <2>4
<1>8. TypeOK'
  BY <1>1, <1>4, <1>5, <1>7 DEF TypeOK, ChatTypeOK
<1>9. RegistriesAgree'
  BY <1>1 DEF RegistriesAgree
<1>10. NoStaleEvent'
  BY <1>1, <1>2, <1>4, <1>5 DEF NoStaleEvent, Readable, Unread, TypeOK
<1>11. HistoryOK'
  BY <1>1, <1>6 DEF HistoryOK
<1>12. Whereabouts'
  BY <1>1, <1>4 DEF Whereabouts
<1>13. Arrivals'
  BY <1>1, <1>4 DEF Arrivals
<1>14. InStep'
  BY <1>1, <1>4 DEF InStep, Missing
<1> QED
  BY <1>8, <1>9, <1>10, <1>11, <1>12, <1>13, <1>14

\* The server takes a batch of events, skips a free descriptor, a client that
\* has left, a connection it cannot accept, or reaches the end of send_msg.
LEMMA LoopIInv ==
  ASSUME IInv, EpollWait \/ AcceptFails \/ SendSkip \/ SendLost \/ SendEnd PROVE IInv'
<1> USE ChatAssumption, EpollAssumption DEF IInv, Inv, chatVars, users, chat
<1>1. UNCHANGED <<client, said, seen, backlog, fdtab, log, heard, joined, delivered,
                  user_fds, interest, user_data>>
  BY DEF EpollWait, AcceptFails, SendSkip, SendLost, SendEnd
<1>2. TypeOK'
  <2>1. ChatTypeOK'
    BY <1>1 DEF TypeOK, ChatTypeOK
  <2>2. batch' \subseteq Client \cup {Listen} /\ pc' \in {"wait", "event", "send", "dead"}
    BY DEF EpollWait, AcceptFails, SendSkip, SendLost, SendEnd, TypeOK, Done, Ready
  <2>3. i' \in 1 .. FdLimit + 1
    BY DEF EpollWait, AcceptFails, SendSkip, SendLost, SendEnd, TypeOK, Sending, LastFd
  <2>4. reset' \subseteq Client
    BY DEF EpollWait, AcceptFails, SendSkip, SendLost, SendEnd, TypeOK, ChatTypeOK, Sending,
           Recipient, RegistriesAgree
  <2> QED
    BY <1>1, <2>1, <2>2, <2>3, <2>4 DEF TypeOK
<1>3. pc # "dead" /\ pc' # "dead"
  BY DEF EpollWait, AcceptFails, SendSkip, SendLost, SendEnd, Done, Sending
<1>4. RegistriesAgree'
  BY <1>1, <1>3 DEF RegistriesAgree
<1>5. NoStaleEvent'
  <2>1. \A c \in Client : Readable(c)' <=> Readable(c)
    BY <1>1 DEF Readable, Unread
  <2>2. CASE EpollWait
    BY <1>1, <1>3, <2>1, <2>2 DEF EpollWait, NoStaleEvent, Ready, RegistriesAgree, TypeOK
  <2>3. CASE AcceptFails \/ SendSkip \/ SendLost \/ SendEnd
    <3>1. batch' \subseteq batch /\ batch \subseteq Client \cup {Listen}
      BY <2>3 DEF AcceptFails, SendSkip, SendLost, SendEnd, Done, TypeOK
    <3> QED
      BY <1>1, <1>3, <2>1, <3>1 DEF NoStaleEvent
  <2> QED
    BY <2>2, <2>3
<1>6. HistoryOK'
  BY <1>1 DEF HistoryOK
<1>7. Whereabouts'
  BY <1>1, <1>3 DEF Whereabouts
<1>8. Arrivals'
  BY <1>1 DEF Arrivals
<1>9. InStep'
  <2>1. CASE EpollWait \/ AcceptFails
    BY <1>1, <2>1 DEF EpollWait, AcceptFails, InStep, Missing, Done
  <2>2. CASE SendSkip
    BY <1>1, <2>2 DEF SendSkip, InStep, Missing, Recipient, RegistriesAgree, TypeOK, ChatTypeOK, Fd
  <2>3. CASE SendLost
    BY SMTT(30), <1>1, <2>3 DEF SendLost, Sending, InStep, Missing, TypeOK, ChatTypeOK, Fd
  <2>4. CASE SendEnd
    BY <1>1, <2>4 DEF SendEnd, LastFd, InStep, Missing, TypeOK, ChatTypeOK, Fd
  <2> QED
    BY <2>1, <2>2, <2>3, <2>4
<1> QED
  BY <1>2, <1>4, <1>5, <1>6, <1>7, <1>8, <1>9

\* The server dies of a signal.
LEMMA DieIInv ==
  ASSUME IInv, Interrupted \/ BrokenPipe PROVE IInv'
<1> USE ChatAssumption, EpollAssumption DEF IInv, Inv, Interrupted, BrokenPipe, Collapse, users, chat
<1>1. /\ pc' = "dead" /\ backlog' = <<>> /\ fdtab' = [fd \in Fd |-> NoClient]
      /\ UNCHANGED <<users, chat, batch, user_fds, interest, user_data, i, reset>>
  OBVIOUS
<1>2. Range(backlog') = {} /\ Range(fdtab') \subseteq {NoClient}
  BY <1>1 DEF Range
<1>3. TypeOK'
  BY <1>1 DEF TypeOK, ChatTypeOK, IsInjective
<1>4. RegistriesAgree' /\ NoStaleEvent'
  BY <1>1 DEF RegistriesAgree, NoStaleEvent
<1>5. HistoryOK'
  BY <1>1 DEF HistoryOK
<1>6. Whereabouts'
  BY <1>1, <1>2 DEF Whereabouts
<1>7. Arrivals'
  BY <1>1, <1>2 DEF Arrivals
<1>8. InStep'
  BY <1>1 DEF InStep
<1> QED
  BY <1>3, <1>4, <1>5, <1>6, <1>7, <1>8

\* A connection is accepted.
LEMMA AcceptIInv ==
  ASSUME IInv, Accept PROVE IInv'
<1> USE ChatAssumption, EpollAssumption DEF IInv, Inv
<1> DEFINE h == Head(backlog)
<1>1. PICK fd \in LowestFree :
        /\ Open(fd)
        /\ user_fds' = user_fds \cup {fd}
        /\ interest' = interest \cup {h}
        /\ user_data' = [c \in DOMAIN user_data \cup {h} |-> IF c = h THEN fd ELSE user_data[c]]
  BY DEF Accept, Added
<1>2. /\ pc = "event" /\ Listen \in batch /\ batch' = batch \ {Listen}
      /\ pc' \in {"wait", "event"} /\ UNCHANGED <<i, reset>>
  BY DEF Accept, Done
<1>3. /\ fd \in Fd /\ fdtab[fd] = NoClient
      /\ backlog # <<>> /\ backlog \in Seq(Client) /\ IsInjective(backlog)
      /\ UNCHANGED <<client, said, seen, log, heard, delivered>>
      /\ backlog' = Tail(backlog) /\ fdtab' = [fdtab EXCEPT ![fd] = h]
      /\ joined' = [joined EXCEPT ![h] = Len(log)]
  BY <1>1 DEF LowestFree, Open, users, TypeOK, ChatTypeOK
<1>4. /\ backlog' \in Seq(Client) /\ IsInjective(backlog') /\ h \in Client
      /\ h \in Range(backlog) /\ Range(backlog') = Range(backlog) \ {h}
  BY <1>3, QueueTail
<1>5. h \notin Range(fdtab) /\ client[h] # "new" /\ joined[h] = -1 /\ delivered[h] = <<>>
  BY <1>4 DEF Whereabouts, Arrivals
<1>6. h \notin interest
  BY <1>2, <1>5 DEF RegistriesAgree, Range, TypeOK, ChatTypeOK
<1>7. /\ Range(fdtab') \subseteq Range(fdtab) \cup {h}
      /\ \A c \in Client : c \in Range(fdtab) \/ c = h => c \in Range(fdtab')
  <2>1. /\ DOMAIN fdtab = Fd /\ DOMAIN fdtab' = Fd /\ NoClient \notin Client
        /\ fdtab'[fd] = h /\ \A f \in Fd \ {fd} : fdtab'[f] = fdtab[f]
    BY <1>3 DEF TypeOK, ChatTypeOK
  <2> HIDE DEF IInv, Inv, h
  <2>2. \A f \in Fd : fdtab'[f] \in Range(fdtab) \cup {h}
    BY <2>1 DEF Range
  <2>3. ASSUME NEW c \in Client, c \in Range(fdtab) PROVE c \in Range(fdtab')
    <3>1. PICK f \in Fd : fdtab[f] = c
      BY <2>1, <2>3 DEF Range
    <3>2. fdtab'[f] = c
      BY <1>3, <2>1, <3>1
    <3> QED
      BY <2>1, <3>2 DEF Range
  <2> QED
    BY <1>3, <2>1, <2>2, <2>3 DEF Range
<1>8. Len(log) \in Nat
  BY DEF HistoryOK
<1>9. TypeOK'
  <2>1. joined' \in [Client -> Int] /\ fdtab' \in [Fd -> Client \cup {NoClient}]
    BY <1>3, <1>4, <1>8 DEF TypeOK, ChatTypeOK
  <2>2. ChatTypeOK'
    BY <1>3, <1>4, <2>1 DEF TypeOK, ChatTypeOK
  <2>3. user_data' \in [DOMAIN user_data' -> Fd] /\ DOMAIN user_data' \subseteq Client
    BY <1>1, <1>3, <1>4 DEF TypeOK
  <2> QED
    BY <1>1, <1>2, <1>3, <1>4, <2>2, <2>3 DEF TypeOK
<1>10. RegistriesAgree'
  <2>1. user_fds' = {f \in Fd : fdtab'[f] # NoClient}
    BY <1>1, <1>2, <1>3, <1>4 DEF RegistriesAgree, TypeOK, ChatTypeOK
  <2>2. interest' = DOMAIN user_data'
    BY <1>1, <1>2 DEF RegistriesAgree
  <2>3. \A c \in interest' : fdtab'[user_data'[c]] = c
    <3>1. fdtab'[user_data'[h]] = h
      BY <1>1, <1>3 DEF TypeOK, ChatTypeOK
    <3>2. ASSUME NEW c \in interest PROVE fdtab'[user_data'[c]] = c
      <4>1. c \in DOMAIN user_data /\ fdtab[user_data[c]] = c /\ c \in Client /\ user_data[c] \in Fd
        BY <1>2 DEF RegistriesAgree, TypeOK
      <4>2. user_data'[c] = user_data[c] /\ user_data[c] # fd
        BY <1>1, <1>3, <1>6, <4>1
      <4> QED
        BY <1>3, <4>1, <4>2 DEF TypeOK, ChatTypeOK
    <3> QED
      BY <1>1, <3>1, <3>2
  <2>4. \A f \in user_fds' : fdtab'[f] \in interest'
    BY <1>1, <1>2, <1>3 DEF RegistriesAgree, TypeOK, ChatTypeOK
  <2> QED
    BY <2>1, <2>2, <2>3, <2>4 DEF RegistriesAgree
<1>11. NoStaleEvent'
  BY <1>1, <1>2, <1>3 DEF NoStaleEvent, Readable, Unread, TypeOK
<1>12. HistoryOK'
  BY <1>3 DEF HistoryOK
<1>13. Whereabouts'
  <2>1. \A c \in Client : client'[c] = "new" => c \notin Range(backlog') \cup Range(fdtab')
    BY <1>3, <1>4, <1>5, <1>7 DEF Whereabouts
  <2>2. Range(backlog') \cap Range(fdtab') = {}
    BY <1>4, <1>7 DEF Whereabouts
  <2>3. ASSUME NEW f \in user_fds' PROVE user_data'[fdtab'[f]] = f
    <3>1. CASE f = fd
      BY <1>1, <1>3, <3>1 DEF TypeOK, ChatTypeOK
    <3>2. CASE f # fd
      <4>1. f \in user_fds /\ fdtab'[f] = fdtab[f] /\ fdtab[f] \in interest
        BY <1>1, <1>2, <1>3, <3>2 DEF RegistriesAgree, TypeOK, ChatTypeOK
      <4> QED
        BY <1>1, <1>2, <1>6, <4>1 DEF Whereabouts, RegistriesAgree
    <3> QED
      BY <3>1, <3>2
  <2> QED
    BY <1>2, <2>1, <2>2, <2>3 DEF Whereabouts
<1>14. Arrivals'
  BY <1>1, <1>2, <1>3, <1>4, <1>5, <1>7, <1>8 DEF Arrivals, TypeOK, ChatTypeOK
<1>15. InStep'
  <2>1. ASSUME NEW f \in Fd, fdtab'[f] \in Client, f # fd
        PROVE  fdtab'[f] = fdtab[f] /\ fdtab[f] # h
    BY <1>3, <1>5, <2>1 DEF TypeOK, ChatTypeOK, Range
  <2>2. joined'[h] + Len(delivered'[h]) = Len(log)
    BY <1>3, <1>4, <1>5, <1>8 DEF TypeOK, ChatTypeOK
  <2>3. \A f \in Fd : Missing(f) = 0 /\ Missing(f)' = 0
    BY <1>2 DEF Missing
  <2>4. ASSUME NEW f \in Fd, fdtab'[f] \in Client, client'[fdtab'[f]] = "in"
        PROVE  joined'[fdtab'[f]] + Len(delivered'[fdtab'[f]]) = Len(log')
    <3>1. CASE f = fd
      BY <1>3, <2>2, <3>1 DEF TypeOK, ChatTypeOK
    <3>2. CASE f # fd
      <4>1. joined[fdtab[f]] + Len(delivered[fdtab[f]]) + Missing(f) = Len(log)
        BY <1>3, <2>1, <2>4, <3>2 DEF InStep
      <4>2. joined'[fdtab[f]] = joined[fdtab[f]] /\ joined[fdtab[f]] \in Int
        BY <1>3, <2>1, <2>4, <3>2 DEF TypeOK, ChatTypeOK
      <4>3. Len(delivered[fdtab[f]]) \in Nat
        BY <2>1, <2>4, <3>2 DEF HistoryOK
      <4> QED
        BY <1>3, <2>1, <2>3, <2>4, <3>2, <4>1, <4>2, <4>3
    <3> QED
      BY <3>1, <3>2
  <2>5. ASSUME NEW f \in Fd, fdtab'[f] \in Client
        PROVE  joined'[fdtab'[f]] \in Int /\ Len(delivered'[fdtab'[f]]) \in Nat
    BY <1>9, <1>12, <2>5 DEF TypeOK, ChatTypeOK, HistoryOK
  <2> QED
    BY <1>2, <2>3, <2>4, <2>5 DEF InStep
<1> QED
  BY <1>9, <1>10, <1>11, <1>12, <1>13, <1>14, <1>15

\* What an event of a connected client finds.
LEMMA EventFacts ==
  ASSUME IInv, pc = "event", NEW c \in Client, c \in batch
  PROVE  /\ c \in interest /\ user_data[c] \in Fd /\ fdtab[user_data[c]] = c
         /\ user_data[c] \in user_fds /\ c \in Range(fdtab) /\ joined[c] \in Nat
         /\ client[c] # "new" /\ c \notin Range(backlog)
<1> USE ChatAssumption, EpollAssumption DEF IInv, Inv
<1>1. c \in DOMAIN user_data
  BY DEF NoStaleEvent
<1>2. c \in interest /\ user_data[c] \in Fd /\ fdtab[user_data[c]] = c
  BY <1>1 DEF RegistriesAgree, TypeOK
<1>3. user_data[c] \in user_fds /\ c \in Range(fdtab)
  BY <1>2 DEF RegistriesAgree, Range, TypeOK, ChatTypeOK
<1> QED
  BY <1>2, <1>3 DEF Arrivals, Whereabouts

\* A message is read.
LEMMA ReadIInv ==
  ASSUME IInv, NEW c \in Client, Read(c) PROVE IInv'
<1> USE ChatAssumption, EpollAssumption DEF IInv, Inv
<1>1. pc = "event" /\ c \in batch
  BY DEF Read
<1>2. c \in interest /\ fdtab[user_data[c]] = c
  BY <1>1, EventFacts
<1>3. PICK n \in 1 .. said[c] - heard[c] : Hear(c, n)
  BY <1>2 DEF Read, Unread
<1>4. /\ UNCHANGED <<client, said, seen, backlog, fdtab, joined, delivered, user_fds, interest,
                     user_data, reset>>
      /\ heard' = [heard EXCEPT ![c] = @ + n]
      /\ log' = Append(log, [from |-> c, first |-> heard[c] + 1, last |-> heard[c] + n])
      /\ i' = 1 /\ pc' = "send" /\ batch' = batch \ {c}
  BY <1>3 DEF Read, Hear, users
<1>5. /\ heard \in [Client -> Nat] /\ said \in [Client -> 0..MaxLines] /\ MaxLines \in Nat
      /\ \A d \in Client : heard[d] \in 0..said[d]
  BY DEF HistoryOK, TypeOK, ChatTypeOK
<1>6. n \in Nat /\ heard[c] \in Nat /\ said[c] \in Nat
  BY <1>5
<1>7. heard' \in [Client -> Nat] /\ \A d \in Client : heard'[d] \in 0..said'[d]
  BY <1>3, <1>4, <1>5, <1>6
<1>8. log' \in Seq(Message) /\ Len(log') = Len(log) + 1 /\ Len(log) \in Nat
  BY SMTT(30), <1>4, <1>6 DEF HistoryOK, Message
<1>9. TypeOK'
  <2>1. ChatTypeOK'
    BY <1>4, <1>7 DEF TypeOK, ChatTypeOK
  <2> QED
    BY <1>4, <2>1 DEF TypeOK
<1>10. RegistriesAgree'
  BY <1>1, <1>4 DEF RegistriesAgree
<1>11. NoStaleEvent'
  <2>1. \A d \in Client \ {c} : Readable(d)' <=> Readable(d)
    BY <1>4, <1>5 DEF Readable, Unread
  <2> QED
    BY <1>1, <1>4, <2>1 DEF NoStaleEvent, TypeOK
<1>12. HistoryOK'
  BY <1>4, <1>7, <1>8 DEF HistoryOK
<1>13. Whereabouts'
  BY <1>1, <1>4 DEF Whereabouts
<1>14. Arrivals'
  BY <1>4 DEF Arrivals
<1>15. InStep'
  <2>1. log' # <<>>
    BY <1>8
  <2>2. \A f \in Fd : Missing(f) = 0 /\ Missing(f)' = 1
    BY <1>1, <1>4 DEF Missing, Fd
  <2>3. ASSUME NEW f \in Fd, fdtab[f] \in Client
        PROVE  joined[fdtab[f]] \in Int /\ Len(delivered[fdtab[f]]) \in Nat
    BY <2>3 DEF TypeOK, ChatTypeOK, HistoryOK
  <2> QED
    BY SMTT(30), <1>4, <1>8, <2>1, <2>2, <2>3 DEF InStep
<1> QED
  BY <1>9, <1>10, <1>11, <1>12, <1>13, <1>14, <1>15

\* A client has left: its connection is closed and forgotten.
LEMMA DropIInv ==
  ASSUME IInv, NEW c \in Client, Drop(c) PROVE IInv'
<1> USE ChatAssumption, EpollAssumption DEF IInv, Inv
<1> DEFINE fd == user_data[c]
<1>1. pc = "event" /\ c \in batch /\ client[c] = "left"
  BY DEF Drop
<1>2. /\ c \in interest /\ fd \in Fd /\ fdtab[fd] = c /\ fd \in user_fds /\ c \in Range(fdtab)
      /\ c \notin Range(backlog)
  BY <1>1, EventFacts
<1>3. /\ UNCHANGED <<client, said, seen, backlog, log, heard, joined, delivered, i, reset>>
      /\ fdtab' = [fdtab EXCEPT ![fd] = NoClient]
      /\ interest' = interest \ {c} /\ user_fds' = user_fds \ {fd}
      /\ user_data' = [d \in DOMAIN user_data \ {c} |-> user_data[d]]
      /\ batch' = batch \ {c} /\ pc' \in {"wait", "event"}
  BY DEF Drop, CloseFd, Forgotten, Done, users, chat
<1>4. \A f \in Fd : fdtab[f] = c => f = fd
  BY <1>1, <1>2 DEF Whereabouts, RegistriesAgree
<1>5. fdtab \in [Fd -> Client \cup {NoClient}] /\ NoClient \notin Client
  BY DEF TypeOK, ChatTypeOK
<1>6. /\ fdtab' \in [Fd -> Client \cup {NoClient}]
      /\ \A f \in Fd : fdtab'[f] = IF f = fd THEN NoClient ELSE fdtab[f]
  BY <1>3, <1>5
<1>7. \A d \in Client : d \in Range(fdtab') => d \in Range(fdtab)
  BY <1>5, <1>6 DEF Range
<1>8. TypeOK'
  BY <1>3, <1>6 DEF TypeOK, ChatTypeOK
<1>9. RegistriesAgree'
  <2>1. user_fds' = {f \in Fd : fdtab'[f] # NoClient}
    BY <1>1, <1>3, <1>6 DEF RegistriesAgree
  <2>2. interest' = DOMAIN user_data'
    BY <1>1, <1>3 DEF RegistriesAgree
  <2>3. \A d \in interest' : fdtab'[user_data'[d]] = d
    BY <1>1, <1>2, <1>3, <1>6 DEF RegistriesAgree, TypeOK
  <2>4. \A f \in user_fds' : fdtab'[f] \in interest'
    BY <1>1, <1>3, <1>4, <1>6 DEF RegistriesAgree
  <2> QED
    BY <2>1, <2>2, <2>3, <2>4 DEF RegistriesAgree
<1>10. NoStaleEvent'
  BY <1>1, <1>3 DEF NoStaleEvent, Readable, Unread
<1>11. HistoryOK'
  BY <1>3 DEF HistoryOK
<1>12. Whereabouts'
  <2>1. \A d \in Client : client'[d] = "new" => d \notin Range(backlog') \cup Range(fdtab')
    BY <1>3, <1>7 DEF Whereabouts
  <2>2. Range(backlog') \cap Range(fdtab') = {}
    <3>1. Range(backlog') \subseteq Client
      BY <1>3, ElementOfSeq DEF Range, TypeOK, ChatTypeOK
    <3> QED
      BY <1>3, <1>7, <3>1 DEF Whereabouts
  <2>3. \A f \in user_fds' : user_data'[fdtab'[f]] = f
    BY <1>1, <1>3, <1>4, <1>6 DEF Whereabouts, RegistriesAgree
  <2> QED
    BY <1>3, <2>1, <2>2, <2>3 DEF Whereabouts
<1>13. Arrivals'
  BY <1>3, <1>7 DEF Arrivals
<1>14. InStep'
  BY <1>1, <1>3, <1>5, <1>6 DEF InStep, Missing
<1> QED
  BY <1>8, <1>9, <1>10, <1>11, <1>12, <1>13, <1>14

\* What send_msg finds at a descriptor it writes to.
LEMMA SendFacts ==
  ASSUME IInv, Sending
  PROVE  /\ i \in Fd /\ fdtab[i] \in Client /\ pc = "send" /\ i \in user_fds
         /\ \A f \in Fd \ {i} : fdtab[f] # fdtab[i]
         /\ joined[fdtab[i]] \in Nat /\ fdtab[i] \notin Range(backlog)
         /\ client[fdtab[i]] # "new"
         /\ log # <<>> /\ log \in Seq(Message) /\ Len(log) \in Nat \ {0}
         /\ delivered[fdtab[i]] \in Seq(Message)
         /\ client[fdtab[i]] = "in" => joined[fdtab[i]] + Len(delivered[fdtab[i]]) + 1 = Len(log)
<1> USE ChatAssumption, EpollAssumption DEF IInv, Inv
<1>1. pc = "send" /\ i \in user_fds
  BY DEF Sending, Recipient
<1>2. i \in Fd /\ fdtab[i] \in Client /\ fdtab[i] \in Range(fdtab)
  BY <1>1 DEF RegistriesAgree, TypeOK, ChatTypeOK, Range
<1>3. \A f \in Fd \ {i} : fdtab[f] # fdtab[i]
  BY <1>1, <1>2 DEF Whereabouts, RegistriesAgree
<1>4. joined[fdtab[i]] \in Nat /\ fdtab[i] \notin Range(backlog) /\ client[fdtab[i]] # "new"
  BY <1>2 DEF Arrivals, Whereabouts
<1>5. log # <<>> /\ log \in Seq(Message) /\ delivered[fdtab[i]] \in Seq(Message)
  BY <1>1, <1>2 DEF InStep, HistoryOK
<1>6. Len(log) \in Nat \ {0}
  BY <1>5
<1>7. client[fdtab[i]] = "in" => joined[fdtab[i]] + Len(delivered[fdtab[i]]) + 1 = Len(log)
  BY <1>1, <1>2 DEF InStep, Missing, TypeOK
<1> QED
  BY <1>1, <1>2, <1>3, <1>4, <1>5, <1>6, <1>7

\* A message is written to one client.
LEMMA SendIInv ==
  ASSUME IInv, SendWrite PROVE IInv'
<1> USE ChatAssumption, EpollAssumption DEF IInv, Inv
<1> DEFINE c == fdtab[i]
<1>1. Sending /\ i <= FdLimit
  BY DEF SendWrite, Sending, LastFd
<1>2. /\ UNCHANGED <<client, said, seen, backlog, fdtab, log, heard, joined, pc, batch, user_fds,
                     interest, user_data, reset>>
      /\ delivered' = [delivered EXCEPT ![c] = Append(@, Last(log))] /\ i' = i + 1
      /\ client[c] = "in"
  BY DEF SendWrite, Put, users
<1>3. /\ i \in Fd /\ c \in Client /\ pc = "send"
      /\ \A f \in Fd \ {i} : fdtab[f] # c
      /\ joined[c] \in Nat /\ c \notin Range(backlog) /\ client[c] # "new"
      /\ log \in Seq(Message) /\ Len(log) \in Nat \ {0} /\ delivered[c] \in Seq(Message)
      /\ joined[c] + Len(delivered[c]) + 1 = Len(log)
  BY <1>1, <1>2, SendFacts
<1>4. Append(delivered[c], Last(log)) \in Seq(Message)
      /\ Len(Append(delivered[c], Last(log))) = Len(delivered[c]) + 1
  BY <1>3 DEF Last
<1>5. /\ delivered' \in [Client -> Seq(Message)]
      /\ \A d \in Client : Len(delivered'[d]) = IF d = c THEN Len(delivered[c]) + 1 ELSE Len(delivered[d])
  BY <1>2, <1>3, <1>4 DEF HistoryOK
<1>6. TypeOK'
  <2>1. ASSUME NEW d \in Client PROVE seen'[d] \in 0..Len(delivered'[d])
    <3>1. seen[d] \in 0..Len(delivered[d]) /\ Len(delivered[d]) \in Nat
      BY DEF TypeOK, ChatTypeOK, HistoryOK
    <3> QED
      BY <1>2, <1>5, <3>1
  <2> QED
    BY <1>1, <1>2, <2>1 DEF TypeOK, ChatTypeOK
<1>7. RegistriesAgree' /\ NoStaleEvent'
  BY <1>2 DEF RegistriesAgree, NoStaleEvent, Readable, Unread
<1>8. HistoryOK'
  BY <1>2, <1>5 DEF HistoryOK
<1>9. Whereabouts'
  BY <1>2 DEF Whereabouts
<1>10. Arrivals'
  BY <1>2, <1>3 DEF Arrivals, HistoryOK
<1>11. InStep'
  <2>1. \A f \in Fd : Missing(f)' = IF f = i THEN 0 ELSE Missing(f)
    BY <1>2, <1>3 DEF Missing, Fd
  <2>2. \A f \in Fd : Missing(f) \in {0, 1}
    BY DEF Missing
  <2>3. Missing(i) = 1
    BY <1>3 DEF Missing, Fd
  <2>4. \A f \in Fd \ {i} : fdtab[f] \in Client => Len(delivered'[fdtab[f]]) = Len(delivered[fdtab[f]])
    BY <1>3, <1>5
  <2>5. joined[c] + Len(delivered'[c]) = Len(log) /\ Len(delivered'[c]) \in Nat
    BY SMTT(30), <1>3, <1>5
  <2>6. InStep /\ fdtab[i] = c
    OBVIOUS
  <2> HIDE DEF IInv, Inv
  <2>7. ASSUME NEW f \in Fd, fdtab'[f] \in Client, client'[fdtab'[f]] = "in"
        PROVE  joined'[fdtab'[f]] + Len(delivered'[fdtab'[f]]) + Missing(f)' = Len(log')
    <3>1. fdtab'[f] = fdtab[f] /\ client' = client /\ joined' = joined /\ log' = log
      BY <1>2
    <3>2. CASE f = i
      BY <2>1, <2>5, <2>6, <3>1, <3>2
    <3>3. CASE f # i
      <4>1. joined[fdtab[f]] + Len(delivered[fdtab[f]]) + Missing(f) = Len(log)
        BY <2>6, <2>7, <3>1 DEF InStep
      <4>2. Len(delivered'[fdtab[f]]) = Len(delivered[fdtab[f]]) /\ Missing(f)' = Missing(f)
        BY <2>1, <2>4, <2>7, <3>1, <3>3
      <4> QED
        BY <3>1, <4>1, <4>2
    <3> QED
      BY <3>2, <3>3
  <2> QED
    BY <1>2, <2>6, <2>7 DEF InStep
<1> QED
  BY <1>6, <1>7, <1>8, <1>9, <1>10, <1>11

\* Every step preserves the invariant.
LEMMA NextIInv == IInv /\ [Next]_vars => IInv'
<1> SUFFICES ASSUME IInv, [Next]_vars PROVE IInv'
  OBVIOUS
<1>1. CASE EpollWait \/ AcceptFails \/ SendSkip \/ SendLost \/ SendEnd
  BY <1>1, LoopIInv
<1>2. CASE Accept
  BY <1>2, AcceptIInv
<1>3. CASE SendWrite
  BY <1>3, SendIInv
<1>4. ASSUME NEW c \in Client, Read(c) \/ Drop(c) PROVE IInv'
  BY <1>4, ReadIInv, DropIInv
<1>5. CASE Interrupted \/ BrokenPipe
  BY <1>5, DieIInv
<1>6. ASSUME NEW c \in Client, UserActs(c) \/ ClientRuns(c) PROVE IInv'
  BY <1>6, ConnectIInv, UserIInv DEF UserActs, ClientRuns
<1>7. CASE UNCHANGED vars
  BY <1>7 DEF vars, chatVars, users, chat, server, IInv, Inv, TypeOK, ChatTypeOK, RegistriesAgree,
     NoStaleEvent, Readable, Unread, HistoryOK, Whereabouts, Arrivals, InStep, Missing
<1> QED
  BY <1>1, <1>2, <1>3, <1>4, <1>5, <1>6, <1>7 DEF Next, ServerStep

\* The records of who is connected agree between handlers and no event goes
\* stale in its batch, whatever closes and reuses descriptors meanwhile.
THEOREM Safety == Spec => []Inv
<1>1. IInv => Inv
  BY DEF IInv
<1> QED
  BY <1>1, InitIInv, NextIInv, PTL DEF Spec

\* What is sent to a client is the log from its arrival on: a message is read
\* only when every client has the messages before it.
THEOREM Refinement == Spec => ImplementsChat
<1>1. Init => Service!Init
  BY DEF Init, ChatInit, Service!Init
<1>2. ASSUME IInv, IInv', [Next]_vars
      PROVE  [\E c \in Client : Service!Join(c) \/ Service!Post(c) \/ Service!Deliver(c)]_Service!vars
  <2> USE ChatAssumption, EpollAssumption
  <2>1. CASE Accept
    <3>1. PICK fd \in LowestFree : Open(fd)
      BY <2>1 DEF Accept
    <3>2. Head(backlog) \in Client /\ joined[Head(backlog)] = -1
      <4>1. backlog # <<>> /\ backlog \in Seq(Client) /\ IsInjective(backlog)
        BY <1>2, <3>1 DEF Open, IInv, Inv, TypeOK, ChatTypeOK
      <4> QED
        BY <1>2, <4>1, QueueTail DEF IInv, Arrivals
    <3>3. Service!Join(Head(backlog))
      BY <3>1, <3>2 DEF Open, Service!Join
    <3> QED
      BY <3>2, <3>3
  <2>2. ASSUME NEW c \in Client, Read(c) PROVE Service!Post(c)
    <3>1. pc = "event" /\ c \in batch
      BY <2>2 DEF Read
    <3>2. fdtab[user_data[c]] = c /\ joined[c] \in Nat
      BY <1>2, <3>1, EventFacts
    <3>3. PICK n \in 1 .. said[c] - heard[c] : Hear(c, n)
      BY <2>2, <3>2 DEF Read, Unread
    <3>4. heard \in [Client -> Nat] /\ said[c] \in Nat
      BY <1>2 DEF IInv, Inv, HistoryOK, TypeOK, ChatTypeOK
    <3>5. /\ heard' = [heard EXCEPT ![c] = heard[c] + n] /\ heard'[c] = heard[c] + n
          /\ n \in Nat \ {0} /\ heard[c] \in Nat
      BY <3>3, <3>4 DEF Hear
    <3>6. heard[c] + n \in heard[c] + 1 .. heard'[c]
      BY <3>5
    <3>7. heard' \in {[heard EXCEPT ![c] = m] : m \in heard[c] + 1 .. heard'[c]}
      BY <3>5, <3>6
    <3>8. log' = Append(log, [from |-> c, first |-> heard[c] + 1, last |-> heard'[c]])
      BY <3>3, <3>5 DEF Hear
    <3>9. joined[c] # -1
      BY <3>2
    <3>10. UNCHANGED <<joined, delivered>>
      BY <3>3 DEF Hear
    <3> QED
      BY <3>7, <3>8, <3>9, <3>10, Zenon DEF Service!Post
  <2>3. CASE SendWrite
    <3>1. Sending
      BY <2>3 DEF SendWrite
    <3>2. /\ fdtab[i] \in Client /\ joined[fdtab[i]] \in Nat /\ Len(log) \in Nat
          /\ delivered[fdtab[i]] \in Seq(Message)
          /\ client[fdtab[i]] = "in" => joined[fdtab[i]] + Len(delivered[fdtab[i]]) + 1 = Len(log)
      BY <1>2, <3>1, SendFacts
    <3>3. /\ delivered' = [delivered EXCEPT ![fdtab[i]] = Append(@, log[Len(log)])]
          /\ client[fdtab[i]] = "in" /\ UNCHANGED <<log, heard, joined>>
      BY <2>3 DEF SendWrite, Put, Last
    <3>4. /\ joined[fdtab[i]] + Len(delivered[fdtab[i]]) + 1 = Len(log)
          /\ Len(delivered[fdtab[i]]) \in Nat
      BY <3>2, <3>3
    <3>5. joined[fdtab[i]] # -1 /\ joined[fdtab[i]] + Len(delivered[fdtab[i]]) < Len(log)
      BY <3>2, <3>4
    <3>6. delivered' = [delivered EXCEPT ![fdtab[i]] =
                          Append(@, log[joined[fdtab[i]] + Len(delivered[fdtab[i]]) + 1])]
      BY <3>3, <3>4
    <3>7. Service!Deliver(fdtab[i])
      BY <3>3, <3>5, <3>6, Zenon DEF Service!Deliver
    <3> QED
      BY <3>2, <3>7
  <2>4. CASE UNCHANGED chat
    BY <2>4 DEF chat, Service!vars
  <2>5. Accept \/ (\E c \in Client : Read(c)) \/ SendWrite \/ UNCHANGED chat
    BY <1>2 DEF Next, ServerStep, EpollWait, AcceptFails, SendLost, SendSkip, SendEnd, Drop, CloseFd,
       Interrupted, BrokenPipe, Collapse, UserActs, ClientRuns, Connect, Say, Quit, Show, Ended,
       vars, chatVars
  <2> QED
    BY <2>1, <2>2, <2>3, <2>4, <2>5
<1> QED
  BY <1>1, <1>2, InitIInv, NextIInv, PTL DEF Spec, ImplementsChat, Service!Spec
=============================================================================
