------------------------ MODULE EchoServerThreadProofs ------------------------
(***************************************************************************)
(* Proofs about EchoServerThread, for any clients and descriptors.         *)
(*                                                                         *)
(* Raced or not, every unit a client has sent is still in its connection,  *)
(* or in at most one place in a thread's buffer or in an answer (Sent,     *)
(* Once): closed and reused descriptors may send it to the wrong client,   *)
(* but never twice.  Until the race happens a thread's copy is its own     *)
(* descriptor (Connections, OwnDescriptor), so that what it writes goes on *)
(* where the answer to its own client ends (OwnAnswer).                    *)
(***************************************************************************)
EXTENDS EchoServerThread, QueueLemmas, WellFoundedInduction

\* What a connection and a buffer carry.
Bytes == Seq((Client \X Nat) \cup {NUL})

\* What a client sends: its line, then the zeros.
Unit(c, k, upto) == IF k <= upto THEN <<c, k>> ELSE NUL

\* A connection that waits has no thread yet; one that has a descriptor has been
\* given a thread, and has one descriptor.
Connections ==
  /\ \A c \in Client : client[c] = "new" => c \notin Range(backlog)
  /\ dead => \A c \in Client : pc[c] = "done"
  /\ \A c \in Client : ~dead /\ (client[c] = "new" \/ c \in Range(backlog)) => pc[c] = "none"
  /\ \A fd \in Fd : fdtab[fd] # NoClient => pc[fdtab[fd]] # "none"
  /\ \A fd, other \in Fd : fdtab[fd] = fdtab[other] /\ fdtab[fd] # NoClient => fd = other
  /\ \A t \in Client : pc[t] = "blocked" => reading[t] \in Client

\* Until the race, main's variable is the descriptor of the one thread that has
\* not copied it yet, every copy is that of the thread's own connection, and a
\* connection with a descriptor has a thread that is still there.
OwnDescriptor ==
  ~raced =>
    /\ \A t \in Client : pc[t] = "start" => client_fd # Failed /\ fdtab[client_fd] = t
    /\ \A t \in Client : Copied(t) => sockfd[t] # Failed /\ fdtab[sockfd[t]] = t
    /\ \A fd \in Fd : fdtab[fd] # NoClient => pc[fdtab[fd]] = "start" \/ Copied(fdtab[fd])
    /\ \A t \in Client : reading[t] \in {t, NoClient}

\* How much of what a client has sent was read, and how much of its line.
Taken(c) == IF asked[c] = <<>> THEN 0 ELSE MaxLine - Len(toServer[c])
LineTaken(c) == IF Taken(c) <= LineLen THEN Taken(c) ELSE LineLen

\* What is still to be read is the rest of what was sent.
Sent(c) ==
  /\ client[c] \in {"new", "typing"} => asked[c] = <<>>
  /\ asked[c] = <<>> => toServer[c] = <<>>
  /\ asked[c] # <<>> => asked[c] = Line(c)
  /\ Len(toServer[c]) <= MaxLine
  /\ \A k \in 1..Len(toServer[c]) : toServer[c][k] = Unit(c, Taken(c) + k, LineLen)

\* Buffers are clean but for those of threads about to write and of those that a
\* SIGPIPE has ended.
Clean(t) == Len(buf[t]) = MaxLine /\ (pc[t] \notin {"write", "done"} => buf[t] = Zeroed)

\* The units that have been read.
WasRead == {u \in Client \X (1..LineLen) : u[2] <= Taken(u[1])}

\* Buffers and answers have units that were read, each in one place.
Once ==
  /\ \A d \in Client : \A k \in 1..Len(answer[d]) : answer[d][k] \in WasRead
  /\ \A t \in Client : \A k \in 1..MaxLine : buf[t][k] \in WasRead \cup {NUL}
  /\ \A d, e \in Client : \A k \in 1..Len(answer[d]), m \in 1..Len(answer[e]) :
       answer[d][k] = answer[e][m] => d = e /\ k = m
  /\ \A t, s \in Client : \A k, m \in 1..MaxLine :
       buf[t][k] = buf[s][m] /\ buf[t][k] # NUL => t = s /\ k = m
  /\ \A d, t \in Client : \A k \in 1..Len(answer[d]), m \in 1..MaxLine :
       answer[d][k] # buf[t][m]

\* The answer is a beginning of the client's own line, and a buffer to be written
\* has what was read of it and not yet answered.
OwnAnswer(c) ==
  /\ asked[c] = <<>> => answer[c] = <<>> /\ pc[c] # "write"
  /\ Len(answer[c]) <= LineLen /\ \A k \in 1..Len(answer[c]) : answer[c][k] = <<c, k>>
  /\ pc[c] \in {"none", "start", "read", "blocked"} /\ ~Closed(c) => Len(answer[c]) = LineTaken(c)
  /\ pc[c] = "write" /\ ~Closed(c) =>
       /\ Len(answer[c]) <= LineTaken(c)
       /\ \A k \in 1..MaxLine : buf[c][k] = Unit(c, Len(answer[c]) + k, LineTaken(c))

IInv ==
  /\ TypeOK /\ Connections /\ OwnDescriptor
  /\ \A c \in Client : Sent(c) /\ Clean(c)
  /\ Once
  /\ ~raced => \A c \in Client : OwnAnswer(c)

\* The program starts.
LEMMA InitIInv == Init => IInv
<1> SUFFICES ASSUME Init PROVE IInv
  OBVIOUS
<1> USE ClientAssumption, ThreadAssumption DEF Init, NetInit, Fd, Failed
<1>1. Range(backlog) = {}
  BY DEF Range
<1>2. Zeroed \in Bytes /\ Len(Zeroed) = MaxLine /\ \A k \in 1..MaxLine : Zeroed[k] = NUL
  BY DEF Zeroed, MaxLine, Bytes
<1>3. TypeOK
  <2>1. NetTypeOK
    BY DEF NetTypeOK, IsInjective
  <2>2. buf \in [Client -> Bytes]
    BY <1>2
  <2> QED
    BY <2>1, <2>2 DEF TypeOK, Bytes
<1>4. Connections /\ OwnDescriptor
  BY <1>1 DEF Connections, OwnDescriptor, Copied
<1>5. \A c \in Client : Sent(c) /\ Clean(c)
  BY <1>2 DEF Sent, Clean, MaxLine
<1>6. Once
  BY <1>2 DEF Once, WasRead
<1>7. \A c \in Client : OwnAnswer(c)
  BY DEF OwnAnswer, LineTaken, Taken
<1> QED
  BY <1>3, <1>4, <1>5, <1>6, <1>7 DEF IInv
\* Two stretches of a stream one after the other, unit by unit.
LEMMA BytesConcat ==
  ASSUME NEW s \in Bytes, NEW t \in Bytes
  PROVE  /\ s \o t \in Bytes
         /\ Len(s \o t) = Len(s) + Len(t) /\ Len(s \o t) \in Nat
         /\ \A k \in 1 .. Len(s) + Len(t) : (s \o t)[k] = IF k <= Len(s) THEN s[k] ELSE t[k - Len(s)]
BY ConcatProperties DEF Bytes

\* The beginning of a stretch.
LEMMA BytesPrefix ==
  ASSUME NEW s \in Bytes, NEW n \in Nat, n <= Len(s)
  PROVE  /\ SubSeq(s, 1, n) \in Bytes /\ Len(SubSeq(s, 1, n)) = n
         /\ \A k \in 1..n : SubSeq(s, 1, n)[k] = s[k]
BY DEF Bytes

\* What a client writes.
LEMMA AskData ==
  ASSUME NEW c \in Client
  PROVE  /\ Line(c) \in Seq(Client \X Nat) /\ Len(Line(c)) = LineLen /\ Line(c) # <<>>
         /\ \A k \in 1..LineLen : Line(c)[k] = <<c, k>>
         /\ Append(Line(c), NUL) \in Bytes /\ Len(Append(Line(c), NUL)) = MaxLine
         /\ \A k \in 1..MaxLine : Append(Line(c), NUL)[k] = Unit(c, k, LineLen)
<1>1. LineLen \in Nat \ {0}
  BY ClientAssumption
<1>2. /\ Line(c) \in Seq(Client \X Nat) /\ Len(Line(c)) = LineLen
      /\ \A k \in 1..LineLen : Line(c)[k] = <<c, k>>
  BY <1>1 DEF Line
<1>3. Line(c) \in Bytes
  BY <1>2, SeqMonotonic DEF Bytes
<1>4. /\ Append(Line(c), NUL) \in Bytes /\ Len(Append(Line(c), NUL)) = LineLen + 1
      /\ \A k \in 1..LineLen : Append(Line(c), NUL)[k] = Line(c)[k]
      /\ Append(Line(c), NUL)[LineLen + 1] = NUL
  BY <1>1, <1>2, <1>3, AppendProperties DEF Bytes
<1>5. ASSUME NEW k \in 1 .. LineLen + 1 PROVE Append(Line(c), NUL)[k] = Unit(c, k, LineLen)
  <2>1. CASE k <= LineLen
    <3>1. k \in 1..LineLen
      BY <1>1, <2>1
    <3> QED
      BY <1>2, <1>4, <2>1, <3>1 DEF Unit
  <2>2. CASE k = LineLen + 1
    <3>1. ~(k <= LineLen)
      BY <1>1, <2>2
    <3> QED
      BY <1>4, <2>2, <3>1 DEF Unit
  <2>3. k <= LineLen \/ k = LineLen + 1
    BY <1>1
  <2> QED
    BY <2>1, <2>2, <2>3
<1> QED
  BY <1>1, <1>2, <1>4, <1>5 DEF MaxLine

\* What a read leaves in the connection and in the buffer of thread t.
LEMMA ReadUnits ==
  ASSUME IInv, NEW t \in Client, NEW c \in Client, NEW n \in 1..MaxLine, Take(c, n)
  PROVE  /\ n <= Len(toServer[c]) /\ Len(toServer[c]) \in Nat
         /\ toServer' = [toServer EXCEPT ![c] = toServer'[c]]
         /\ toServer'[c] \in Bytes /\ Len(toServer'[c]) = Len(toServer[c]) - n
         /\ \A k \in 1 .. Len(toServer[c]) - n : toServer'[c][k] = toServer[c][n + k]
         /\ ReadInto(buf[t], c, n) \in Bytes /\ Len(ReadInto(buf[t], c, n)) = MaxLine
         /\ \A k \in 1..MaxLine :
              ReadInto(buf[t], c, n)[k] = IF k <= n THEN toServer[c][k] ELSE buf[t][k]
<1> DEFINE s == toServer[c]
           b == buf[t]
           head == SubSeq(s, 1, n)
           tail == SubSeq(b, n + 1, MaxLine)
<1>1. MaxLine \in Nat /\ n \in Nat /\ 1 <= n /\ n <= MaxLine
  BY ClientAssumption DEF MaxLine
<1>2. s \in Bytes /\ Len(s) \in Nat /\ b \in Bytes /\ Len(b) = MaxLine
  BY DEF IInv, TypeOK, NetTypeOK, Clean, Bytes
<1>3. n <= Len(s) /\ toServer'[c] = SubSeq(s, n + 1, Len(s)) /\ toServer' = [toServer EXCEPT ![c] = toServer'[c]]
  BY DEF Take, IInv, TypeOK, NetTypeOK
<1>4. /\ toServer'[c] \in Bytes /\ Len(toServer'[c]) = Len(s) - n
      /\ \A k \in 1 .. Len(s) - n : toServer'[c][k] = s[n + k]
  BY <1>1, <1>2, <1>3 DEF Bytes
<1>5. head \in Bytes /\ Len(head) = n /\ \A k \in 1..n : head[k] = s[k]
  BY <1>1, <1>2, <1>3 DEF Bytes
<1>6. tail \in Bytes /\ Len(tail) = MaxLine - n /\ \A k \in 1 .. MaxLine - n : tail[k] = b[n + k]
  BY <1>1, <1>2 DEF Bytes
<1>7. /\ head \o tail \in Bytes /\ Len(head \o tail) = MaxLine
      /\ \A k \in 1..MaxLine : (head \o tail)[k] = IF k <= n THEN head[k] ELSE tail[k - n]
  <2>1. /\ head \o tail \in Bytes /\ Len(head \o tail) = Len(head) + Len(tail)
        /\ \A k \in 1 .. Len(head) + Len(tail) :
             (head \o tail)[k] = IF k <= Len(head) THEN head[k] ELSE tail[k - Len(head)]
    BY <1>5, <1>6, BytesConcat
  <2>2. Len(head) = n /\ Len(head) + Len(tail) = MaxLine
    BY <1>1, <1>5, <1>6
  <2> QED
    BY <2>1, <2>2
<1>8. \A k \in 1..MaxLine : (head \o tail)[k] = IF k <= n THEN s[k] ELSE b[k]
  BY <1>1, <1>5, <1>6, <1>7
<1> QED
  BY <1>2, <1>3, <1>4, <1>7, <1>8 DEF ReadInto

\* strlen: a buffer up to the first zero, which is behind it if there is any.
LEMMA Beginning ==
  ASSUME NEW b \in Bytes
  PROVE  LET n == Len(UpToNul(b))
         IN  /\ UpToNul(b) \in Bytes /\ n \in 0..Len(b)
             /\ \A k \in 1..n : UpToNul(b)[k] = b[k] /\ b[k] # NUL
             /\ (\E k \in 1..Len(b) : b[k] = NUL) => n < Len(b) /\ b[n + 1] = NUL
<1> DEFINE I == {k \in 1..Len(b) : b[k] = NUL}
<1>1. Len(b) \in Nat
  BY DEF Bytes
<1>2. CASE I = {}
  <2>1. UpToNul(b) = SubSeq(b, 1, 0 - 1)
    BY <1>2 DEF UpToNul, SelectInSeq
  <2>2. UpToNul(b) \in Bytes /\ Len(UpToNul(b)) = 0
    BY <2>1 DEF Bytes
  <2> QED
    BY <1>1, <1>2, <2>2
<1>3. CASE I # {}
  <2>1. Min(I) \in I /\ \A k \in I : Min(I) <= k
    <3>1. \E m \in I : \A k \in I : m <= k
      <4>1. I \subseteq Nat
        BY <1>1
      <4>2. \E m \in I : \A k \in I : <<k, m>> \notin OpToRel(<, Nat)
        BY <1>3, <4>1, NatLessThanWellFounded, WFMin
      <4>3. \A k, m \in I : <<k, m>> \notin OpToRel(<, Nat) => m <= k
        BY <4>1 DEF OpToRel
      <4> QED
        BY <4>2, <4>3
    <3> QED
      BY <3>1 DEF Min
  <2> PICK m \in I : m = Min(I)
    BY <2>1
  <2>2. m \in 1..Len(b) /\ b[m] = NUL /\ \A k \in 1 .. m - 1 : b[k] # NUL
    <3>1. \A k \in I : m <= k
      BY <2>1
    <3> QED
      BY <1>1, <3>1
  <2>3. UpToNul(b) = SubSeq(b, 1, m - 1)
    BY <1>3 DEF UpToNul, SelectInSeq
  <2>4. UpToNul(b) \in Bytes /\ Len(UpToNul(b)) = m - 1 /\ \A k \in 1 .. m - 1 : UpToNul(b)[k] = b[k]
    <3>1. m - 1 \in Nat /\ m - 1 <= Len(b)
      BY <1>1, <2>2
    <3>2. /\ SubSeq(b, 1, m - 1) \in Bytes /\ Len(SubSeq(b, 1, m - 1)) = m - 1
          /\ \A k \in 1 .. m - 1 : SubSeq(b, 1, m - 1)[k] = b[k]
      BY <3>1, BytesPrefix
    <3> QED
      BY <2>3, <3>2
  <2> QED
    BY <1>1, <2>2, <2>4
<1> QED
  BY <1>2, <1>3

\* What a thread writes to a client: its buffer up to the first zero.
LEMMA Written ==
  ASSUME IInv, NEW t \in Client
  PROVE  /\ buf[t] \in Bytes /\ Len(buf[t]) = MaxLine /\ UpToNul(buf[t]) \in Bytes
         /\ \A d \in Client : answer[d] \in Bytes /\ answer[d] \o UpToNul(buf[t]) \in Bytes
BY Beginning, BytesConcat DEF IInv, TypeOK, NetTypeOK, Clean, Bytes

\* Types of the variables.
LEMMA TypesNext == ASSUME IInv, [Next]_vars PROVE TypeOK'
<1> USE ClientAssumption, ThreadAssumption DEF IInv, TypeOK, Fd, Failed
<1>1. CASE Accept
  <2>1. PICK fd \in LowestFree : fdtab' = [fdtab EXCEPT ![fd] = Head(backlog)] /\ Overwrite(fd)
    BY <1>1 DEF Accept
  <2>2. fd \in Fd /\ client_fd' \in Fd /\ raced' \in BOOLEAN
    BY <2>1 DEF LowestFree, Free, Overwrite
  <2>3. /\ backlog # <<>> /\ backlog' = Tail(backlog) /\ UNCHANGED <<client, asked, toServer, answer>>
        /\ pc' = [pc EXCEPT ![Head(backlog)] = "start"] /\ UNCHANGED <<sockfd, reading, buf, dead>>
    BY <1>1 DEF Accept, TakeNext
  <2>4. Head(backlog) \in Client /\ backlog' \in Seq(Client) /\ IsInjective(backlog')
    BY <2>3, QueueTail DEF NetTypeOK
  <2>5. NetTypeOK'
    BY <2>3, <2>4 DEF NetTypeOK
  <2>6. fdtab' \in [Fd -> Client \cup {NoClient}]
    BY <2>1, <2>2, <2>4
  <2>7. pc' \in [Client -> {"none", "start", "read", "blocked", "write", "close", "done"}]
    BY <2>3
  <2> QED
    BY <2>2, <2>3, <2>5, <2>6, <2>7
<1>2. CASE AcceptFails
  BY <1>2 DEF AcceptFails, Overwrite, thread, net, NetTypeOK
<1>3. ASSUME NEW t \in Client, Start(t) \/ Read(t) \/ ReadEnd(t) \/ Close(t) PROVE TypeOK'
  <2>1. NetTypeOK'
    BY <1>3 DEF Start, Read, ReadEnd, Close, net, NetTypeOK
  <2>2. CASE Start(t)
    BY <2>1, <2>2 DEF Start, Goto
  <2>3. CASE Read(t)
    BY <2>1, <2>3 DEF Read, Goto, Connected
  <2>4. CASE ReadEnd(t)
    BY <2>1, <2>4 DEF ReadEnd, Goto
  <2>5. CASE Close(t)
    BY <2>1, <2>5 DEF Close, Goto
  <2> QED
    BY <1>3, <2>2, <2>3, <2>4, <2>5
<1>4. ASSUME NEW t \in Client, ReadData(t) PROVE TypeOK'
  <2>1. PICK n \in 1..MaxLine :
          /\ Take(reading[t], n)
          /\ buf' = [buf EXCEPT ![t] = ReadInto(@, reading[t], n)]
          /\ Goto(t, IF Continues(n) THEN "write" ELSE "close")
    BY <1>4 DEF ReadData
  <2>2. reading[t] \in Client /\ reading' = [reading EXCEPT ![t] = NoClient] /\ UNCHANGED <<sockfd, fdtab, client_fd, dead, raced>>
    BY <1>4 DEF ReadData, Connections
  <2>3. ReadInto(buf[t], reading[t], n) \in Bytes /\ toServer'[reading[t]] \in Bytes
        /\ toServer' = [toServer EXCEPT ![reading[t]] = toServer'[reading[t]]]
    BY <2>1, <2>2, ReadUnits
  <2>4. NetTypeOK'
    BY <2>1, <2>2, <2>3 DEF Take, NetTypeOK, Bytes
  <2>5. buf' \in [Client -> Bytes]
    BY <2>1, <2>3 DEF Bytes
  <2>6. pc' \in [Client -> {"none", "start", "read", "blocked", "write", "close", "done"}]
    BY <2>1 DEF Goto
  <2> QED
    BY <2>2, <2>4, <2>5, <2>6 DEF Bytes
<1>5. ASSUME NEW t \in Client, Write(t) PROVE TypeOK'
  <2>1. /\ buf' = [buf EXCEPT ![t] = Zeroed] /\ pc' = [pc EXCEPT ![t] = "read"]
        /\ UNCHANGED <<sockfd, reading, fdtab, client_fd, dead, raced>>
        /\ \/ UNCHANGED net
           \/ \E d \in Client : Give(d, UpToNul(buf[t]))
    BY <1>5 DEF Write, Goto, Cleared, Connected
  <2>2. NetTypeOK'
    <3>1. CASE UNCHANGED net
      BY <3>1 DEF net, NetTypeOK
    <3>2. ASSUME NEW d \in Client, Give(d, UpToNul(buf[t])) PROVE NetTypeOK'
      <4>1. answer[d] \o UpToNul(buf[t]) \in Bytes
        BY Written
      <4> QED
        BY <3>2, <4>1 DEF Give, NetTypeOK, Bytes
    <3> QED
      BY <2>1, <3>1, <3>2
  <2>3. Zeroed \in Bytes
    BY DEF Zeroed, MaxLine, Bytes
  <2> QED
    BY <2>1, <2>2, <2>3 DEF Bytes
<1>6. ASSUME NEW t \in Client, BrokenPipe(t) PROVE TypeOK'
  <2>1. /\ UNCHANGED <<client, asked, toServer, answer, sockfd, buf, client_fd, raced>>
        /\ backlog' = <<>> /\ dead' = TRUE /\ pc' = [c \in Client |-> "done"]
        /\ fdtab' = [fd \in Fd |-> NoClient] /\ reading' = [c \in Client |-> NoClient]
    BY <1>6 DEF BrokenPipe
  <2>2. NetTypeOK'
    BY SMTT(30), <2>1 DEF NetTypeOK, IsInjective
  <2> QED
    BY <2>1, <2>2
<1>7. ASSUME NEW c \in Client, ClientReads(c) \/ UserActs(c) PROVE TypeOK'
  <2>1. UNCHANGED <<pc, sockfd, reading, buf, fdtab, client_fd, dead, raced>>
    BY <1>7 DEF ClientReads, UserActs, server, thread
  <2>2. NetTypeOK'
    <3>1. CASE Connect(c, ~dead)
      <4>1. Append(backlog, c) \in Seq(Client) /\ IsInjective(Append(backlog, c))
        BY <3>1, QueueAppend DEF Connect, NetTypeOK, Connections
      <4> QED
        BY <3>1, <4>1 DEF Connect, NetTypeOK
    <3>2. CASE Ask(c)
      BY <3>2, AskData DEF Ask, NetTypeOK, Bytes
    <3>3. CASE HangUp(c) \/ ReadAnswer(c, Gone(c))
      BY <3>3 DEF HangUp, ReadAnswer, NetTypeOK
    <3> QED
      BY <1>7, <3>1, <3>2, <3>3 DEF ClientReads, UserActs
  <2> QED
    BY <2>1, <2>2
<1>8. CASE UNCHANGED vars
  BY <1>8 DEF vars, net, thread, NetTypeOK
<1> QED
  BY <1>1, <1>2, <1>3, <1>4, <1>5, <1>6, <1>7, <1>8 DEF Next, ThreadStep

\* A connection is accepted once, and its descriptor closed for good.
LEMMA ConnectionsNext == ASSUME IInv, [Next]_vars PROVE Connections'
<1> USE ClientAssumption, ThreadAssumption DEF IInv, TypeOK, Fd, Failed
<1>1. CASE Accept
  <2> DEFINE h == Head(backlog)
  <2>1. PICK fd \in Free : fdtab' = [fdtab EXCEPT ![fd] = h]
    BY <1>1 DEF Accept, LowestFree
  <2>2. /\ backlog # <<>> /\ backlog' = Tail(backlog) /\ UNCHANGED client /\ ~dead
        /\ pc' = [pc EXCEPT ![h] = "start"] /\ UNCHANGED <<reading, dead>>
    BY <1>1 DEF Accept, TakeNext
  <2>3. h \in Client /\ h \in Range(backlog) /\ Range(backlog') = Range(backlog) \ {h}
    BY <2>2, QueueTail DEF NetTypeOK
  <2>4. pc[h] = "none" /\ client[h] # "new"
    BY <2>2, <2>3 DEF Connections
  <2>5. fd \in Fd /\ fdtab[fd] = NoClient
    BY DEF Free
  <2>6. \A c \in Client : c # h => pc'[c] = pc[c]
    BY <2>2, <2>3
  <2>7. \A other \in Fd : fdtab'[other] = IF other = fd THEN h ELSE fdtab[other]
    BY <2>1, <2>5
  <2>8. \A other \in Fd : fdtab[other] # h
    BY <2>3, <2>4 DEF Connections
  <2> HIDE DEF h
  <2>9. pc'[h] = "start"
    BY <2>2, <2>3
  <2>10. /\ \A c \in Client : client'[c] = "new" => c \notin Range(backlog')
         /\ \A c \in Client : client'[c] = "new" \/ c \in Range(backlog') => pc'[c] = "none"
    BY <2>2, <2>3, <2>4, <2>6 DEF Connections
  <2>11. ASSUME NEW other \in Fd, fdtab'[other] # NoClient PROVE pc'[fdtab'[other]] # "none"
    <3>1. CASE other = fd
      BY <2>7, <2>9, <3>1
    <3>2. CASE other # fd
      <4>1. fdtab'[other] = fdtab[other] /\ fdtab[other] \in Client /\ pc[fdtab[other]] # "none"
        BY <2>7, <2>11, <3>2 DEF Connections
      <4> QED
        BY <2>6, <2>8, <4>1
    <3> QED
      BY <3>1, <3>2
  <2>12. \A one, other \in Fd : fdtab'[one] = fdtab'[other] /\ fdtab'[one] # NoClient => one = other
    BY <2>7, <2>8 DEF Connections
  <2>13. \A c \in Client : pc'[c] = "blocked" => reading'[c] \in Client
    BY <2>2, <2>6, <2>9 DEF Connections
  <2> QED
    BY <2>2, <2>10, <2>11, <2>12, <2>13 DEF Connections
<1>2. ASSUME UNCHANGED <<client, backlog, dead>>,
             \A fd \in Fd : fdtab'[fd] \in {fdtab[fd], NoClient},
             \A c \in Client : \/ pc'[c] = pc[c]
                               \/ ~dead /\ pc[c] \notin {"none", "done"} /\ pc'[c] # "none",
             \A c \in Client : pc'[c] = "blocked" => reading'[c] \in Client
      PROVE  Connections'
  <2>1. ASSUME NEW fd \in Fd, fdtab'[fd] # NoClient PROVE fdtab'[fd] = fdtab[fd] /\ fdtab[fd] \in Client
    BY <1>2, <2>1
  <2>2. \A fd \in Fd : fdtab'[fd] # NoClient => pc'[fdtab'[fd]] # "none"
    BY <1>2, <2>1 DEF Connections
  <2>3. \A fd, other \in Fd : fdtab'[fd] = fdtab'[other] /\ fdtab'[fd] # NoClient => fd = other
    BY <1>2, <2>1 DEF Connections
  <2>4. \A c \in Client : client[c] = "new" \/ c \in Range(backlog) => dead \/ pc'[c] = "none"
    BY <1>2 DEF Connections
  <2> QED
    BY <1>2, <2>2, <2>3, <2>4 DEF Connections
<1>3. CASE AcceptFails \/ UNCHANGED vars
  <2>1. UNCHANGED <<client, backlog, dead, fdtab, pc, reading>>
    BY <1>3 DEF AcceptFails, vars, net, thread
  <2> QED
    BY <1>2, <2>1 DEF Connections
<1>4. ASSUME NEW t \in Client, ThreadStep(t) PROVE Connections'
  <2>1. pc[t] \notin {"none", "done"} /\ ~dead
    BY <1>4 DEF ThreadStep, Start, Read, ReadData, ReadEnd, Write, Close, Connections
  <2>2. UNCHANGED <<client, backlog, dead>>
    BY <1>4 DEF ThreadStep, Start, Read, ReadData, ReadEnd, Write, Close, Take, Give, net
  <2>3. \A fd \in Fd : fdtab'[fd] \in {fdtab[fd], NoClient}
    BY <1>4 DEF ThreadStep, Start, Read, ReadData, ReadEnd, Write, Close
  <2>4. \E where \in {"read", "blocked", "write", "close", "done"} : pc' = [pc EXCEPT ![t] = where]
    BY <1>4 DEF ThreadStep, Start, Read, ReadData, ReadEnd, Write, Close, Goto
  <2>5. \A c \in Client : pc'[c] = "blocked" => reading'[c] \in Client
    <3>1. CASE Read(t)
      BY <3>1 DEF Read, Goto, Connected, Connections
    <3>2. CASE ~Read(t)
      <4>1. pc'[t] # "blocked"
        BY <1>4, <3>2 DEF ThreadStep, Start, ReadData, ReadEnd, Write, Close, Goto
      <4>2. \A c \in Client : c # t => reading'[c] = reading[c] /\ pc'[c] = pc[c]
        BY <1>4, <3>2 DEF ThreadStep, Start, ReadData, ReadEnd, Write, Close, Goto
      <4> QED
        BY <4>1, <4>2 DEF Connections
    <3> QED
      BY <3>1, <3>2
  <2> QED
    BY <1>2, <2>1, <2>2, <2>3, <2>4, <2>5
<1>5. ASSUME NEW t \in Client, BrokenPipe(t) PROVE Connections'
  <2>1. /\ client' = client /\ backlog' = <<>> /\ dead' = TRUE /\ pc' = [c \in Client |-> "done"]
        /\ fdtab' = [fd \in Fd |-> NoClient]
    BY <1>5 DEF BrokenPipe
  <2>2. Range(backlog') = {}
    BY <2>1 DEF Range
  <2> QED
    BY <2>1, <2>2 DEF Connections
<1>6. ASSUME NEW c \in Client, ClientReads(c) \/ UserActs(c) PROVE Connections'
  <2>1. UNCHANGED <<pc, reading, fdtab, dead>>
    BY <1>6 DEF ClientReads, UserActs, server, thread
  <2>2. CASE Connect(c, ~dead)
    <3>1. Range(backlog') = Range(backlog) \cup {c} /\ client[c] = "new" /\ ~dead
          /\ client' = [client EXCEPT ![c] = "typing"]
      BY <2>2, QueueAppend DEF Connect, NetTypeOK, Connections
    <3> QED
      BY <2>1, <3>1 DEF Connections, NetTypeOK
  <2>3. CASE Ask(c) \/ HangUp(c) \/ ReadAnswer(c, Gone(c))
    <3>1. backlog' = backlog /\ \A d \in Client : client'[d] = "new" => client[d] = "new"
      BY <2>3 DEF Ask, HangUp, ReadAnswer, NetTypeOK
    <3> QED
      BY <2>1, <3>1 DEF Connections
  <2> QED
    BY <1>6, <2>2, <2>3 DEF ClientReads, UserActs
<1> QED
  BY <1>1, <1>3, <1>4, <1>5, <1>6 DEF Next

\* Without a race a descriptor is closed by its own thread, and another thread's
\* copy is of another descriptor.
LEMMA OwnDescriptorNext == ASSUME IInv, [Next]_vars PROVE OwnDescriptor'
<1> USE ClientAssumption, ThreadAssumption DEF IInv, TypeOK, Fd, Failed
<1> SUFFICES ASSUME ~raced' PROVE OwnDescriptor'
  BY DEF OwnDescriptor
<1>1. ~raced
  BY DEF Next, Accept, AcceptFails, Overwrite, ThreadStep, Start, Read, ReadData, ReadEnd, Write, Close,
     BrokenPipe, ClientReads, UserActs, server, vars
<1>2. CASE Accept
  <2> DEFINE h == Head(backlog)
  <2>1. PICK fd \in Free : fdtab' = [fdtab EXCEPT ![fd] = h] /\ Overwrite(fd)
    BY <1>2 DEF Accept, LowestFree
  <2>2. /\ backlog # <<>> /\ ~dead /\ pc' = [pc EXCEPT ![h] = "start"] /\ UNCHANGED <<sockfd, reading>>
    BY <1>2 DEF Accept
  <2>3. h \in Client /\ pc[h] = "none"
    BY <2>2, QueueTail DEF NetTypeOK, Connections
  <2>4. client_fd' = fd /\ \A t \in Client : pc[t] # "start"
    BY <2>1 DEF Overwrite
  <2>5. fd \in Fd /\ fdtab[fd] = NoClient
    BY DEF Free
  <2>6. \A other \in Fd : fdtab'[other] = IF other = fd THEN h ELSE fdtab[other]
    BY <2>1, <2>5
  <2>7. \A t \in Client : pc'[t] = IF t = h THEN "start" ELSE pc[t]
    BY <2>2, <2>3
  <2> HIDE DEF h
  <2>8. \A t \in Client : Copied(t)' => Copied(t) /\ t # h
    BY <2>7 DEF Copied
  <2>9. \A t \in Client : Copied(t) => Copied(t)'
    BY <2>3, <2>7 DEF Copied
  <2>10. \A t \in Client : Copied(t) => sockfd'[t] = sockfd[t] /\ fdtab'[sockfd[t]] = t
    BY <1>1, <2>2, <2>5, <2>6 DEF OwnDescriptor
  <2>11. \A t \in Client : pc'[t] = "start" => client_fd' # Failed /\ fdtab'[client_fd'] = t
    BY <2>4, <2>5, <2>6, <2>7
  <2>12. \A other \in Fd, c \in Client : fdtab'[other] = c => pc'[c] = "start" \/ Copied(c)'
    <3>1. \A c \in Client : c # NoClient
      OBVIOUS
    <3>2. \A other \in Fd, c \in Client : fdtab[other] = c => Copied(c)
      BY <1>1, <2>4, <3>1 DEF OwnDescriptor
    <3> QED
      BY <2>6, <2>7, <2>9, <3>2
  <2>13. \A other \in Fd : fdtab'[other] # NoClient => fdtab'[other] \in Client
    BY <2>3, <2>6
  <2>14. \A other \in Fd : fdtab'[other] # NoClient =>
            pc'[fdtab'[other]] \in {"start", "read", "blocked", "write", "close"}
    BY <2>12, <2>13 DEF Copied
  <2> QED
    BY <1>1, <2>2, <2>8, <2>10, <2>11, <2>14 DEF OwnDescriptor, Copied
<1>3. CASE AcceptFails
  <2>1. UNCHANGED <<pc, sockfd, reading, fdtab>> /\ \A t \in Client : pc[t] # "start"
    BY <1>3 DEF AcceptFails, Overwrite, thread
  <2> QED
    BY <1>1, <2>1 DEF OwnDescriptor, Copied
<1>4. ASSUME NEW t \in Client, Start(t) PROVE OwnDescriptor'
  <2>1. /\ pc[t] = "start" /\ pc' = [pc EXCEPT ![t] = "read"] /\ sockfd' = [sockfd EXCEPT ![t] = client_fd]
        /\ UNCHANGED <<reading, fdtab, client_fd>>
    BY <1>4 DEF Start, Goto
  <2>2. client_fd # Failed /\ fdtab[client_fd] = t
    BY <1>1, <2>1 DEF OwnDescriptor
  <2>3. \A c \in Client : Copied(c)' <=> Copied(c) \/ c = t
    BY <2>1 DEF Copied
  <2> QED
    BY <1>1, <2>1, <2>2, <2>3 DEF OwnDescriptor
<1>5. ASSUME NEW t \in Client, Read(t) \/ ReadData(t) \/ ReadEnd(t) \/ Write(t) PROVE OwnDescriptor'
  <2>1. UNCHANGED <<sockfd, fdtab, client_fd>> /\ Copied(t)
    BY <1>5 DEF Read, ReadData, ReadEnd, Write, Copied
  <2>2. \E where \in {"read", "blocked", "write", "close"} : pc' = [pc EXCEPT ![t] = where]
    BY <1>5 DEF Read, ReadData, ReadEnd, Write, Goto
  <2>3. \A c \in Client : (Copied(c)' <=> Copied(c)) /\ (pc'[c] = "start" <=> pc[c] = "start")
    BY <2>1, <2>2 DEF Copied
  <2>4. \A c \in Client : reading'[c] \in {reading[c], NoClient, fdtab[sockfd[t]]} /\ (c # t => reading'[c] = reading[c])
    BY <1>5 DEF Read, ReadData, ReadEnd, Write
  <2>5. fdtab[sockfd[t]] = t
    BY <1>1, <2>1 DEF OwnDescriptor
  <2>6. \A c \in Client : reading'[c] \in {c, NoClient}
    BY <1>1, <2>4, <2>5 DEF OwnDescriptor
  <2>7. \A fd \in Fd : fdtab[fd] # NoClient => fdtab[fd] \in Client
    OBVIOUS
  <2> QED
    BY <1>1, <2>1, <2>3, <2>6, <2>7 DEF OwnDescriptor
<1>6. ASSUME NEW t \in Client, Close(t) PROVE OwnDescriptor'
  <2>1. /\ pc[t] = "close" /\ pc' = [pc EXCEPT ![t] = "done"] /\ UNCHANGED <<sockfd, reading, client_fd>>
        /\ \A fd \in Fd : fdtab'[fd] = IF fd = sockfd[t] THEN NoClient ELSE fdtab[fd]
    BY <1>6 DEF Close, Goto, Closing
  <2>2. sockfd[t] # Failed /\ fdtab[sockfd[t]] = t
    BY <1>1, <2>1 DEF OwnDescriptor, Copied
  <2>3. \A c \in Client : /\ Copied(c)' <=> Copied(c) /\ c # t
                          /\ pc'[c] = "start" <=> pc[c] = "start"
    BY <2>1 DEF Copied
  <2>4. \A fd \in Fd : fdtab[fd] # t => fdtab'[fd] = fdtab[fd]
    BY <2>1, <2>2
  <2>5. \A fd \in Fd : fdtab'[fd] # NoClient => fdtab'[fd] = fdtab[fd] /\ fdtab[fd] # t /\ fdtab[fd] \in Client
    BY <2>1, <2>2 DEF Connections
  <2>6. ASSUME NEW c \in Client, pc'[c] = "start" PROVE client_fd # Failed /\ fdtab'[client_fd] = c
    <3>1. pc[c] = "start" /\ c # t
      BY <2>1, <2>3, <2>6
    <3>2. client_fd \in Fd /\ client_fd # Failed /\ fdtab[client_fd] = c
      BY <1>1, <3>1 DEF OwnDescriptor
    <3> QED
      BY <2>4, <3>1, <3>2
  <2>7. ASSUME NEW c \in Client, Copied(c)' PROVE sockfd[c] # Failed /\ fdtab'[sockfd[c]] = c
    <3>1. Copied(c) /\ c # t
      BY <2>3, <2>7
    <3>2. sockfd[c] \in Fd /\ sockfd[c] # Failed /\ fdtab[sockfd[c]] = c
      BY <1>1, <3>1 DEF OwnDescriptor
    <3> QED
      BY <2>4, <3>1, <3>2
  <2>8. ASSUME NEW fd \in Fd, fdtab'[fd] # NoClient
        PROVE  pc'[fdtab'[fd]] \in {"start", "read", "blocked", "write", "close"}
    <3>1. fdtab'[fd] = fdtab[fd] /\ fdtab[fd] # t /\ fdtab[fd] \in Client /\ fdtab[fd] # NoClient
      BY <2>5, <2>8
    <3>2. pc[fdtab[fd]] \in {"start", "read", "blocked", "write", "close"}
      BY <1>1, <3>1 DEF OwnDescriptor, Copied
    <3>3. pc'[fdtab[fd]] = pc[fdtab[fd]]
      BY <2>1, <3>1
    <3> QED
      BY <3>1, <3>2, <3>3
  <2> QED
    BY <1>1, <2>1, <2>6, <2>7, <2>8 DEF OwnDescriptor, Copied
<1>7. ASSUME NEW t \in Client, BrokenPipe(t) PROVE OwnDescriptor'
  BY <1>7 DEF BrokenPipe, OwnDescriptor, Copied
<1>8. CASE UNCHANGED vars \/ \E c \in Client : ClientReads(c) \/ UserActs(c)
  <2>1. UNCHANGED <<pc, sockfd, reading, fdtab, client_fd>>
    BY <1>8 DEF ClientReads, UserActs, server, thread, vars
  <2> QED
    BY <1>1, <2>1 DEF OwnDescriptor, Copied
<1> QED
  BY <1>2, <1>3, <1>4, <1>5, <1>6, <1>7, <1>8 DEF Next, ThreadStep

\* What was read of a line is a number that only grows.
LEMMA TakenNat ==
  ASSUME IInv, NEW c \in Client
  PROVE  /\ Taken(c) \in Nat /\ LineTaken(c) \in 0..LineLen
         /\ Taken(c) + Len(toServer[c]) <= MaxLine
<1>1. Len(toServer[c]) \in Nat /\ Len(toServer[c]) <= MaxLine /\ (asked[c] = <<>> => toServer[c] = <<>>)
  BY DEF IInv, TypeOK, NetTypeOK, Sent
<1>2. Taken(c) \in Nat /\ Taken(c) + Len(toServer[c]) <= MaxLine
  BY <1>1, ClientAssumption DEF Taken, MaxLine
<1> QED
  BY <1>2, ClientAssumption DEF LineTaken

\* A read takes the next units of what was sent.
LEMMA ReadSent ==
  ASSUME IInv, NEW t \in Client, NEW c \in Client, NEW n \in 1..MaxLine, Take(c, n)
  PROVE  /\ Sent(c)' /\ Taken(c)' = Taken(c) + n /\ asked[c] # <<>>
         /\ \A k \in 1..n : ReadInto(buf[t], c, n)[k] = Unit(c, Taken(c) + k, LineLen)
<1> DEFINE len == Len(toServer[c])
<1>1. /\ n <= len /\ len \in Nat /\ Len(toServer'[c]) = len - n
      /\ \A k \in 1 .. len - n : toServer'[c][k] = toServer[c][n + k]
      /\ \A k \in 1..MaxLine : ReadInto(buf[t], c, n)[k] = IF k <= n THEN toServer[c][k] ELSE buf[t][k]
  BY ReadUnits
<1>2. UNCHANGED <<client, asked>> /\ Sent(c) /\ MaxLine \in Nat /\ n \in Nat /\ 1 <= n /\ n <= MaxLine
  BY ClientAssumption DEF Take, IInv, MaxLine
<1>3. asked[c] # <<>> /\ len <= MaxLine
  BY <1>1, <1>2 DEF Sent
<1>4. Taken(c) = MaxLine - len /\ Taken(c)' = Taken(c) + n
  BY <1>1, <1>2, <1>3 DEF Taken, MaxLine
<1>5. ASSUME NEW k \in 1..Len(toServer'[c]) PROVE toServer'[c][k] = Unit(c, Taken(c)' + k, LineLen)
  <2>1. n + k \in 1..len /\ k \in 1 .. len - n /\ Taken(c) + (n + k) = Taken(c)' + k
    BY <1>1, <1>2, <1>4
  <2> QED
    BY <1>1, <1>2, <2>1 DEF Sent
<1>6. Sent(c)'
  <2>1. Len(toServer'[c]) <= MaxLine
    BY <1>1, <1>2, <1>3
  <2> QED
    BY <1>2, <1>3, <1>5, <2>1 DEF Sent, MaxLine
<1>7. ASSUME NEW k \in 1..n PROVE ReadInto(buf[t], c, n)[k] = Unit(c, Taken(c) + k, LineLen)
  <2>1. k \in 1..len /\ k \in 1..MaxLine /\ k <= n
    BY <1>1, <1>2
  <2> QED
    BY <1>1, <1>2, <2>1 DEF Sent
<1> QED
  BY <1>3, <1>4, <1>6, <1>7

\* Only its client and the readers of a connection change what it carries.
LEMMA SentNext ==
  ASSUME IInv, [Next]_vars, NEW c \in Client
  PROVE  /\ Sent(c)' /\ Taken(c) <= Taken(c)'
         /\ (\A d \in Client : ~Ask(d)) => asked' = asked
<1> USE DEF IInv, TypeOK, NetTypeOK
<1>1. Sent(c) /\ Taken(c) \in Nat
  BY TakenNat
<1>2. ASSUME UNCHANGED <<asked, toServer>>, \A d \in Client : client'[d] \in {"new", "typing"} => client[d] \in {"new", "typing"}
      PROVE  Sent(c)' /\ Taken(c)' = Taken(c)
  BY <1>1, <1>2 DEF Sent, Taken
<1>3. CASE Accept \/ AcceptFails \/ UNCHANGED vars
  <2>1. UNCHANGED <<client, asked, toServer>>
    BY <1>3 DEF Accept, AcceptFails, TakeNext, vars, net
  <2> QED
    BY <1>1, <1>2, <2>1
<1>4. ASSUME NEW t \in Client, Start(t) \/ Read(t) \/ ReadEnd(t) \/ Write(t) \/ Close(t) \/ BrokenPipe(t)
      PROVE  Sent(c)' /\ Taken(c) <= Taken(c)' /\ asked' = asked
  <2>1. UNCHANGED <<client, asked, toServer>>
    BY <1>4 DEF Start, Read, ReadEnd, Write, Close, BrokenPipe, Give, net
  <2> QED
    BY <1>1, <1>2, <2>1
<1>5. ASSUME NEW t \in Client, ReadData(t) PROVE Sent(c)' /\ Taken(c) <= Taken(c)' /\ asked' = asked
  <2>1. reading[t] \in Client
    BY <1>5 DEF ReadData, Connections
  <2>2. PICK n \in 1..MaxLine : Take(reading[t], n)
    BY <1>5 DEF ReadData
  <2>3. n \in Nat
    BY ClientAssumption DEF MaxLine
  <2>4. CASE reading[t] = c
    <3>1. Sent(c)' /\ Taken(c)' = Taken(c) + n /\ asked' = asked
      BY <2>2, <2>4, ReadSent DEF Take
    <3> QED
      BY <1>1, <2>3, <3>1
  <2>5. CASE reading[t] # c
    <3>1. UNCHANGED <<client, asked>> /\ toServer'[c] = toServer[c]
      BY <2>1, <2>2, <2>5 DEF Take
    <3> QED
      BY <1>1, <3>1 DEF Sent, Taken
  <2> QED
    BY <2>4, <2>5
<1>6. ASSUME NEW d \in Client, Ask(d) PROVE Sent(c)' /\ Taken(c) <= Taken(c)'
  <2>1. asked[d] = <<>> /\ toServer[d] = <<>>
    BY <1>6 DEF Ask, Sent
  <2>2. CASE d = c
    <3>1. /\ client'[c] = "waiting" /\ asked'[c] = Line(c) /\ toServer'[c] = Append(Line(c), NUL)
      BY <1>6, <2>2 DEF Ask
    <3>2. /\ Line(c) # <<>> /\ Len(toServer'[c]) = MaxLine
          /\ \A k \in 1..MaxLine : toServer'[c][k] = Unit(c, k, LineLen)
      BY <3>1, AskData
    <3>3. Taken(c)' = 0 /\ Taken(c) = 0 /\ \A k \in 1..MaxLine : Taken(c)' + k = k
      BY <2>1, <2>2, <3>1, <3>2, ClientAssumption DEF Taken, MaxLine
    <3> QED
      BY SMTT(30), <3>1, <3>2, <3>3, ClientAssumption DEF Sent, Line, MaxLine
  <2>3. CASE d # c
    <3>1. client'[c] = client[c] /\ asked'[c] = asked[c] /\ toServer'[c] = toServer[c]
      BY <1>6, <2>3 DEF Ask
    <3> QED
      BY <1>1, <3>1 DEF Sent, Taken
  <2> QED
    BY <2>2, <2>3
<1>7. ASSUME NEW d \in Client, Connect(d, ~dead) \/ HangUp(d) \/ ReadAnswer(d, Gone(d))
      PROVE  Sent(c)' /\ Taken(c) <= Taken(c)' /\ asked' = asked
  <2>1. UNCHANGED <<asked, toServer>>
    BY <1>7 DEF Connect, HangUp, ReadAnswer
  <2>2. \A e \in Client : client'[e] \in {"new", "typing"} => client[e] \in {"new", "typing"}
    BY <1>7 DEF Connect, HangUp, ReadAnswer
  <2> QED
    BY <1>1, <1>2, <2>1, <2>2
<1>8. CASE \E d \in Client : Ask(d)
  BY <1>6, <1>8
<1>9. CASE \A d \in Client : ~Ask(d)
  <2>1. CASE Accept \/ AcceptFails \/ UNCHANGED vars
    BY <1>1, <1>3, <2>1 DEF Accept, AcceptFails, TakeNext, vars, net
  <2> QED
    BY <1>4, <1>5, <1>7, <1>9, <2>1 DEF Next, ThreadStep, ClientReads, UserActs
<1> QED
  BY <1>8, <1>9

\* What a thread leaves in its buffer.
LEMMA CleanNext ==
  ASSUME IInv, [Next]_vars, NEW t \in Client PROVE Clean(t)'
<1> USE DEF IInv, TypeOK, NetTypeOK
<1>1. Clean(t) /\ Len(Zeroed) = MaxLine
  BY ClientAssumption DEF Zeroed, MaxLine
<1>2. ASSUME buf'[t] = buf[t], pc'[t] \in {"write", "done"} \/ pc[t] \notin {"write", "done"} PROVE Clean(t)'
  BY <1>1, <1>2 DEF Clean, MaxLine, Zeroed
<1>3. CASE Accept \/ AcceptFails \/ UNCHANGED vars \/ \E c \in Client : ClientReads(c) \/ UserActs(c)
  <2>1. CASE Accept
    <3>1. Head(backlog) \in Client /\ pc[Head(backlog)] = "none"
      BY <2>1, QueueTail DEF Accept, Connections
    <3>2. buf' = buf /\ (pc'[t] = pc[t] \/ pc[t] = "none")
      BY <2>1, <3>1 DEF Accept
    <3> QED
      BY <1>2, <3>2
  <2>2. CASE ~Accept
    BY <1>2, <1>3, <2>2 DEF AcceptFails, ClientReads, UserActs, server, thread, vars
  <2> QED
    BY <2>1, <2>2
<1>4. ASSUME NEW s \in Client, ThreadStep(s), s # t PROVE Clean(t)'
  <2>1. buf'[t] = buf[t] /\ pc'[t] = pc[t]
    BY <1>4 DEF ThreadStep, Start, Read, ReadData, ReadEnd, Write, Close, Goto
  <2> QED
    BY <1>2, <2>1
<1>5. CASE Start(t) \/ Read(t) \/ ReadEnd(t) \/ Close(t)
  <2>1. buf' = buf /\ pc[t] \notin {"write", "done"}
    BY <1>5 DEF Start, Read, ReadEnd, Close
  <2> QED
    BY <1>2, <2>1
<1>6. CASE ReadData(t)
  <2>1. reading[t] \in Client
    BY <1>6 DEF ReadData, Connections
  <2>2. PICK n \in 1..MaxLine :
          /\ Take(reading[t], n)
          /\ buf' = [buf EXCEPT ![t] = ReadInto(@, reading[t], n)]
          /\ Goto(t, IF Continues(n) THEN "write" ELSE "close")
    BY <1>6 DEF ReadData
  <2>3. pc'[t] = "write" /\ buf'[t] = ReadInto(buf[t], reading[t], n)
    <3>1. Continues(n)
      BY ClientAssumption DEF Continues, MaxLine
    <3> QED
      BY <2>2, <3>1 DEF Goto
  <2>4. Len(buf'[t]) = MaxLine
    BY SMTT(30), <2>1, <2>2, <2>3, ReadUnits
  <2> QED
    BY <2>3, <2>4 DEF Clean, MaxLine
<1>7. CASE Write(t)
  BY <1>1, <1>7 DEF Write, Cleared, Clean, MaxLine, Zeroed
<1>8. ASSUME NEW s \in Client, BrokenPipe(s) PROVE Clean(t)'
  BY <1>2, <1>8 DEF BrokenPipe
<1> QED
  BY <1>3, <1>4, <1>5, <1>6, <1>7, <1>8 DEF Next, ThreadStep

\* What was read stays read.
LEMMA WasReadKept ==
  ASSUME IInv, [Next]_vars PROVE WasRead \subseteq WasRead' /\ NUL \notin WasRead /\ NUL \notin WasRead'
<1>1. ASSUME NEW u \in WasRead PROVE u \in WasRead'
  <2>1. u \in Client \X (1..LineLen) /\ u[1] \in Client /\ u[2] \in Nat /\ u[2] <= Taken(u[1])
    BY <1>1, ClientAssumption DEF WasRead
  <2>2. Taken(u[1]) \in Nat /\ Taken(u[1]) <= Taken(u[1])'
    BY <2>1, SentNext, TakenNat
  <2>3. Taken(u[1])' \in Nat
    <3>1. Sent(u[1])' /\ Len(toServer'[u[1]]) \in Nat
      BY <2>1, TypesNext, SentNext DEF TypeOK, NetTypeOK
    <3>2. Len(toServer'[u[1]]) <= MaxLine
      BY <3>1 DEF Sent, MaxLine
    <3> QED
      BY <3>1, <3>2, ClientAssumption DEF Taken, MaxLine
  <2>4. u[2] <= Taken(u[1])'
    BY <2>1, <2>2, <2>3
  <2> QED
    BY <2>1, <2>4 DEF WasRead
<1> QED
  BY <1>1, ClientAssumption DEF WasRead

\* A read brings units into a buffer that nobody has had yet.
LEMMA OnceRead ==
  ASSUME IInv, [Next]_vars, NEW t \in Client, ReadData(t) PROVE Once'
<1> USE DEF IInv
<1>1. reading[t] \in Client
  BY DEF ReadData, Connections
<1> PICK r \in Client : r = reading[t]
  BY <1>1
<1>2. PICK n \in 1..MaxLine : Take(r, n) /\ buf' = [buf EXCEPT ![t] = ReadInto(@, r, n)]
  BY DEF ReadData
<1>3. answer' = answer /\ buf[t] = Zeroed
  BY <1>2 DEF ReadData, Take, Clean
<1>4. /\ LineLen \in Nat \ {0} /\ MaxLine = LineLen + 1 /\ NUL \notin Client \X (1..LineLen)
      /\ n \in Nat /\ n <= MaxLine /\ Taken(r) \in Nat
  BY <1>3, ClientAssumption, TakenNat DEF MaxLine
<1>5. /\ Taken(r)' = Taken(r) + n
      /\ \A k \in 1..n : ReadInto(buf[t], r, n)[k] = Unit(r, Taken(r) + k, LineLen)
  BY <1>2, <1>3, ReadSent
<1>6. \A k \in 1..MaxLine : k > n => ReadInto(buf[t], r, n)[k] = NUL
  <2>1. \A k \in 1..MaxLine : Zeroed[k] = NUL
    BY DEF Zeroed
  <2> QED
    BY <1>2, <1>3, <1>4, <2>1, ReadUnits
<1>7. /\ buf'[t] = ReadInto(buf[t], r, n) /\ \A s \in Client : s # t => buf'[s] = buf[s]
  BY <1>2 DEF TypeOK
<1>8. ASSUME NEW k \in 1..MaxLine, buf'[t][k] # NUL
      PROVE  k <= n /\ Taken(r) + k \in 1..LineLen /\ buf'[t][k] = <<r, Taken(r) + k>>
  <2>1. k \in 1..n
    BY <1>4, <1>6, <1>7, <1>8
  <2>2. buf'[t][k] = Unit(r, Taken(r) + k, LineLen)
    BY <1>5, <1>7, <2>1
  <2> QED
    BY <1>4, <1>8, <2>1, <2>2 DEF Unit
<1>9. ASSUME NEW k \in 1..MaxLine, NEW u \in WasRead PROVE buf'[t][k] # u
  <2> SUFFICES ASSUME buf'[t][k] = u PROVE FALSE
    OBVIOUS
  <2>1. u # NUL
    BY <1>9, WasReadKept
  <2>2. u = <<r, Taken(r) + k>>
    BY <1>8, <1>9, <2>1
  <2>3. PICK c \in Client, i \in 1..LineLen : u = <<c, i>> /\ i <= Taken(c)
    BY <1>9, <2>1 DEF WasRead
  <2>4. c = r /\ i = Taken(r) + k
    BY <2>2, <2>3
  <2> QED
    BY <1>4, <2>3, <2>4
<1>10. \A d \in Client : \A k \in 1..Len(answer'[d]) : answer'[d][k] \in WasRead'
  BY <1>3, WasReadKept DEF Once
<1>11. ASSUME NEW s \in Client, NEW k \in 1..MaxLine PROVE buf'[s][k] \in WasRead' \cup {NUL}
  <2>1. CASE s # t
    <3>1. buf'[s][k] = buf[s][k] /\ buf[s][k] \in WasRead \cup {NUL}
      BY <1>7, <2>1 DEF Once
    <3> QED
      BY <3>1, WasReadKept
  <2>2. CASE s = t
    <3>1. ASSUME buf'[t][k] # NUL PROVE buf'[t][k] \in WasRead'
      <4>1. Taken(r) + k \in 1..LineLen /\ Taken(r) + k <= Taken(r)' /\ buf'[t][k] = <<r, Taken(r) + k>>
        BY <1>4, <1>5, <1>8, <3>1
      <4> QED
        BY <4>1 DEF WasRead
    <3> QED
      BY <2>2, <3>1
  <2> QED
    BY <2>1, <2>2
<1>12. ASSUME NEW s \in Client, NEW k \in 1..MaxLine, NEW m \in 1..MaxLine,
              buf'[t][k] = buf'[s][m], buf'[t][k] # NUL
       PROVE  t = s /\ k = m
  <2>1. CASE s # t
    <3>1. buf'[s][m] = buf[s][m] /\ buf[s][m] \in WasRead \cup {NUL}
      BY <1>7, <2>1 DEF Once
    <3> QED
      BY <1>9, <1>12, <3>1
  <2>2. CASE s = t
    <3>1. buf'[t][k] = <<r, Taken(r) + k>> /\ buf'[t][m] = <<r, Taken(r) + m>>
      BY <1>8, <1>12, <2>2
    <3>2. Taken(r) + k = Taken(r) + m
      BY <1>12, <2>2, <3>1
    <3> QED
      BY <1>4, <2>2, <3>2
  <2> QED
    BY <2>1, <2>2
<1>13. \A s, o \in Client : \A k, m \in 1..MaxLine :
         buf'[o][k] = buf'[s][m] /\ buf'[o][k] # NUL => o = s /\ k = m
  <2> SUFFICES ASSUME NEW s \in Client, NEW o \in Client, NEW k \in 1..MaxLine, NEW m \in 1..MaxLine,
                      buf'[o][k] = buf'[s][m], buf'[o][k] # NUL
               PROVE  o = s /\ k = m
    OBVIOUS
  <2>1. CASE o = t
    BY <1>12, <2>1
  <2>2. CASE s = t
    BY <1>12, <2>2
  <2>3. CASE o # t /\ s # t
    BY <1>7, <2>3 DEF Once
  <2> QED
    BY <2>1, <2>2, <2>3
<1>14. ASSUME NEW d \in Client, NEW s \in Client, NEW k \in 1..Len(answer[d]), NEW m \in 1..MaxLine
       PROVE  answer[d][k] # buf'[s][m]
  <2>1. answer[d][k] \in WasRead
    BY DEF Once
  <2>2. CASE s = t
    BY <1>9, <2>1, <2>2
  <2>3. CASE s # t
    BY <1>7, <2>3 DEF Once
  <2> QED
    BY <2>2, <2>3
<1>15. MaxLine' = MaxLine
  BY DEF MaxLine
<1> QED
  BY <1>3, <1>10, <1>11, <1>13, <1>14, <1>15 DEF Once

\* A write moves units from the buffer to one answer.
LEMMA OnceWrite ==
  ASSUME IInv, [Next]_vars, NEW t \in Client, Write(t) PROVE Once'
<1> USE DEF IInv
<1>1. /\ buf' = [buf EXCEPT ![t] = Zeroed]
      /\ IF Connected(sockfd[t]) THEN Give(fdtab[sockfd[t]], UpToNul(buf[t])) ELSE UNCHANGED net
  BY DEF Write, Cleared
<1>2. /\ \A k \in 1..MaxLine : buf'[t][k] = NUL
      /\ \A s \in Client : s # t => buf'[s] = buf[s]
      /\ MaxLine' = MaxLine /\ MaxLine \in Nat
  BY <1>1, ClientAssumption DEF TypeOK, Zeroed, MaxLine
<1>3. \A s \in Client : \A k \in 1..MaxLine : buf'[s][k] = NUL \/ (s # t /\ buf'[s][k] = buf[s][k])
  BY <1>2
<1>4. CASE answer' = answer
  <2>1. \A d \in Client : \A k \in 1..Len(answer[d]) : answer[d][k] \in WasRead' /\ answer[d][k] # NUL
    BY WasReadKept DEF Once
  <2>2. \A s \in Client : \A k \in 1..MaxLine : buf'[s][k] \in WasRead' \cup {NUL}
    BY <1>3, WasReadKept DEF Once
  <2>3. \A s, o \in Client : \A k, j \in 1..MaxLine :
          buf'[o][k] = buf'[s][j] /\ buf'[o][k] # NUL => o = s /\ k = j
    BY <1>3 DEF Once
  <2>4. \A d, s \in Client : \A k \in 1..Len(answer[d]), j \in 1..MaxLine : answer[d][k] # buf'[s][j]
    BY <1>3, <2>1 DEF Once
  <2> QED
    BY <1>2, <1>4, <2>1, <2>2, <2>3, <2>4 DEF Once
<1>5. ASSUME NEW d \in Client, answer' = [answer EXCEPT ![d] = @ \o UpToNul(buf[t])] PROVE Once'
  <2> DEFINE a == Len(answer[d])
             m == Len(UpToNul(buf[t]))
  <2>1. /\ UpToNul(buf[t]) \in Bytes /\ m \in 0..MaxLine
        /\ \A k \in 1..m : UpToNul(buf[t])[k] = buf[t][k] /\ buf[t][k] # NUL
    BY Written, Beginning
  <2>2. answer[d] \in Bytes /\ a \in Nat /\ answer'[d] = answer[d] \o UpToNul(buf[t])
    BY SMTT(30), <1>5, Written DEF Bytes, TypeOK, NetTypeOK
  <2>3. /\ Len(answer'[d]) = a + m
        /\ \A k \in 1 .. a + m : answer'[d][k] = IF k <= a THEN answer[d][k] ELSE UpToNul(buf[t])[k - a]
    <3>1. /\ Len(answer[d] \o UpToNul(buf[t])) = Len(answer[d]) + Len(UpToNul(buf[t]))
          /\ \A k \in 1 .. Len(answer[d]) + Len(UpToNul(buf[t])) :
               (answer[d] \o UpToNul(buf[t]))[k] =
                 IF k <= Len(answer[d]) THEN answer[d][k] ELSE UpToNul(buf[t])[k - Len(answer[d])]
      BY <2>1, <2>2, BytesConcat
    <3> QED
      BY <2>2, <3>1
  <2>4. \A e \in Client : e # d => answer'[e] = answer[e]
    BY <1>5 DEF TypeOK, NetTypeOK
  <2>5. m \in Nat /\ m <= MaxLine
    BY <1>2, <2>1
  <2> HIDE DEF a, m
  \* Where the units of the answers were before.
  <2> DEFINE Old(e, k) == k \in 1..Len(answer[e]) /\ answer'[e][k] = answer[e][k]
             New(e, k) == e = d /\ k - a \in 1..MaxLine /\ answer'[e][k] = buf[t][k - a] /\ buf[t][k - a] # NUL
  <2>6. ASSUME NEW e \in Client, NEW k \in 1..Len(answer'[e]) PROVE Old(e, k) \/ New(e, k)
    <3>1. CASE e # d
      BY <2>4, <2>6, <3>1
    <3>2. CASE e = d /\ k <= a
      <4>1. k \in 1..a
        BY <2>2, <2>3, <2>5, <3>2
      <4>2. k \in 1 .. a + m
        BY <2>2, <2>5, <4>1
      <4> QED
        BY <2>3, <3>2, <4>1, <4>2 DEF a
    <3>3. CASE e = d /\ ~(k <= a)
      <4>1. k \in 1 .. a + m
        BY <2>3, <3>3
      <4>2. k - a \in 1..m /\ k - a \in 1..MaxLine
        BY <1>2, <2>2, <2>5, <3>3, <4>1
      <4> QED
        BY <2>1, <2>3, <3>3, <4>1, <4>2 DEF m
    <3> QED
      BY <3>1, <3>2, <3>3
  <2>7. ASSUME NEW e \in Client, NEW k \in 1..Len(answer'[e]) PROVE answer'[e][k] \in WasRead'
    <3>1. answer'[e][k] \in WasRead
      BY <2>6, <2>7 DEF Once
    <3> QED
      BY <3>1, WasReadKept
  <2>8. ASSUME NEW e \in Client, NEW f \in Client,
               NEW k \in 1..Len(answer'[e]), NEW j \in 1..Len(answer'[f]), answer'[e][k] = answer'[f][j]
        PROVE  e = f /\ k = j
    <3>1. (Old(e, k) \/ New(e, k)) /\ (Old(f, j) \/ New(f, j))
      BY <2>6
    <3>2. ~(Old(e, k) /\ New(f, j)) /\ ~(New(e, k) /\ Old(f, j))
      <4>1. \A o, s \in Client : \A i \in 1..Len(answer[o]), l \in 1..MaxLine : answer[o][i] # buf[s][l]
        BY DEF Once
      <4> QED
        BY <2>8, <4>1
    <3>3. CASE Old(e, k) /\ Old(f, j)
      <4>1. answer[e][k] = answer[f][j] /\ k \in 1..Len(answer[e]) /\ j \in 1..Len(answer[f])
        BY <2>8, <3>3
      <4> QED
        BY <4>1 DEF Once
    <3>4. CASE New(e, k) /\ New(f, j)
      <4>1. k - a = j - a
        BY <2>8, <3>4 DEF Once
      <4>2. k \in Int /\ j \in Int
        OBVIOUS
      <4> QED
        BY <2>2, <3>4, <4>1, <4>2
    <3> QED
      BY <3>1, <3>2, <3>3, <3>4
  <2>9. ASSUME NEW e \in Client, NEW s \in Client, NEW k \in 1..Len(answer'[e]), NEW j \in 1..MaxLine
        PROVE  answer'[e][k] # buf'[s][j]
    <3>1. CASE buf'[s][j] = NUL
      BY <2>7, <3>1, WasReadKept
    <3>2. CASE s # t /\ buf'[s][j] = buf[s][j]
      BY <2>6, <3>2 DEF Once
    <3> QED
      BY <1>3, <3>1, <3>2
  <2>10. ASSUME NEW s \in Client, NEW k \in 1..MaxLine PROVE buf'[s][k] \in WasRead' \cup {NUL}
    <3>1. buf'[s][k] \in WasRead \cup {NUL}
      BY <1>3 DEF Once, WasRead
    <3> QED
      BY <3>1, WasReadKept
  <2>11. \A s, o \in Client : \A k, j \in 1..MaxLine :
           buf'[o][k] = buf'[s][j] /\ buf'[o][k] # NUL => o = s /\ k = j
    BY <1>3 DEF Once
  <2> QED
    BY <1>2, <2>7, <2>8, <2>9, <2>10, <2>11 DEF Once
<1>6. answer' = answer \/ \E d \in Client : answer' = [answer EXCEPT ![d] = @ \o UpToNul(buf[t])]
  BY <1>1 DEF Give, Connected, net, TypeOK, Fd
<1> QED
  BY <1>4, <1>5, <1>6

\* No unit gets into a second place.
LEMMA OnceNext == ASSUME IInv, [Next]_vars PROVE Once'
<1>1. ASSUME UNCHANGED <<answer, buf>> PROVE Once'
  BY <1>1, WasReadKept DEF IInv, Once, MaxLine
<1>2. CASE UNCHANGED <<answer, buf>> \/ \E t \in Client : ReadData(t) \/ Write(t)
  BY <1>1, <1>2, OnceRead, OnceWrite
<1>3. UNCHANGED <<answer, buf>> \/ \E t \in Client : ReadData(t) \/ Write(t)
  BY DEF Next, Accept, AcceptFails, ThreadStep, Start, Read, ReadEnd, Close, BrokenPipe, ClientReads, UserActs,
     Connect, Ask, HangUp, ReadAnswer, TakeNext, server, thread, net, vars
<1> QED
  BY <1>2, <1>3

\* A step that neither sends, reads nor writes for a client leaves its answer.
LEMMA OwnAnswerKept ==
  ASSUME NEW c \in Client, OwnAnswer(c), Closed(c) => Closed(c)',
         asked'[c] = asked[c], toServer'[c] = toServer[c], answer'[c] = answer[c], buf'[c] = buf[c],
         \/ pc'[c] = pc[c]
         \/ {pc[c], pc'[c]} \subseteq {"none", "start", "read", "blocked"}
         \/ pc'[c] \in {"close", "done"}
  PROVE  OwnAnswer(c)'
BY DEF OwnAnswer, Taken, LineTaken, MaxLine

\* Nothing was read yet of a line that is sent now.
LEMMA OwnAnswerAsk ==
  ASSUME IInv, NEW c \in Client, OwnAnswer(c), Ask(c), UNCHANGED <<pc, buf>> PROVE OwnAnswer(c)'
<1>1. asked[c] = <<>> /\ answer[c] = <<>> /\ pc[c] # "write" /\ answer' = answer
  BY DEF Ask, IInv, Sent, OwnAnswer
<1>2. asked'[c] = Line(c) /\ toServer'[c] = Append(Line(c), NUL)
  BY DEF Ask, IInv, TypeOK, NetTypeOK
<1>3. Line(c) # <<>> /\ Len(toServer'[c]) = MaxLine /\ LineLen \in Nat
  BY <1>2, AskData, ClientAssumption
<1>4. Taken(c)' = 0 /\ LineTaken(c)' = 0 /\ Len(answer'[c]) = 0
  BY <1>1, <1>2, <1>3 DEF Taken, LineTaken, MaxLine
<1> QED
  BY <1>1, <1>2, <1>3, <1>4 DEF OwnAnswer

\* What is read is exactly what the answer still lacks of what has been read.
LEMMA OwnAnswerRead ==
  ASSUME IInv, NEW c \in Client, OwnAnswer(c), ReadData(c), reading[c] = c PROVE OwnAnswer(c)'
<1>1. PICK n \in 1..MaxLine :
        /\ Take(c, n)
        /\ buf' = [buf EXCEPT ![c] = ReadInto(@, c, n)]
        /\ pc' = [pc EXCEPT ![c] = IF Continues(n) THEN "write" ELSE "close"]
  BY DEF ReadData, Goto
<1>2. /\ LineLen \in Nat \ {0} /\ MaxLine = LineLen + 1 /\ MaxLine' = MaxLine
      /\ n \in Nat /\ 1 <= n /\ n <= MaxLine
  BY ClientAssumption DEF MaxLine
<1>3. /\ UNCHANGED <<client, asked, answer>> /\ pc[c] = "blocked" /\ pc'[c] = "write"
      /\ buf'[c] = ReadInto(buf[c], c, n) /\ \A k \in 1..MaxLine : buf[c][k] = NUL
  <2>1. Continues(n)
    BY <1>2 DEF Continues
  <2>2. buf[c] = Zeroed
    BY DEF IInv, Clean, ReadData
  <2> QED
    BY <1>1, <2>1, <2>2 DEF Take, ReadData, IInv, TypeOK, Zeroed
<1>4. /\ asked[c] # <<>> /\ Taken(c) \in Nat /\ Taken(c)' = Taken(c) + n
      /\ \A k \in 1..n : buf'[c][k] = Unit(c, Taken(c) + k, LineLen)
  BY <1>1, <1>3, ReadSent, TakenNat
<1>5. Taken(c)' <= MaxLine
  <2>1. Taken(c) + Len(toServer[c]) <= MaxLine /\ n <= Len(toServer[c]) /\ Len(toServer[c]) \in Nat
    BY <1>1, TakenNat, ReadUnits
  <2> QED
    BY <1>2, <1>4, <2>1
<1>6. \A k \in 1..MaxLine : k > n => buf'[c][k] = NUL
  BY SMTT(30), <1>1, <1>2, <1>3, ReadUnits
<1>7. ASSUME ~Closed(c)
      PROVE  /\ Len(answer[c]) <= LineTaken(c)'
             /\ \A k \in 1..MaxLine : buf'[c][k] = Unit(c, Len(answer[c]) + k, LineTaken(c)')
  <2> DEFINE a == Len(answer[c])
             upto == IF a + n <= LineLen THEN a + n ELSE LineLen
  <2>1. a = Taken(c) /\ a <= LineLen
    BY <1>2, <1>3, <1>4, <1>5, <1>7 DEF OwnAnswer, LineTaken
  <2>2. LineTaken(c)' = upto
    BY <1>4, <2>1 DEF LineTaken
  <2>3. a \in Nat /\ a <= upto /\ upto \in Nat
    BY <1>2, <1>4, <2>1
  <2>4. ASSUME NEW k \in 1..MaxLine PROVE buf'[c][k] = Unit(c, a + k, upto)
    <3>1. k \in Nat /\ 1 <= k
      BY <1>2
    <3>2. CASE k <= n
      <4>1. buf'[c][k] = Unit(c, a + k, LineLen)
        BY <1>4, <2>1, <3>1, <3>2
      <4>2. a + k <= upto <=> a + k <= LineLen
        BY <1>2, <2>3, <3>1, <3>2
      <4> QED
        BY <4>1, <4>2 DEF Unit
    <3>3. CASE k > n
      <4>1. buf'[c][k] = NUL /\ ~(a + k <= upto)
        BY <1>2, <1>6, <2>3, <3>1, <3>3
      <4> QED
        BY <4>1 DEF Unit
    <3> QED
      BY <1>2, <3>1, <3>2, <3>3
  <2> QED
    BY <2>2, <2>3, <2>4
<1> QED
  BY <1>2, <1>3, <1>4, <1>7 DEF OwnAnswer, Closed

\* What is written continues the line where the answer ends.
LEMMA OwnAnswerWrite ==
  ASSUME IInv, NEW c \in Client, OwnAnswer(c), pc[c] = "write", pc'[c] = "read",
         UNCHANGED <<client, asked, toServer>>,
         answer' = IF Closed(c) THEN answer ELSE [answer EXCEPT ![c] = @ \o UpToNul(buf[c])]
  PROVE  OwnAnswer(c)'
<1>1. /\ LineLen \in Nat \ {0} /\ MaxLine = LineLen + 1 /\ NUL \notin Client \X (1..LineLen)
      /\ asked[c] # <<>> /\ LineTaken(c) \in 0..LineLen
  BY ClientAssumption, TakenNat DEF MaxLine, OwnAnswer
<1>2. Taken(c)' = Taken(c) /\ LineTaken(c)' = LineTaken(c) /\ (Closed(c)' <=> Closed(c))
  BY DEF Taken, LineTaken, Closed, MaxLine
<1>3. CASE Closed(c)
  BY <1>1, <1>2, <1>3 DEF OwnAnswer
<1>4. CASE ~Closed(c)
  <2> DEFINE b == buf[c]
             u == UpToNul(b)
  <2>1. b \in Bytes /\ Len(b) = MaxLine /\ u \in Bytes /\ answer[c] \in Bytes /\ answer'[c] = answer[c] \o u
    BY <1>4, Written DEF IInv, TypeOK, NetTypeOK, Bytes
  <2>2. Len(answer[c]) \in Nat /\ Len(answer[c]) <= LineTaken(c) /\ Len(u) \in 0..MaxLine
    BY <1>4, <2>1, Beginning DEF OwnAnswer, Bytes
  <2>3. PICK a \in Nat, m \in Nat, n \in Nat :
        a = Len(answer[c]) /\ m = LineTaken(c) /\ n = Len(u) /\ a <= m /\ m <= LineLen /\ n <= MaxLine
    BY <1>1, <2>2
  <2>4. a <= m /\ m <= LineLen /\ n <= MaxLine
    BY <2>3
  <2>5. \A k \in 1..MaxLine : b[k] = Unit(c, a + k, m)
    BY <1>4, <2>3 DEF OwnAnswer
  <2>6. /\ \A k \in 1..n : u[k] = b[k] /\ b[k] # NUL
        /\ (\E k \in 1..MaxLine : b[k] = NUL) => n < MaxLine /\ b[n + 1] = NUL
    BY <2>1, <2>3, Beginning
  <2> HIDE DEF b, u
  <2>7. n < MaxLine /\ b[n + 1] = NUL
    <3>1. MaxLine \in 1..MaxLine /\ ~(a + MaxLine <= m)
      BY <1>1, <2>4
    <3>2. b[MaxLine] = NUL
      BY <2>5, <3>1 DEF Unit
    <3> QED
      BY <2>6, <3>1, <3>2
  <2>8. a + n = m
    <3>1. ~(a + (n + 1) <= m)
      <4> SUFFICES ASSUME a + (n + 1) <= m PROVE FALSE
        OBVIOUS
      <4>1. n + 1 \in 1..MaxLine /\ a + (n + 1) \in 1..LineLen
        BY <1>1, <2>7, <2>4
      <4>2. b[n + 1] = <<c, a + (n + 1)>>
        BY <2>5, <4>1 DEF Unit
      <4> QED
        BY <1>1, <2>7, <4>1, <4>2
    <3>2. n = 0 \/ a + n <= m
      <4> SUFFICES ASSUME n # 0, ~(a + n <= m) PROVE FALSE
        OBVIOUS
      <4>1. n \in 1..MaxLine /\ n \in 1..n
        BY <1>1, <2>4
      <4>2. b[n] = NUL
        BY <2>5, <4>1 DEF Unit
      <4> QED
        BY <2>6, <4>1, <4>2
    <3> QED
      BY <2>4, <3>1, <3>2
  <2>9. \A k \in 1..n : u[k] = <<c, a + k>>
    <3> SUFFICES ASSUME NEW k \in 1..n PROVE u[k] = <<c, a + k>>
      OBVIOUS
    <3>1. k \in 1..MaxLine /\ a + k <= m
      BY <1>1, <2>8, <2>4
    <3> QED
      BY <2>5, <2>6, <3>1 DEF Unit
  <2>10. /\ Len(answer[c] \o u) = Len(answer[c]) + Len(u)
        /\ \A k \in 1 .. Len(answer[c]) + Len(u) :
             (answer[c] \o u)[k] = IF k <= Len(answer[c]) THEN answer[c][k] ELSE u[k - Len(answer[c])]
    BY <2>1, BytesConcat
  <2>11. /\ Len(answer'[c]) = a + n
        /\ \A k \in 1 .. a + n : answer'[c][k] = IF k <= a THEN answer[c][k] ELSE u[k - a]
    BY <2>1, <2>10, <2>3
  <2>12. ASSUME NEW k \in 1..Len(answer'[c]) PROVE answer'[c][k] = <<c, k>>
    <3>1. k \in 1 .. a + n
      BY <2>11
    <3>2. CASE k <= a
      <4>1. k \in 1..a
        BY <3>1, <3>2
      <4> QED
        BY <2>11, <2>3, <3>1, <3>2, <4>1 DEF OwnAnswer
    <3>3. CASE ~(k <= a)
      <4>1. k - a \in 1..n /\ a + (k - a) = k
        BY <3>1, <3>3
      <4> QED
        BY <2>9, <2>11, <3>1, <3>3, <4>1
    <3> QED
      BY <3>2, <3>3
  <2>13. Len(answer'[c]) = LineTaken(c)' /\ Len(answer'[c]) <= LineLen
    BY <1>1, <1>2, <2>8, <2>11, <2>3
  <2> QED
    BY <1>1, <1>2, <2>12, <2>13 DEF OwnAnswer
<1> QED
  BY <1>3, <1>4

\* Until the race every client is sent beginnings of its own line.
LEMMA OwnAnswerNext ==
  ASSUME IInv, [Next]_vars, ~raced', NEW c \in Client PROVE OwnAnswer(c)'
<1>1. ~raced
  BY DEF Next, Accept, AcceptFails, Overwrite, ThreadStep, Start, Read, ReadData, ReadEnd, Write, Close,
     BrokenPipe, ClientReads, UserActs, server, vars
<1>2. OwnAnswer(c)
  BY <1>1 DEF IInv
<1>3. CASE Accept
  <2>1. Head(backlog) \in Client /\ pc[Head(backlog)] = "none"
    BY <1>3, QueueTail DEF Accept, IInv, TypeOK, NetTypeOK, Connections
  <2>2. UNCHANGED <<client, asked, toServer, answer, buf>> /\ pc' = [pc EXCEPT ![Head(backlog)] = "start"]
    BY <1>3 DEF Accept, TakeNext
  <2>3. pc'[c] = pc[c] \/ (pc[c] = "none" /\ pc'[c] = "start")
    BY <2>1, <2>2 DEF IInv, TypeOK
  <2> QED
    BY <1>2, <2>2, <2>3, OwnAnswerKept DEF Closed
<1>4. CASE AcceptFails \/ UNCHANGED vars
  <2>1. UNCHANGED <<client, asked, toServer, answer, buf, pc>>
    BY <1>4 DEF AcceptFails, vars, net, thread
  <2> QED
    BY <1>2, <2>1, OwnAnswerKept DEF Closed
<1>5. ASSUME NEW t \in Client, Start(t) \/ Read(t) \/ ReadEnd(t) \/ Close(t) \/ BrokenPipe(t) PROVE OwnAnswer(c)'
  <2>1. UNCHANGED <<client, asked, toServer, answer, buf>>
    BY <1>5 DEF Start, Read, ReadEnd, Close, BrokenPipe, net
  <2>2. \/ pc'[c] = pc[c]
        \/ {pc[c], pc'[c]} \subseteq {"none", "start", "read", "blocked"}
        \/ pc'[c] \in {"close", "done"}
    BY <1>5 DEF Start, Read, ReadEnd, Close, BrokenPipe, Goto, IInv, TypeOK
  <2> QED
    BY <1>2, <2>1, <2>2, OwnAnswerKept DEF Closed
<1>6. ASSUME NEW t \in Client, ReadData(t) PROVE OwnAnswer(c)'
  <2>1. reading[t] = t
    <3>1. pc[t] = "blocked"
      BY <1>6 DEF ReadData
    <3> QED
      BY <1>1, <3>1, ThreadAssumption DEF IInv, OwnDescriptor, Connections
  <2>2. CASE t = c
    BY <1>2, <1>6, <2>1, <2>2, OwnAnswerRead
  <2>3. CASE t # c
    <3>1. UNCHANGED <<client, asked, answer>> /\ toServer'[c] = toServer[c] /\ buf'[c] = buf[c] /\ pc'[c] = pc[c]
      BY <1>6, <2>1, <2>3 DEF ReadData, Take, Goto, IInv, TypeOK, NetTypeOK
    <3> QED
      BY <1>2, <3>1, OwnAnswerKept DEF Closed
  <2> QED
    BY <2>2, <2>3
<1>7. ASSUME NEW t \in Client, Write(t) PROVE OwnAnswer(c)'
  <2>1. fdtab[sockfd[t]] = t /\ Connected(sockfd[t]) /\ pc[t] = "write"
    BY <1>1, <1>7, ThreadAssumption DEF IInv, OwnDescriptor, Write, Copied, Connected
  <2>2. /\ Give(t, UpToNul(buf[t])) /\ buf' = [buf EXCEPT ![t] = Zeroed] /\ pc' = [pc EXCEPT ![t] = "read"]
    BY <1>7, <2>1 DEF Write, Cleared, Goto
  <2>3. CASE t = c
    BY <1>2, <2>1, <2>2, <2>3, OwnAnswerWrite DEF Give, IInv, TypeOK
  <2>4. CASE t # c
    <3>1. UNCHANGED <<client, asked, toServer>> /\ answer'[c] = answer[c] /\ buf'[c] = buf[c] /\ pc'[c] = pc[c]
      BY <2>2, <2>4 DEF Give, IInv, TypeOK, NetTypeOK
    <3> QED
      BY <1>2, <3>1, OwnAnswerKept DEF Closed
  <2> QED
    BY <2>3, <2>4
<1>8. ASSUME NEW d \in Client, ClientReads(d) \/ UserActs(d) PROVE OwnAnswer(c)'
  <2>1. UNCHANGED <<pc, buf>>
    BY <1>8 DEF ClientReads, UserActs, server, thread
  <2>2. CASE Ask(c)
    BY <1>2, <2>1, <2>2, OwnAnswerAsk
  <2>3. CASE ~Ask(c)
    <3>1. answer' = answer /\ asked'[c] = asked[c] /\ toServer'[c] = toServer[c]
      BY <1>8, <2>3 DEF ClientReads, UserActs, Ask, Connect, HangUp, ReadAnswer, IInv, TypeOK, NetTypeOK
    <3>2. Closed(c) => Closed(c)'
      BY <1>8 DEF ClientReads, UserActs, Ask, Connect, HangUp, ReadAnswer, Closed, IInv, TypeOK, NetTypeOK
    <3> QED
      BY <1>2, <2>1, <3>1, <3>2, OwnAnswerKept
  <2> QED
    BY <2>2, <2>3
<1> QED
  BY <1>3, <1>4, <1>5, <1>6, <1>7, <1>8 DEF Next, ThreadStep

\* Together the parts are inductive.
LEMMA NextIInv == IInv /\ [Next]_vars => IInv'
<1> SUFFICES ASSUME IInv, [Next]_vars PROVE IInv'
  OBVIOUS
<1>1. TypeOK' /\ Connections' /\ OwnDescriptor' /\ Once'
  BY TypesNext, ConnectionsNext, OwnDescriptorNext, OnceNext
<1>2. \A c \in Client : Sent(c)' /\ Clean(c)'
  BY SentNext, CleanNext
<1>3. ~raced' => \A c \in Client : OwnAnswer(c)'
  BY OwnAnswerNext
<1> QED
  BY <1>1, <1>2, <1>3 DEF IInv

\* A stretch that agrees with the beginning of a line is a beginning of it.
LEMMA AnswerIsPrefix ==
  ASSUME NEW c \in Client, NEW s \in Bytes, Len(s) <= LineLen, \A k \in 1..Len(s) : s[k] = <<c, k>>
  PROVE  IsPrefix(s, Line(c))
<1>1. /\ Line(c) \in Bytes /\ Len(Line(c)) = LineLen /\ LineLen \in Nat /\ Len(s) \in Nat
      /\ \A k \in 1..LineLen : Line(c)[k] = <<c, k>>
  BY AskData, SeqMonotonic, ClientAssumption DEF Bytes
<1>2. /\ SubSeq(Line(c), 1, Len(s)) \in Bytes /\ Len(SubSeq(Line(c), 1, Len(s))) = Len(s)
      /\ \A k \in 1..Len(s) : SubSeq(Line(c), 1, Len(s))[k] = <<c, k>>
  BY <1>1, BytesPrefix
<1>3. SubSeq(s, 1, Len(s)) \in Bytes /\ Len(SubSeq(s, 1, Len(s))) = Len(s)
      /\ \A k \in 1..Len(s) : SubSeq(s, 1, Len(s))[k] = <<c, k>>
  BY <1>1, BytesPrefix
<1>4. SubSeq(s, 1, Len(s)) = SubSeq(Line(c), 1, Len(s))
  BY <1>2, <1>3, SeqEqual DEF Bytes
<1> QED
  BY <1>1, <1>4 DEF IsPrefix

\* The parts give what the run checks.
LEMMA IInvInv == IInv => Inv
<1> SUFFICES ASSUME IInv PROVE Inv
  OBVIOUS
<1>1. OneThreadEach
  BY ClientAssumption, ThreadAssumption DEF IInv, OwnDescriptor, OneThreadEach, Range, TypeOK
<1>2. EchoIntegrity
  <2> SUFFICES ASSUME ~raced, NEW c \in Client PROVE IsPrefix(answer[c], asked[c])
    BY DEF EchoIntegrity
  <2>1. OwnAnswer(c) /\ Sent(c) /\ answer[c] \in Bytes
    BY DEF IInv, TypeOK, NetTypeOK, Bytes
  <2>2. CASE asked[c] = <<>>
    BY <2>1, <2>2 DEF OwnAnswer, IsPrefix
  <2>3. CASE asked[c] # <<>>
    BY <2>1, <2>3, AnswerIsPrefix DEF OwnAnswer, Sent
  <2> QED
    BY <2>2, <2>3
<1>3. NeverTwice
  <2>1. \A d \in Client : DOMAIN answer[d] = 1..Len(answer[d])
    BY DEF IInv, TypeOK, NetTypeOK
  <2> QED
    BY <2>1 DEF IInv, Once, NeverTwice
<1> QED
  BY <1>1, <1>2, <1>3 DEF Inv, IInv

\* Until client_fd is overwritten too early every connection has its own thread
\* and every client its own line; ever after, too, nothing is sent twice.
THEOREM Safety == Spec => []Inv
BY InitIInv, NextIInv, IInvInv, PTL DEF Spec
=============================================================================
