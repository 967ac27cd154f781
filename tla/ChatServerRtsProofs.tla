------------------------- MODULE ChatServerRtsProofs -------------------------
(***************************************************************************)
(* Proofs about ChatServerRts, for any clients, descriptors, signals and   *)
(* bounds.  That every line which is not read has its signal rests on who  *)
(* is where (Whereabouts); the order of the messages on the log being      *)
(* without repetition (LogOK) and on how far the message being sent has    *)
(* come (InStep); and what is never caught up on the queue having no       *)
(* signal of the listener without its connection (NoSpareSignal).          *)
(***************************************************************************)
EXTENDS ChatServerRts, QueueLemmas, FiniteSetTheorems

Message == [from : Client, first : Nat, last : Nat]

\* Types that TypeOK leaves open.
HistoryOK ==
  /\ heard \in [Client -> Nat] /\ seen \in [Client -> Nat]
  /\ log \in Seq(Message)
  /\ delivered \in [Client -> Seq(Message)]

\* The messages of one client are different lines, in the order of the log; and
\* what is delivered is on the log.
LogOK ==
  /\ \A n \in DOMAIN log : log[n].first <= log[n].last /\ log[n].last <= heard[log[n].from]
  /\ \A m \in DOMAIN log : \A n \in DOMAIN log :
       m < n /\ log[m].from = log[n].from => log[m].last < log[n].first
  /\ \A c \in Client : \A n \in DOMAIN delivered[c] : delivered[c][n] \in Range(log)

\* A client is new, in the backlog, or behind one descriptor; before it is
\* accepted it has been sent nothing; a server that does not listen yet or is dead
\* has no connection.
Whereabouts ==
  /\ \A c \in Client : client[c] = "new" => c \notin Range(backlog) /\ c \notin Range(fdtab)
  /\ Range(backlog) \cap Range(fdtab) = {}
  /\ \A fd \in Fd : \A other \in Fd : fdtab[fd] # NoClient /\ fdtab[other] = fdtab[fd] => other = fd
  /\ \A c \in Client :
       client[c] = "new" \/ c \in Range(backlog) => joined[c] = -1 /\ delivered[c] = <<>>
  /\ pc = "listen" => user_fds = {}
  /\ pc = "setup" => sockfd \in Fd /\ fdtab[sockfd] # NoClient
  /\ pc = "dead" => backlog = <<>> /\ \A fd \in Fd : fdtab[fd] = NoClient

\* While message Len(log) is sent, the clients at descriptor i and above still
\* miss it; every other one is where the log is, or behind if it has lost one.
LastPosition(c) == IF delivered[c] = <<>> THEN joined[c] ELSE Position(Last(delivered[c]))
Missing(fd) == IF pc = "send" /\ fd >= i THEN 1 ELSE 0

InStep ==
  /\ \A fd \in Fd :
       fdtab[fd] \in Client /\ client[fdtab[fd]] = "in" =>
         /\ LastPosition(fdtab[fd]) + Missing(fd) <= Len(log)
         /\ fdtab[fd] \notin lost => LastPosition(fdtab[fd]) + Missing(fd) = Len(log)
  /\ pc = "send" => log # <<>>

\* No signal of the listener without a connection that waits.
Count(q, fd) == Cardinality({n \in DOMAIN q : q[n] = fd})
NoSpareSignal == pc # "dead" => Count(queue, Listener) <= Len(backlog)

IInv == Inv /\ HistoryOK /\ LogOK /\ Whereabouts /\ InStep /\ NoSpareSignal

-----------------------------------------------------------------------------
(* The queue of signals. *)

\* Another signal is queued.
LEMMA SignalAppend ==
  ASSUME NEW S, NEW q \in Seq(S), NEW x \in S
  PROVE  /\ Append(q, x) \in Seq(S) /\ Len(Append(q, x)) = Len(q) + 1
         /\ Range(Append(q, x)) = Range(q) \cup {x}
<1>1. /\ Append(q, x) \in Seq(S) /\ Len(Append(q, x)) = Len(q) + 1
      /\ \A k \in 1..Len(q) : Append(q, x)[k] = q[k]
      /\ Append(q, x)[Len(q) + 1] = x
  OBVIOUS
<1>2. DOMAIN q = 1..Len(q) /\ DOMAIN Append(q, x) = 1 .. Len(q) + 1 /\ Len(q) \in Nat
  BY <1>1
<1> QED
  BY <1>1, <1>2 DEF Range

\* The first signal is taken; equal ones stay behind it.
LEMMA SignalTail ==
  ASSUME NEW S, NEW q \in Seq(S), q # <<>>
  PROVE  /\ Tail(q) \in Seq(S) /\ Len(Tail(q)) = Len(q) - 1 /\ Len(Tail(q)) \in Nat
         /\ Head(q) \in S /\ Range(q) \subseteq Range(Tail(q)) \cup {Head(q)}
<1>1. /\ Tail(q) \in Seq(S) /\ Len(Tail(q)) = Len(q) - 1 /\ Len(Tail(q)) \in Nat
      /\ \A k \in 1 .. Len(q) - 1 : Tail(q)[k] = q[k + 1]
      /\ Head(q) = q[1] /\ Head(q) \in S
  OBVIOUS
<1>2. DOMAIN q = 1..Len(q) /\ DOMAIN Tail(q) = 1 .. Len(q) - 1 /\ Len(q) \in Nat \ {0}
  BY <1>1
<1>3. ASSUME NEW k \in 2..Len(q) PROVE q[k] \in Range(Tail(q))
  <2>1. k - 1 \in DOMAIN Tail(q) /\ Tail(q)[k - 1] = q[k]
    BY <1>1, <1>2
  <2> QED
    BY <2>1 DEF Range
<1>4. Range(q) = {q[k] : k \in 1..Len(q)}
  BY <1>2 DEF Range
<1>5. \A k \in 1..Len(q) : k = 1 \/ k \in 2..Len(q)
  BY <1>2
<1> QED
  BY <1>1, <1>3, <1>4, <1>5

\* The signals of one descriptor are a natural number of them.
LEMMA CountNat ==
  ASSUME NEW S, NEW q \in Seq(S), NEW fd
  PROVE  IsFiniteSet({n \in DOMAIN q : q[n] = fd}) /\ Count(q, fd) \in Nat
<1>1. DOMAIN q = 1..Len(q) /\ Len(q) \in Nat
  OBVIOUS
<1>2. IsFiniteSet(1..Len(q))
  BY <1>1, FS_Interval
<1>3. {n \in DOMAIN q : q[n] = fd} \subseteq 1..Len(q)
  BY <1>1
<1>4. IsFiniteSet({n \in DOMAIN q : q[n] = fd})
  BY <1>2, <1>3, FS_Subset
<1> QED
  BY <1>4, FS_CardinalityType DEF Count

\* One more of its own.
LEMMA CountAppend ==
  ASSUME NEW S, NEW q \in Seq(S), NEW x \in S, NEW fd
  PROVE  Count(Append(q, x), fd) = IF x = fd THEN Count(q, fd) + 1 ELSE Count(q, fd)
<1> DEFINE A == {n \in DOMAIN q : q[n] = fd}
           B == {n \in DOMAIN Append(q, x) : Append(q, x)[n] = fd}
<1>1. /\ Append(q, x) \in Seq(S) /\ Len(Append(q, x)) = Len(q) + 1 /\ Len(q) \in Nat
      /\ \A k \in 1..Len(q) : Append(q, x)[k] = q[k]
      /\ Append(q, x)[Len(q) + 1] = x
  OBVIOUS
<1>2. DOMAIN q = 1..Len(q) /\ DOMAIN Append(q, x) = 1 .. Len(q) + 1
  BY <1>1
<1>3. 1 .. Len(q) + 1 = 1..Len(q) \cup {Len(q) + 1} /\ Len(q) + 1 \notin 1..Len(q)
  BY <1>1
<1>4. B = IF x = fd THEN A \cup {Len(q) + 1} ELSE A
  BY <1>1, <1>2, <1>3
<1>5. IsFiniteSet(A) /\ Cardinality(A) \in Nat /\ Len(q) + 1 \notin A
  BY <1>2, <1>3, CountNat DEF Count
<1> HIDE DEF A, B
<1>6. Cardinality(B) = IF x = fd THEN Cardinality(A) + 1 ELSE Cardinality(A)
  BY <1>4, <1>5, FS_AddElement
<1> QED
  BY <1>6 DEF A, B, Count

\* One less of its own.
LEMMA CountTail ==
  ASSUME NEW S, NEW q \in Seq(S), q # <<>>, NEW fd
  PROVE  Count(Tail(q), fd) = IF Head(q) = fd THEN Count(q, fd) - 1 ELSE Count(q, fd)
<1> DEFINE A == {n \in DOMAIN q : q[n] = fd}
           B == {n \in DOMAIN Tail(q) : Tail(q)[n] = fd}
           C == A \ {1}
           f == [n \in B |-> n + 1]
<1>1. /\ Tail(q) \in Seq(S) /\ Len(Tail(q)) = Len(q) - 1 /\ Len(q) \in Nat \ {0}
      /\ \A k \in 1 .. Len(q) - 1 : Tail(q)[k] = q[k + 1]
      /\ Head(q) = q[1]
  OBVIOUS
<1>2. DOMAIN q = 1..Len(q) /\ DOMAIN Tail(q) = 1 .. Len(q) - 1
  BY <1>1
<1>3. f \in [B -> C]
  <2> SUFFICES ASSUME NEW n \in B PROVE n + 1 \in C
    OBVIOUS
  <2>1. n \in 1 .. Len(q) - 1 /\ Tail(q)[n] = fd
    BY <1>2
  <2>2. n + 1 \in 1..Len(q) /\ n + 1 # 1 /\ q[n + 1] = fd
    BY <1>1, <2>1
  <2> QED
    BY <1>2, <2>2
<1>4. \A m \in B : \A n \in B : f[m] = f[n] => m = n
  <2> SUFFICES ASSUME NEW m \in B, NEW n \in B, m + 1 = n + 1 PROVE m = n
    OBVIOUS
  <2>1. m \in Nat /\ n \in Nat
    BY <1>1, <1>2
  <2> QED
    BY <2>1
<1>5. ASSUME NEW k \in C PROVE \E n \in B : f[n] = k
  <2>1. k \in 2..Len(q) /\ q[k] = fd
    BY <1>1, <1>2
  <2>2. k - 1 \in 1 .. Len(q) - 1 /\ (k - 1) + 1 = k /\ Tail(q)[k - 1] = q[k]
    BY <1>1, <2>1
  <2>3. k - 1 \in B
    BY <1>2, <2>1, <2>2
  <2> QED
    BY <2>2, <2>3
<1>6. IsFiniteSet(A) /\ IsFiniteSet(B) /\ Cardinality(A) \in Nat
  BY <1>1, CountNat DEF Count
<1>7. 1 \in A <=> Head(q) = fd
  BY <1>1, <1>2
<1>8. IsFiniteSet(C) /\ Cardinality(C) = IF 1 \in A THEN Cardinality(A) - 1 ELSE Cardinality(A)
  <2> HIDE DEF A
  <2> QED
    BY <1>6, FS_RemoveElement
<1> HIDE DEF A, B, C, f
<1>9. f \in Bijection(B, C)
  BY <1>3, <1>4, <1>5 DEF Bijection, Injection, Surjection, IsInjective
<1>10. Cardinality(C) = Cardinality(B)
  <2>1. ExistsBijection(B, C)
    BY <1>9 DEF ExistsBijection
  <2> QED
    BY <1>6, <2>1, FS_Bijection
<1> QED
  BY <1>7, <1>8, <1>10 DEF A, B, Count

-----------------------------------------------------------------------------
(* Raising a signal. *)

\* What Raise keeps: the queue grows at its end, or SIGIO is pending.
LEMMA RaiseKeeps ==
  ASSUME TypeOK, NEW fds, Raise(fds)
  PROVE  /\ queue' \in Seq(Fd \cup {Listener}) /\ Len(queue') <= SigMax /\ sigio' \in BOOLEAN
         /\ Range(queue) \subseteq Range(queue') /\ (sigio => sigio')
         /\ Listener \notin fds => Count(queue', Listener) = Count(queue, Listener)
         /\ Count(queue', Listener) \in {Count(queue, Listener), Count(queue, Listener) + 1}
<1> USE DEF TypeOK
<1>1. CASE UNCHANGED signals
  BY <1>1 DEF signals
<1>2. CASE sigio' = TRUE /\ UNCHANGED queue
  BY <1>2
<1>3. ASSUME Len(queue) < SigMax, NEW fd \in Owned(fds), queue' = Append(queue, fd), UNCHANGED sigio
      PROVE  /\ queue' \in Seq(Fd \cup {Listener}) /\ Len(queue') <= SigMax /\ sigio' \in BOOLEAN
             /\ Range(queue) \subseteq Range(queue') /\ (sigio => sigio')
             /\ Listener \notin fds => Count(queue', Listener) = Count(queue, Listener)
             /\ Count(queue', Listener) \in {Count(queue, Listener), Count(queue, Listener) + 1}
  <2>1. fd \in fds /\ fd \in Fd \cup {Listener} /\ queue \in Seq(Fd \cup {Listener})
    BY DEF Owned
  <2>2. /\ queue' \in Seq(Fd \cup {Listener}) /\ Len(queue') = Len(queue) + 1
        /\ Range(queue') = Range(queue) \cup {fd}
    BY <1>3, <2>1, SignalAppend
  <2>3. Len(queue) \in Nat /\ SigMax \in Nat
    BY <2>1, RtsAssumption
  <2>4. Len(queue') <= SigMax
    BY <1>3, <2>2, <2>3
  <2>5. /\ Listener \notin fds => Count(queue', Listener) = Count(queue, Listener)
        /\ Count(queue', Listener) \in {Count(queue, Listener), Count(queue, Listener) + 1}
    BY <1>3, <2>1, CountAppend
  <2> QED
    BY <1>3, <2>2, <2>4, <2>5
<1> QED
  BY <1>1, <1>2, <1>3 DEF Raise

\* The signal of the one descriptor that has an owner is queued.
LEMMA RaiseQueues ==
  ASSUME TypeOK, NEW fds, Raise(fds), NEW fd, Owned(fds) = {fd}, ~sigio'
  PROVE  /\ fd \in Range(queue')
         /\ Count(queue', Listener) =
              IF fd = Listener THEN Count(queue, Listener) + 1 ELSE Count(queue, Listener)
<1>1. queue' = Append(queue, fd)
  BY DEF Raise
<1>2. queue \in Seq(Fd \cup {Listener}) /\ fd \in Fd \cup {Listener}
  BY DEF Owned, TypeOK
<1>3. fd \in Range(queue')
  BY <1>1, <1>2, SignalAppend
<1> QED
  BY <1>1, <1>2, <1>3, CountAppend

\* A taken signal leaves the queue; only its own descriptor's may be the last.
LEMMA Dequeued ==
  ASSUME TypeOK, NEW fd, Taken(fd), Dequeue
  PROVE  /\ queue' \in Seq(Fd \cup {Listener}) /\ Len(queue') <= SigMax /\ sigio' = sigio
         /\ fd \in Fd \cup {Listener} /\ Range(queue) \subseteq Range(queue') \cup {fd}
         /\ Count(queue', Listener) =
              IF fd = Listener THEN Count(queue, Listener) - 1 ELSE Count(queue, Listener)
<1>1. /\ queue \in Seq(Fd \cup {Listener}) /\ queue # <<>> /\ fd = Head(queue)
      /\ queue' = Tail(queue) /\ sigio' = sigio /\ Len(queue) <= SigMax
  BY DEF TypeOK, Taken, Dequeue
<1>2. /\ queue' \in Seq(Fd \cup {Listener}) /\ Len(queue') = Len(queue) - 1
      /\ fd \in Fd \cup {Listener} /\ Range(queue) \subseteq Range(queue') \cup {fd}
  BY <1>1, SignalTail
<1>3. Len(queue) \in Nat /\ SigMax \in Nat
  BY <1>1, RtsAssumption
<1>4. Len(queue') <= SigMax
  BY <1>1, <1>2, <1>3
<1> QED
  BY <1>1, <1>2, <1>4, CountTail

-----------------------------------------------------------------------------
(* Messages and their positions. *)

\* The log has no message twice.
LEMMA PositionOf ==
  ASSUME HistoryOK, LogOK, NEW n \in DOMAIN log
  PROVE  Position(log[n]) = n /\ n \in 1..Len(log)
<1>1. /\ log \in Seq(Message) /\ DOMAIN log = 1..Len(log) /\ Len(log) \in Nat
      /\ \A k \in DOMAIN log : log[k] \in Message
  BY DEF HistoryOK
<1>2. ASSUME NEW m \in DOMAIN log, log[m] = log[n] PROVE m = n
  <2>1. /\ m \in Nat /\ n \in Nat
        /\ log[n].first \in Nat /\ log[n].last \in Nat /\ log[n].first <= log[n].last
    BY <1>1 DEF LogOK, Message
  <2>2. ~(m < n) /\ ~(n < m)
    BY <1>2, <2>1 DEF LogOK
  <2> QED
    BY <2>1, <2>2
<1> QED
  BY <1>1, <1>2 DEF Position

\* The end of what a client has received is a position of the log or the
\* client's arrival.
LEMMA LastPositionInt ==
  ASSUME TypeOK, HistoryOK, LogOK, NEW c \in Client
  PROVE  /\ LastPosition(c) \in Int
         /\ \A n \in DOMAIN delivered[c] : Position(delivered[c][n]) \in 1..Len(log)
<1>1. joined[c] \in Int /\ delivered[c] \in Seq(Message) /\ Len(log) \in Nat
  BY DEF TypeOK, ChatTypeOK, HistoryOK
<1>2. ASSUME NEW n \in DOMAIN delivered[c] PROVE Position(delivered[c][n]) \in 1..Len(log)
  <2>1. PICK k \in DOMAIN log : delivered[c][n] = log[k]
    BY DEF LogOK, Range
  <2> QED
    BY <2>1, PositionOf
<1>3. delivered[c] # <<>> =>
        Len(delivered[c]) \in DOMAIN delivered[c] /\ Last(delivered[c]) = delivered[c][Len(delivered[c])]
  BY <1>1 DEF Last
<1>4. LastPosition(c) \in Int
  BY <1>1, <1>2, <1>3 DEF LastPosition
<1> QED
  BY <1>2, <1>4

\* A step that leaves the chat alone; clients that have lost a message may be
\* more.
LEMMA ChatKept ==
  ASSUME TypeOK, HistoryOK, LogOK, InOrder, UNCHANGED chat, lost \subseteq lost'
  PROVE  LogOK' /\ InOrder' /\ \A c \in Client : LastPosition(c)' = LastPosition(c)
<1>1. UNCHANGED <<log, heard, joined, delivered>>
  BY DEF chat
<1>2. LogOK'
  BY <1>1 DEF LogOK
<1>3. \A m : Position(m)' = Position(m)
  BY <1>1 DEF Position
<1>4. \A c \in Client : LastPosition(c)' = LastPosition(c)
  BY <1>1 DEF LastPosition, Position
<1>5. ASSUME NEW c \in Client, NEW n \in DOMAIN delivered[c]
      PROVE  LET before == IF n = 1 THEN joined[c] ELSE Position(delivered[c][n - 1])
                 here == Position(delivered[c][n])
             IN  IF c \in lost' THEN here > before ELSE here = before + 1
  <2> DEFINE before == IF n = 1 THEN joined[c] ELSE Position(delivered[c][n - 1])
             here == Position(delivered[c][n])
  <2>1. IF c \in lost THEN here > before ELSE here = before + 1
    BY DEF InOrder
  <2>2. n - 1 \in DOMAIN delivered[c] \/ n = 1
    BY DEF HistoryOK
  <2>3. here \in Int /\ before \in Int
    BY <2>2, LastPositionInt DEF TypeOK, ChatTypeOK
  <2> HIDE DEF before, here
  <2>4. IF c \in lost' THEN here > before ELSE here = before + 1
    BY <2>1, <2>3
  <2> QED
    BY <2>4 DEF before, here
<1>6. InOrder'
  BY <1>1, <1>5 DEF InOrder, Position
<1> QED
  BY <1>2, <1>4, <1>6

-----------------------------------------------------------------------------
(* The steps of the clients. *)

\* Nobody has come, nothing has been said.
LEMMA InitIInv == Init => IInv
<1> SUFFICES ASSUME Init PROVE IInv
  OBVIOUS
<1> USE ChatAssumption, RtsAssumption DEF Init, ChatInit
<1>1. Range(backlog) = {} /\ Range(queue) = {} /\ Range(fdtab) \subseteq {NoClient}
  BY DEF Range
<1>2. ChatTypeOK
  BY DEF ChatTypeOK, IsInjective
<1>3. TypeOK
  <2>1. queue \in Seq(Fd \cup {Listener}) /\ Len(queue) <= SigMax /\ i \in 1 .. FdLimit + 1
    OBVIOUS
  <2>2. early \in [Client -> 0..MaxLines]
    OBVIOUS
  <2>3. {reset, full, lost} \subseteq SUBSET Client
    OBVIOUS
  <2> QED
    BY <1>2, <2>1, <2>2, <2>3 DEF TypeOK
<1>4. RegistriesAgree /\ NoForgottenLine /\ InOrder
  BY DEF RegistriesAgree, NoForgottenLine, InOrder
<1>5. HistoryOK /\ LogOK
  BY DEF HistoryOK, LogOK
<1>6. Whereabouts
  BY <1>1 DEF Whereabouts
<1>7. InStep
  BY DEF InStep
<1>8. NoSpareSignal
  <2>1. {n \in DOMAIN queue : queue[n] = Listener} = {}
    OBVIOUS
  <2> QED
    BY <2>1, FS_EmptySet DEF NoSpareSignal, Count
<1> QED
  BY <1>3, <1>4, <1>5, <1>6, <1>7, <1>8 DEF IInv, Inv

\* A client connects.
LEMMA ConnectIInv ==
  ASSUME IInv, NEW c \in Client, Connect(c, pc # "dead"), Raise({Listener}), UNCHANGED server
  PROVE  IInv'
<1> USE ChatAssumption, RtsAssumption DEF IInv, Inv, Connect, server
<1>1. c \notin Range(backlog) /\ c \notin Range(fdtab) /\ backlog \in Seq(Client) /\ IsInjective(backlog)
  BY DEF Whereabouts, TypeOK, ChatTypeOK
<1>2. /\ backlog' \in Seq(Client) /\ IsInjective(backlog') /\ Range(backlog') = Range(backlog) \cup {c}
  BY <1>1, QueueAppend
<1>3. Len(backlog') = Len(backlog) + 1 /\ Len(backlog) \in Nat
  BY <1>1
<1>4. /\ queue' \in Seq(Fd \cup {Listener}) /\ Len(queue') <= SigMax /\ sigio' \in BOOLEAN
      /\ Range(queue) \subseteq Range(queue') /\ (sigio => sigio')
      /\ Count(queue', Listener) \in {Count(queue, Listener), Count(queue, Listener) + 1}
  BY RaiseKeeps
<1>5. UNCHANGED <<said, seen, fdtab, log, heard, joined, delivered>>
  BY DEF chat
<1>6. TypeOK'
  BY <1>2, <1>4, <1>5 DEF TypeOK, ChatTypeOK
<1>7. RegistriesAgree'
  BY <1>5 DEF RegistriesAgree
<1>8. NoForgottenLine'
  BY <1>4, <1>5 DEF NoForgottenLine, Unread
<1>9. LogOK' /\ InOrder' /\ \A d \in Client : LastPosition(d)' = LastPosition(d)
  BY ChatKept
<1>10. HistoryOK'
  BY <1>5 DEF HistoryOK
<1>11. Whereabouts'
  <2>1. /\ client \in [Client -> {"new", "in", "left", "over"}]
        /\ client' = [client EXCEPT ![c] = "in"] /\ client[c] = "new"
    BY DEF TypeOK, ChatTypeOK
  <2>2. \A d \in Client : client'[d] = "new" => client[d] = "new" /\ d # c
    BY <2>1
  <2> QED
    BY <1>1, <1>2, <1>5, <2>1, <2>2 DEF Whereabouts
<1>12. InStep'
  <2>1. \A fd \in Fd : fdtab[fd] \in Client /\ client'[fdtab[fd]] = "in" => client[fdtab[fd]] = "in"
    BY <1>1 DEF Range, TypeOK, ChatTypeOK
  <2> QED
    BY <1>5, <1>9, <2>1 DEF InStep, Missing
<1>13. NoSpareSignal'
  <2>1. Count(queue, Listener) \in Nat
    BY CountNat DEF TypeOK
  <2> QED
    BY <1>3, <1>4, <2>1 DEF NoSpareSignal
<1> QED
  BY <1>6, <1>7, <1>8, <1>9, <1>10, <1>11, <1>12, <1>13

\* The descriptor behind which a client is.
LEMMA OneFd ==
  ASSUME IInv, NEW fd \in Fd, fdtab[fd] \in Client PROVE FdsOf(fdtab[fd]) = {fd}
<1> QED
  BY ChatAssumption DEF IInv, Whereabouts, FdsOf

\* A client says a line: the server has its signal.
LEMMA SayIInv ==
  ASSUME IInv, NEW c \in Client, Say(c), Raise(FdsOf(c)), UNCHANGED server PROVE IInv'
<1> USE ChatAssumption, RtsAssumption DEF IInv, Inv
<1>1. /\ UNCHANGED <<client, seen, backlog, fdtab, log, heard, joined, delivered,
                     pc, async, user_fds, sockfd, i, reset, full, early, lost>>
      /\ said' = [said EXCEPT ![c] = @ + 1] /\ said[c] < MaxLines
  BY DEF Say, chat, server
<1>2. FdsOf(c) \subseteq Fd /\ Listener \notin Fd
  BY DEF FdsOf, Fd, Listener
<1>3. /\ queue' \in Seq(Fd \cup {Listener}) /\ Len(queue') <= SigMax /\ sigio' \in BOOLEAN
      /\ Range(queue) \subseteq Range(queue') /\ (sigio => sigio')
      /\ Count(queue', Listener) = Count(queue, Listener)
  BY <1>2, RaiseKeeps
<1>4. said \in [Client -> 0..MaxLines] /\ MaxLines \in Nat
  BY DEF TypeOK, ChatTypeOK
<1>5. /\ said' \in [Client -> 0..MaxLines] /\ \A d \in Client : said'[d] >= said[d]
      /\ \A d \in Client \ {c} : said'[d] = said[d]
  BY <1>1, <1>4
<1>6. TypeOK'
  <2>1. \A d \in Client : heard'[d] \in 0..said'[d]
    BY SMTT(30), <1>1, <1>4, <1>5 DEF TypeOK, ChatTypeOK
  <2> QED
    BY <1>1, <1>3, <1>5, <2>1 DEF TypeOK, ChatTypeOK
<1>7. RegistriesAgree'
  BY <1>1 DEF RegistriesAgree
<1>8. NoForgottenLine'
  <2> SUFFICES ASSUME pc # "dead", ~sigio', NEW fd \in user_fds,
                      Unread(fdtab[fd])' > 0, said'[fdtab[fd]] > early[fdtab[fd]]
               PROVE  fd \in Range(queue')
    BY <1>1 DEF NoForgottenLine
  <2>1. fd \in Fd /\ fdtab[fd] \in Client /\ fd \in async
    BY DEF RegistriesAgree, TypeOK, ChatTypeOK
  <2>2. CASE fdtab[fd] = c
    <3>1. Owned(FdsOf(c)) = {fd}
      BY <2>1, <2>2, OneFd DEF Owned
    <3> QED
      BY <3>1, RaiseQueues
  <2>3. CASE fdtab[fd] # c
    BY <1>1, <1>3, <1>5, <2>1, <2>3 DEF NoForgottenLine, Unread
  <2> QED
    BY <2>2, <2>3
<1>9. LogOK' /\ InOrder' /\ \A d \in Client : LastPosition(d)' = LastPosition(d)
  BY <1>1, ChatKept DEF chat
<1>10. HistoryOK'
  BY <1>1 DEF HistoryOK
<1>11. Whereabouts'
  BY <1>1 DEF Whereabouts
<1>12. InStep'
  BY <1>1, <1>9 DEF InStep, Missing
<1>13. NoSpareSignal'
  BY <1>1, <1>3 DEF NoSpareSignal
<1> QED
  BY <1>6, <1>7, <1>8, <1>9, <1>10, <1>11, <1>12, <1>13

\* A client shows a message, leaves, or finds its connection closed.
LEMMA ReaderIInv ==
  ASSUME IInv, NEW c \in Client,
         \/ Quit(c) /\ Raise(FdsOf(c)) /\ UNCHANGED server
         \/ ClientShows(c)
         \/ ClientEnds(c)
  PROVE  IInv'
<1> USE ChatAssumption, RtsAssumption DEF IInv, Inv
<1>1. /\ UNCHANGED <<said, backlog, fdtab, log, heard, joined, delivered,
                     pc, async, user_fds, sockfd, i, reset, early, lost>>
      /\ full' \in {full, full \ {c}}
  BY DEF Quit, ClientShows, Show, ClientEnds, Ended, chat, server
<1>2. FdsOf(c) \subseteq Fd /\ Listener \notin Fd
  BY DEF FdsOf, Fd, Listener
<1>3. (\E fds \in {FdsOf(c), {}} : Raise(fds)) \/ UNCHANGED signals
  BY DEF ClientShows, ClientEnds
<1>4. /\ queue' \in Seq(Fd \cup {Listener}) /\ Len(queue') <= SigMax /\ sigio' \in BOOLEAN
      /\ Range(queue) \subseteq Range(queue') /\ (sigio => sigio')
      /\ Count(queue', Listener) = Count(queue, Listener)
  <2>1. ASSUME NEW fds \in {FdsOf(c), {}}, Raise(fds)
        PROVE  /\ queue' \in Seq(Fd \cup {Listener}) /\ Len(queue') <= SigMax /\ sigio' \in BOOLEAN
               /\ Range(queue) \subseteq Range(queue') /\ (sigio => sigio')
               /\ Count(queue', Listener) = Count(queue, Listener)
    BY <1>2, <2>1, RaiseKeeps
  <2>2. CASE UNCHANGED signals
    BY <2>2 DEF signals, TypeOK
  <2> QED
    BY <1>3, <2>1, <2>2
<1>5. /\ client \in [Client -> {"new", "in", "left", "over"}] /\ seen \in [Client -> Nat]
      /\ Len(delivered[c]) \in Nat /\ seen[c] \in 0..Len(delivered[c])
  BY DEF TypeOK, ChatTypeOK, HistoryOK
<1>6. \/ UNCHANGED client /\ seen' = [seen EXCEPT ![c] = @ + 1] /\ Len(delivered[c]) - seen[c] > 0
      \/ UNCHANGED seen /\ client[c] = "in" /\ client' = [client EXCEPT ![c] = "left"]
      \/ UNCHANGED seen /\ client[c] = "in" /\ client' = [client EXCEPT ![c] = "over"]
  BY DEF Quit, ClientShows, Show, ClientEnds, Ended, InFlight
<1>7. /\ client' \in [Client -> {"new", "in", "left", "over"}]
      /\ \A d \in Client : client'[d] = "new" => client[d] = "new"
      /\ \A d \in Client : client'[d] = "in" => client[d] = "in"
  BY <1>5, <1>6
<1>8. seen' \in [Client -> Nat] /\ \A d \in Client \ {c} : seen'[d] = seen[d]
  BY <1>5, <1>6
<1>9. seen'[c] \in 0..Len(delivered[c])
  BY <1>5, <1>6
<1>10. TypeOK'
  <2>1. \A d \in Client : heard'[d] \in 0..said'[d] /\ seen'[d] \in 0..Len(delivered'[d])
    BY <1>1, <1>8, <1>9 DEF TypeOK, ChatTypeOK
  <2> QED
    BY SMTT(30), <1>1, <1>4, <1>7, <2>1 DEF TypeOK, ChatTypeOK
<1>11. RegistriesAgree'
  BY <1>1 DEF RegistriesAgree
<1>12. NoForgottenLine'
  BY <1>1, <1>4 DEF NoForgottenLine, Unread
<1>13. LogOK' /\ InOrder' /\ \A d \in Client : LastPosition(d)' = LastPosition(d)
  BY <1>1, ChatKept DEF chat
<1>14. HistoryOK'
  BY <1>1, <1>8 DEF HistoryOK
<1>15. Whereabouts'
  BY <1>1, <1>7 DEF Whereabouts
<1>16. InStep'
  BY <1>1, <1>7, <1>13 DEF InStep, Missing
<1>17. NoSpareSignal'
  BY <1>1, <1>4 DEF NoSpareSignal
<1> QED
  BY <1>10, <1>11, <1>12, <1>13, <1>14, <1>15, <1>16, <1>17

-----------------------------------------------------------------------------
(* The steps of the server. *)

\* The server starts to listen, or goes past a descriptor in send_chat_msg: one
\* that is free, of a client that has left, or of one with no room.
LEMMA LoopIInv ==
  ASSUME IInv, SetupListener \/ SendSkip \/ SendFull \/ SendLost \/ SendEnd PROVE IInv'
<1> USE ChatAssumption, RtsAssumption DEF IInv, Inv
<1>1. /\ UNCHANGED <<client, said, seen, backlog, fdtab, log, heard, joined, delivered,
                     user_fds, sockfd, early>>
      /\ lost \subseteq lost' /\ pc \notin {"dead", "setup"} /\ pc' \in {"wait", "send"}
      /\ pc' = "send" => pc = "send"
  BY DEF SetupListener, SendSkip, SendFull, SendLost, SendEnd, Sending, chatVars, users, chat
<1>2. UNCHANGED signals \/ \E fds \in {{i}, {}} : Raise(fds) /\ i \in Fd
  BY DEF SetupListener, SendSkip, SendFull, SendLost, SendEnd, Sending
<1>3. /\ queue' \in Seq(Fd \cup {Listener}) /\ Len(queue') <= SigMax /\ sigio' \in BOOLEAN
      /\ Range(queue) \subseteq Range(queue') /\ (sigio => sigio')
      /\ Count(queue', Listener) = Count(queue, Listener)
  <2>1. ASSUME NEW fds \in {{i}, {}}, Raise(fds), i \in Fd
        PROVE  /\ queue' \in Seq(Fd \cup {Listener}) /\ Len(queue') <= SigMax /\ sigio' \in BOOLEAN
               /\ Range(queue) \subseteq Range(queue') /\ (sigio => sigio')
               /\ Count(queue', Listener) = Count(queue, Listener)
    <3>1. Listener \notin fds
      BY <2>1 DEF Fd, Listener
    <3> QED
      BY <2>1, <3>1, RaiseKeeps
  <2>2. CASE UNCHANGED signals
    BY <2>2 DEF signals, TypeOK
  <2> QED
    BY <1>2, <2>1, <2>2
<1>4. ASSUME Sending PROVE fdtab[i] \in Client
  BY <1>4 DEF Sending, Recipient, RegistriesAgree, TypeOK, ChatTypeOK
<1>5. TypeOK'
  <2>1. i' \in 1 .. FdLimit + 1
    BY DEF SetupListener, SendSkip, SendFull, SendLost, SendEnd, Sending, Fd, TypeOK
  <2>2. reset' \subseteq Client /\ full' \subseteq Client /\ lost' \subseteq Client
    BY <1>4 DEF SetupListener, SendSkip, SendFull, SendLost, SendEnd, TypeOK
  <2>3. async' \subseteq Fd \cup {Listener}
    BY DEF SetupListener, SendSkip, SendFull, SendLost, SendEnd, TypeOK
  <2>4. ChatTypeOK'
    BY <1>1 DEF TypeOK, ChatTypeOK
  <2>5. early' \in [Client -> 0..MaxLines]
    BY <1>1 DEF TypeOK
  <2>6. /\ pc' \in {"listen", "wait", "setup", "send", "dead"} /\ user_fds' \subseteq Fd
        /\ sockfd' \in Fd \cup {Listener}
    BY <1>1 DEF TypeOK
  <2> QED
    BY <1>3, <2>1, <2>2, <2>3, <2>4, <2>5, <2>6 DEF TypeOK
<1>6. RegistriesAgree'
  <2>1. CASE SetupListener
    BY <1>1, <2>1 DEF SetupListener, RegistriesAgree, Whereabouts
  <2>2. CASE SendSkip \/ SendFull \/ SendLost \/ SendEnd
    <3>1. async' = async /\ pc = "send"
      BY <2>2 DEF SendSkip, SendFull, SendLost, SendEnd, Sending
    <3> QED
      BY <1>1, <3>1 DEF RegistriesAgree
  <2> QED
    BY <2>1, <2>2
<1>7. NoForgottenLine'
  BY <1>1, <1>3 DEF NoForgottenLine, Unread
<1>8. LogOK' /\ InOrder' /\ \A d \in Client : LastPosition(d)' = LastPosition(d)
  BY <1>1, ChatKept DEF chat
<1>9. HistoryOK'
  BY <1>1 DEF HistoryOK
<1>10. Whereabouts'
  BY <1>1 DEF Whereabouts
<1>11. InStep'
  <2>1. CASE SetupListener
    BY <1>1, <1>8, <2>1 DEF SetupListener, InStep, Missing
  <2>2. CASE SendEnd
    BY <1>1, <1>8, <2>2 DEF SendEnd, InStep, Missing, Fd, TypeOK
  <2>3. ASSUME SendSkip \/ SendFull \/ SendLost PROVE InStep'
    <3>1. pc = "send" /\ pc' = "send" /\ i \in Fd /\ i' = i + 1
      BY <2>3 DEF SendSkip, SendFull, SendLost, Sending
    <3>2. \A fd \in Fd : Missing(fd)' = IF fd = i THEN 0 ELSE Missing(fd)
      BY <3>1 DEF Missing, Fd
    <3>3. Missing(i) = 1
      BY <3>1 DEF Missing, Fd
    <3>4. \/ ~(fdtab[i] \in Client /\ client[fdtab[i]] = "in")
          \/ fdtab[i] \in lost'
      BY <2>3, <1>4, <3>1 DEF SendSkip, SendFull, SendLost, Recipient, RegistriesAgree
    <3>5. ASSUME NEW fd \in Fd, fdtab[fd] \in Client, client[fdtab[fd]] = "in"
          PROVE  /\ LastPosition(fdtab[fd]) + Missing(fd)' <= Len(log)
                 /\ fdtab[fd] \notin lost' => LastPosition(fdtab[fd]) + Missing(fd)' = Len(log)
      <4>1. /\ LastPosition(fdtab[fd]) + Missing(fd) <= Len(log)
            /\ fdtab[fd] \notin lost' => LastPosition(fdtab[fd]) + Missing(fd) = Len(log)
        BY <1>1, <3>5 DEF InStep
      <4>2. LastPosition(fdtab[fd]) \in Int /\ Len(log) \in Nat
        BY <3>5, LastPositionInt DEF HistoryOK
      <4> QED
        BY <3>2, <3>3, <3>4, <3>5, <4>1, <4>2
    <3> QED
      BY <1>1, <1>8, <3>5 DEF InStep
  <2> QED
    BY <2>1, <2>2, <2>3
<1>12. NoSpareSignal'
  BY <1>1, <1>3 DEF NoSpareSignal
<1> QED
  BY <1>5, <1>6, <1>7, <1>8, <1>9, <1>10, <1>11, <1>12

\* A signal of the listener finds no connection or no descriptor, or accept
\* drops the connection.
LEMMA AcceptFailsIInv ==
  ASSUME IInv, AcceptFails
  PROVE  IInv' /\ backlog # <<>>
<1> USE ChatAssumption, RtsAssumption DEF IInv, Inv
<1>1. /\ UNCHANGED <<client, said, seen, fdtab, log, heard, joined, delivered,
                     pc, async, user_fds, sockfd, i, reset, full, early, lost>>
      /\ Taken(Listener) /\ Dequeue /\ pc = "wait"
  BY DEF AcceptFails, Taken, users, chat, server
<1>2. /\ queue' \in Seq(Fd \cup {Listener}) /\ Len(queue') <= SigMax /\ sigio' = sigio
      /\ Range(queue) \subseteq Range(queue') \cup {Listener}
      /\ Count(queue', Listener) = Count(queue, Listener) - 1
  BY <1>1, Dequeued
<1>3. /\ Count(queue, Listener) \in Nat /\ Count(queue', Listener) \in Nat
      /\ backlog \in Seq(Client) /\ IsInjective(backlog) /\ Len(backlog) \in Nat
  <2>1. queue \in Seq(Fd \cup {Listener}) /\ backlog \in Seq(Client) /\ IsInjective(backlog)
    BY DEF TypeOK, ChatTypeOK
  <2>2. Count(queue, Listener) \in Nat
    BY <2>1, CountNat
  <2>3. Count(queue', Listener) \in Nat
    BY <1>2, CountNat
  <2> QED
    BY <2>1, <2>2, <2>3
<1>4. Len(backlog) >= 1 /\ backlog # <<>>
  BY <1>1, <1>2, <1>3 DEF NoSpareSignal
<1>5. /\ backlog' \in Seq(Client) /\ IsInjective(backlog') /\ Range(backlog') \subseteq Range(backlog)
      /\ Len(backlog') >= Len(backlog) - 1 /\ Len(backlog') \in Nat
  <2>1. CASE UNCHANGED backlog
    BY <1>3, <2>1
  <2>2. CASE backlog' = Tail(backlog)
    <3>1. Len(backlog') = Len(backlog) - 1
      BY <1>3, <1>4, <2>2
    <3> QED
      BY <1>3, <1>4, <2>2, <3>1, QueueTail
  <2> QED
    BY <2>1, <2>2 DEF AcceptFails
<1>6. TypeOK'
  BY <1>1, <1>2, <1>5 DEF TypeOK, ChatTypeOK
<1>7. RegistriesAgree'
  BY <1>1 DEF RegistriesAgree
<1>8. NoForgottenLine'
  <2>1. Listener \notin user_fds
    BY DEF TypeOK, Fd, Listener
  <2> QED
    BY <1>1, <1>2, <2>1 DEF NoForgottenLine, Unread
<1>9. LogOK' /\ InOrder' /\ \A d \in Client : LastPosition(d)' = LastPosition(d)
  BY <1>1, ChatKept DEF chat
<1>10. HistoryOK'
  BY <1>1 DEF HistoryOK
<1>11. Whereabouts'
  BY <1>1, <1>5 DEF Whereabouts
<1>12. InStep'
  BY <1>1, <1>9 DEF InStep, Missing
<1>13. NoSpareSignal'
  BY <1>1, <1>2, <1>3, <1>5 DEF NoSpareSignal
<1> QED
  BY <1>4, <1>6, <1>7, <1>8, <1>9, <1>10, <1>11, <1>12, <1>13

\* SIGPIPE or SIGIO.
LEMMA DieIInv ==
  ASSUME IInv, Dies PROVE IInv'
<1> USE ChatAssumption, RtsAssumption DEF IInv, Inv, Dies, Collapse, users, chat
<1>1. /\ pc' = "dead" /\ backlog' = <<>> /\ fdtab' = [fd \in Fd |-> NoClient] /\ async' = {}
      /\ UNCHANGED <<users, chat, signals, user_fds, sockfd, i, reset, full, early, lost>>
  OBVIOUS
<1>2. Range(backlog') = {} /\ Range(fdtab') \subseteq {NoClient}
  BY <1>1 DEF Range
<1>3. TypeOK'
  <2>1. ChatTypeOK'
    BY <1>1 DEF TypeOK, ChatTypeOK, IsInjective
  <2> QED
    BY <1>1, <2>1 DEF TypeOK, signals
<1>4. RegistriesAgree' /\ NoForgottenLine' /\ NoSpareSignal'
  BY <1>1 DEF RegistriesAgree, NoForgottenLine, NoSpareSignal
<1>5. LogOK' /\ InOrder'
  BY <1>1, ChatKept
<1>6. HistoryOK'
  BY <1>1 DEF HistoryOK
<1>7. Whereabouts'
  <2>1. \A c \in Client : c \notin Range(backlog') /\ c \notin Range(fdtab')
    BY <1>2
  <2>2. \A fd \in Fd : fdtab'[fd] = NoClient
    BY <1>1
  <2>3. \A c \in Client : client'[c] = "new" => joined'[c] = -1 /\ delivered'[c] = <<>>
    BY <1>1 DEF Whereabouts
  <2> QED
    BY <1>1, <1>2, <2>1, <2>2, <2>3 DEF Whereabouts
<1>8. InStep'
  BY <1>1 DEF InStep
<1> QED
  BY <1>3, <1>4, <1>5, <1>6, <1>7, <1>8

\* accept.
LEMMA AcceptIInv ==
  ASSUME IInv, Accept PROVE IInv'
<1> USE ChatAssumption, RtsAssumption DEF IInv, Inv
<1> DEFINE h == Head(backlog)
<1>1. PICK fd \in LowestFree : Open(fd) /\ sockfd' = fd
  BY DEF Accept
<1>2. /\ Taken(Listener) /\ Dequeue /\ pc = "wait" /\ pc' = "setup"
      /\ UNCHANGED <<async, user_fds, i, reset, full, early, lost>>
  BY DEF Accept, Taken
<1>3. /\ fd \in Fd /\ fdtab[fd] = NoClient
      /\ backlog # <<>> /\ backlog \in Seq(Client) /\ IsInjective(backlog)
      /\ UNCHANGED <<client, said, seen, log, heard, delivered>>
      /\ backlog' = Tail(backlog) /\ fdtab' = [fdtab EXCEPT ![fd] = h]
      /\ joined' = [joined EXCEPT ![h] = Len(log)]
  BY <1>1 DEF LowestFree, Open, users, TypeOK, ChatTypeOK
<1>4. /\ queue' \in Seq(Fd \cup {Listener}) /\ Len(queue') <= SigMax /\ sigio' = sigio
      /\ Range(queue) \subseteq Range(queue') \cup {Listener}
      /\ Count(queue', Listener) = Count(queue, Listener) - 1
  BY <1>2, Dequeued
<1>5. /\ backlog' \in Seq(Client) /\ IsInjective(backlog') /\ h \in Client
      /\ h \in Range(backlog) /\ Range(backlog') = Range(backlog) \ {h}
  BY <1>3, QueueTail
<1>6. h \notin Range(fdtab) /\ client[h] # "new" /\ joined[h] = -1 /\ delivered[h] = <<>>
  BY <1>5 DEF Whereabouts
<1>7. Len(log) \in Nat /\ fdtab \in [Fd -> Client \cup {NoClient}] /\ joined \in [Client -> Int]
  BY DEF HistoryOK, TypeOK, ChatTypeOK
<1>8. /\ Range(fdtab') \subseteq Range(fdtab) \cup {h}
      /\ \A f \in Fd : fdtab'[f] = IF f = fd THEN h ELSE fdtab[f]
      /\ \A f \in Fd : fdtab[f] # h
      /\ fdtab' \in [Fd -> Client \cup {NoClient}]
  BY <1>3, <1>5, <1>6, <1>7 DEF Range
<1>9. TypeOK'
  <2>1. joined' \in [Client -> Int]
    BY <1>3, <1>7
  <2>2. ChatTypeOK'
    BY <1>3, <1>5, <1>8, <2>1 DEF TypeOK, ChatTypeOK
  <2> QED
    BY <1>1, <1>2, <1>3, <1>4, <2>2 DEF TypeOK
<1>10. RegistriesAgree'
  <2>1. user_fds = {f \in Fd : fdtab[f] # NoClient} /\ async = user_fds \cup {Listener}
    BY <1>2 DEF RegistriesAgree
  <2>2. {f \in Fd : fdtab'[f] # NoClient} = user_fds \cup {fd} /\ fd \notin user_fds
    BY <1>3, <1>5, <1>8, <2>1
  <2> QED
    BY <1>1, <1>2, <2>1, <2>2 DEF RegistriesAgree
<1>11. NoForgottenLine'
  <2>1. \A f \in user_fds : f # Listener /\ fdtab'[f] = fdtab[f]
    BY <1>2, <1>3, <1>8 DEF RegistriesAgree, Fd, Listener
  <2> QED
    BY <1>2, <1>3, <1>4, <2>1 DEF NoForgottenLine, Unread
<1>12. HistoryOK'
  BY <1>3 DEF HistoryOK
<1>13. LogOK'
  BY <1>3 DEF LogOK
<1>14. InOrder'
  <2>1. \A c \in Client : joined'[c] = IF c = h THEN Len(log) ELSE joined[c]
    BY <1>3, <1>7
  <2>2. \A c \in Client : DOMAIN delivered[c] # {} => c # h
    BY <1>6
  <2>3. ASSUME NEW c \in Client, NEW n \in DOMAIN delivered[c]
        PROVE  joined'[c] = joined[c] /\ Position(delivered[c][n])' = Position(delivered[c][n])
    BY <1>3, <2>1, <2>2, <2>3 DEF Position
  <2>4. ASSUME NEW c \in Client, NEW n \in DOMAIN delivered[c]
        PROVE  n = 1 \/ n - 1 \in DOMAIN delivered[c]
    BY <2>4 DEF HistoryOK
  <2> SUFFICES ASSUME NEW c \in Client, NEW n \in DOMAIN delivered'[c]
               PROVE  LET before == IF n = 1 THEN joined'[c] ELSE Position(delivered[c][n - 1])'
                          here == Position(delivered[c][n])'
                      IN  IF c \in lost THEN here > before ELSE here = before + 1
    BY <1>2, <1>3 DEF InOrder
  <2>5. /\ joined'[c] = joined[c] /\ Position(delivered[c][n])' = Position(delivered[c][n])
        /\ n # 1 => Position(delivered[c][n - 1])' = Position(delivered[c][n - 1])
    BY <1>3, <2>3, <2>4
  <2>6. LET before == IF n = 1 THEN joined[c] ELSE Position(delivered[c][n - 1])
            here == Position(delivered[c][n])
        IN  IF c \in lost THEN here > before ELSE here = before + 1
    BY <1>3 DEF InOrder
  <2> QED
    BY <2>5, <2>6
<1>15. Whereabouts'
  <2>1. ASSUME NEW c \in Client, client'[c] = "new" PROVE c \notin Range(backlog') /\ c \notin Range(fdtab')
    BY <1>3, <1>5, <1>6, <1>8, <2>1 DEF Whereabouts
  <2>2. Range(backlog') \cap Range(fdtab') = {}
    BY <1>5, <1>8 DEF Whereabouts
  <2>3. ASSUME NEW f \in Fd, NEW other \in Fd, fdtab'[f] # NoClient, fdtab'[other] = fdtab'[f]
        PROVE  other = f
    BY <1>8, <2>3 DEF Whereabouts
  <2>4. ASSUME NEW c \in Client, client'[c] = "new" \/ c \in Range(backlog')
        PROVE  joined'[c] = -1 /\ delivered'[c] = <<>>
    <3>1. c # h /\ joined[c] = -1 /\ delivered[c] = <<>>
      BY <1>3, <1>5, <1>6, <2>4 DEF Whereabouts
    <3> QED
      BY <1>3, <1>7, <3>1
  <2>5. sockfd' \in Fd /\ fdtab'[sockfd'] # NoClient
    BY <1>1, <1>3, <1>5, <1>8
  <2> QED
    BY <1>2, <2>1, <2>2, <2>3, <2>4, <2>5 DEF Whereabouts
<1>16. InStep'
  <2> SUFFICES ASSUME NEW f \in Fd, fdtab'[f] \in Client, client'[fdtab'[f]] = "in"
               PROVE  /\ LastPosition(fdtab[f])' + Missing(f)' <= Len(log')
                      /\ fdtab'[f] \notin lost' => LastPosition(fdtab[f])' + Missing(f)' = Len(log')
    BY <1>2 DEF InStep
  <2>1. Missing(f) = 0 /\ Missing(f)' = 0
    BY <1>2 DEF Missing
  <2>2. CASE f = fd
    <3>1. fdtab'[f] = h /\ delivered'[h] = <<>> /\ joined'[h] = Len(log')
      BY <1>3, <1>5, <1>6, <1>7, <1>8, <2>2
    <3>2. LastPosition(fdtab[f])' = Len(log')
      BY <3>1 DEF LastPosition
    <3> QED
      BY <1>3, <1>7, <2>1, <3>2
  <2>3. CASE f # fd
    <3>1. fdtab'[f] = fdtab[f] /\ fdtab[f] # h /\ fdtab[f] \in Client
      BY <1>8, <2>3
    <3>2. joined'[fdtab[f]] = joined[fdtab[f]]
      BY <1>3, <1>7, <3>1
    <3>3. LastPosition(fdtab[f])' = LastPosition(fdtab[f])
      <4>1. PICK c : c = fdtab[f]
        OBVIOUS
      <4>2. LastPosition(c)' = LastPosition(c)
        BY <1>3, <3>2, <4>1 DEF LastPosition, Position
      <4>3. LastPosition(fdtab[f])' = LastPosition(c)'
        BY <3>1, <4>1 DEF LastPosition
      <4> QED
        BY <4>1, <4>2, <4>3
    <3> QED
      BY <1>2, <1>3, <2>1, <2>3, <3>1, <3>3 DEF InStep
  <2> QED
    BY <2>2, <2>3
<1>17. NoSpareSignal'
  <2>1. Len(backlog') = Len(backlog) - 1 /\ Len(backlog) \in Nat
    BY <1>3
  <2>2. Count(queue, Listener) \in Nat
    BY CountNat DEF TypeOK
  <2> QED
    BY <1>2, <1>4, <2>1, <2>2 DEF NoSpareSignal
<1> QED
  BY <1>9, <1>10, <1>11, <1>12, <1>13, <1>14, <1>15, <1>16, <1>17

\* The new connection gets its owner.
LEMMA SetupIInv ==
  ASSUME IInv, SetupConnection PROVE IInv'
<1> USE ChatAssumption, RtsAssumption DEF IInv, Inv
<1>1. /\ UNCHANGED <<client, said, seen, backlog, fdtab, log, heard, joined, delivered,
                     queue, sigio, sockfd, i, reset, full, lost>>
      /\ async' = async \cup {sockfd} /\ user_fds' = user_fds \cup {sockfd}
      /\ early' = [early EXCEPT ![fdtab[sockfd]] = said[fdtab[sockfd]]]
      /\ pc = "setup" /\ pc' = "wait"
  BY DEF SetupConnection, chatVars, users, chat, signals
<1>2. sockfd \in Fd /\ fdtab[sockfd] \in Client
  BY <1>1 DEF Whereabouts, TypeOK, ChatTypeOK
<1>3. /\ early \in [Client -> 0..MaxLines] /\ early' \in [Client -> 0..MaxLines]
  BY <1>1, <1>2 DEF TypeOK, ChatTypeOK
<1>4. TypeOK'
  BY <1>1, <1>2, <1>3 DEF TypeOK, ChatTypeOK
<1>5. RegistriesAgree'
  BY <1>1, <1>2 DEF RegistriesAgree
<1>6. NoForgottenLine'
  <2> SUFFICES ASSUME ~sigio, NEW fd \in user_fds',
                      Unread(fdtab[fd]) > 0, said[fdtab[fd]] > early'[fdtab[fd]]
               PROVE  fd \in Range(queue)
    BY <1>1 DEF NoForgottenLine, Unread
  <2>1. early'[fdtab[sockfd]] = said[fdtab[sockfd]] /\ said[fdtab[sockfd]] \in Int
    BY <1>1, <1>2, <1>3 DEF TypeOK, ChatTypeOK
  <2>2. fd # sockfd /\ fd \in user_fds
    BY <1>1, <2>1
  <2>3. fd \in Fd /\ fdtab[fd] \in Client /\ fdtab[fd] # fdtab[sockfd]
    BY <1>1, <1>2, <2>2 DEF RegistriesAgree, Whereabouts, TypeOK, ChatTypeOK
  <2>4. early'[fdtab[fd]] = early[fdtab[fd]]
    BY <1>1, <1>3, <2>3
  <2> QED
    BY <1>1, <2>2, <2>4 DEF NoForgottenLine
<1>7. LogOK' /\ InOrder' /\ \A d \in Client : LastPosition(d)' = LastPosition(d)
  BY <1>1, ChatKept DEF chat
<1>8. HistoryOK'
  BY <1>1 DEF HistoryOK
<1>9. Whereabouts'
  BY <1>1 DEF Whereabouts
<1>10. InStep'
  BY <1>1, <1>7 DEF InStep, Missing
<1>11. NoSpareSignal'
  BY <1>1 DEF NoSpareSignal
<1> QED
  BY <1>4, <1>5, <1>6, <1>7, <1>8, <1>9, <1>10, <1>11

\* A new message at the end of the log moves no other.
LEMMA PositionKept ==
  ASSUME HistoryOK, LogOK, NEW x, log' = Append(log, x), x \notin Range(log), NEW m \in Range(log)
  PROVE  Position(m)' = Position(m)
<1>1. PICK n \in DOMAIN log : m = log[n]
  BY DEF Range
<1>2. /\ DOMAIN log = 1..Len(log) /\ Len(log) \in Nat /\ DOMAIN log' = 1 .. Len(log) + 1
      /\ \A k \in 1..Len(log) : log'[k] = log[k]
      /\ log'[Len(log) + 1] = x
  BY DEF HistoryOK
<1>3. \A k \in DOMAIN log : log[k] = m => k = n
  <2> SUFFICES ASSUME NEW k \in DOMAIN log, log[k] = log[n] PROVE k = n
    BY <1>1
  <2>1. Position(log[k]) = k /\ Position(log[n]) = n
    BY PositionOf
  <2> QED
    BY <2>1
<1>4. \A k \in DOMAIN log' : log'[k] = m => k = n
  BY <1>2, <1>3
<1>5. n \in DOMAIN log' /\ log'[n] = m
  BY <1>1, <1>2
<1> QED
  BY <1>1, <1>3, <1>4, <1>5 DEF Position

\* The unread lines of a client are read, as one message.
LEMMA ReadIInv ==
  ASSUME IInv, NEW fd \in Fd, Read(fd) PROVE IInv'
<1> USE ChatAssumption, RtsAssumption DEF IInv, Inv
<1> DEFINE c == fdtab[fd]
           x == [from |-> c, first |-> heard[c] + 1, last |-> said[c]]
<1>1. /\ Taken(fd) /\ Dequeue /\ pc = "wait" /\ c \in Client /\ said[c] - heard[c] > 0
      /\ Hear(c, said[c] - heard[c]) /\ i' = 1 /\ pc' = "send"
      /\ UNCHANGED <<async, user_fds, sockfd, reset, full, early, lost>>
  BY DEF Read, Taken, LinesRead, Unread, TypeOK, ChatTypeOK
<1>2. /\ heard \in [Client -> Nat] /\ said \in [Client -> 0..MaxLines] /\ MaxLines \in Nat
      /\ \A d \in Client : heard[d] \in 0..said[d]
  BY DEF HistoryOK, TypeOK, ChatTypeOK
<1>3. heard[c] \in Nat /\ said[c] \in Nat /\ heard[c] + (said[c] - heard[c]) = said[c]
  BY <1>1, <1>2
<1>4. /\ UNCHANGED <<client, said, seen, backlog, fdtab, joined, delivered>>
      /\ heard' = [heard EXCEPT ![c] = said[c]] /\ log' = Append(log, x)
  BY <1>1, <1>3 DEF Hear, users
<1>5. /\ queue' \in Seq(Fd \cup {Listener}) /\ Len(queue') <= SigMax /\ sigio' = sigio
      /\ Range(queue) \subseteq Range(queue') \cup {fd}
      /\ Count(queue', Listener) = Count(queue, Listener)
  BY <1>1, Dequeued DEF Fd, Listener
<1>6. heard' \in [Client -> Nat] /\ \A d \in Client : heard'[d] = IF d = c THEN said[c] ELSE heard[d]
  BY <1>2, <1>3, <1>4
<1>7. x \in Message /\ x.from = c /\ x.first = heard[c] + 1 /\ x.last = said[c]
  BY <1>1, <1>3 DEF Message
<1> HIDE DEF x
<1>8. /\ log \in Seq(Message) /\ DOMAIN log = 1..Len(log) /\ Len(log) \in Nat
      /\ \A n \in DOMAIN log : log[n] \in Message
  BY DEF HistoryOK
<1>9. /\ log' \in Seq(Message) /\ Len(log') = Len(log) + 1 /\ DOMAIN log' = 1 .. Len(log) + 1
      /\ \A n \in 1..Len(log) : log'[n] = log[n]
      /\ log'[Len(log) + 1] = x
  BY <1>4, <1>7, <1>8
<1>10. \A n \in DOMAIN log : log[n].from = c => log[n].last < x.first
  BY SMTT(30), <1>3, <1>7, <1>8 DEF LogOK, Message
<1>11. x \notin Range(log)
  <2> SUFFICES ASSUME NEW n \in DOMAIN log, x = log[n] PROVE FALSE
    BY DEF Range
  <2>1. x.last < x.first /\ x.first <= x.last
    BY <1>7, <1>10 DEF LogOK
  <2> QED
    BY <1>3, <1>7, <2>1
<1>12. \A m \in Range(log) : Position(m)' = Position(m)
  BY <1>4, <1>11, PositionKept
<1>13. TypeOK'
  <2>1. \A d \in Client : heard'[d] \in 0..said'[d]
    BY <1>2, <1>3, <1>4, <1>6
  <2>2. ChatTypeOK'
    BY <1>4, <2>1 DEF TypeOK, ChatTypeOK
  <2>3. i' \in 1 .. FdLimit + 1
    BY <1>1
  <2> QED
    BY <1>1, <1>5, <2>2, <2>3 DEF TypeOK
<1>14. RegistriesAgree'
  BY <1>1, <1>4 DEF RegistriesAgree
<1>15. NoForgottenLine'
  <2> SUFFICES ASSUME ~sigio, NEW f \in user_fds,
                      said[fdtab[f]] - heard'[fdtab[f]] > 0, said[fdtab[f]] > early[fdtab[f]]
               PROVE  f \in Range(queue')
    BY <1>1, <1>4, <1>5 DEF NoForgottenLine, Unread
  <2>1. f \in Fd /\ fdtab[f] \in Client
    BY <1>1 DEF RegistriesAgree, TypeOK, ChatTypeOK
  <2>2. fdtab[f] # c
    BY <1>1, <1>3, <1>6
  <2>3. f \in Range(queue)
    BY <1>1, <1>6, <2>1, <2>2 DEF NoForgottenLine, Unread
  <2> QED
    BY <1>5, <2>2, <2>3
<1>16. HistoryOK'
  BY <1>4, <1>6, <1>9 DEF HistoryOK
<1>17. LogOK'
  <2>1. ASSUME NEW n \in DOMAIN log'
        PROVE  log'[n].first <= log'[n].last /\ log'[n].last <= heard'[log'[n].from]
    <3>1. CASE n \in DOMAIN log
      <4>1. log'[n] = log[n] /\ log[n] \in Message
        BY <1>8, <1>9, <3>1
      <4>2. /\ log[n].from \in Client /\ log[n].last \in Nat
            /\ log[n].first <= log[n].last /\ log[n].last <= heard[log[n].from]
        BY <3>1, <4>1 DEF LogOK, Message
      <4>3. heard[log[n].from] <= heard'[log[n].from] /\ heard[log[n].from] \in Nat
            /\ heard'[log[n].from] \in Nat
        BY <1>1, <1>2, <1>3, <1>6, <4>2
      <4> QED
        BY <4>1, <4>2, <4>3
    <3>2. CASE n = Len(log) + 1
      BY SMTT(30), <1>1, <1>3, <1>6, <1>7, <1>9, <3>2
    <3> QED
      BY <1>8, <1>9, <3>1, <3>2
  <2>2. ASSUME NEW m \in DOMAIN log', NEW n \in DOMAIN log', m < n, log'[m].from = log'[n].from
        PROVE  log'[m].last < log'[n].first
    <3>1. m \in DOMAIN log /\ log'[m] = log[m]
      BY <1>8, <1>9, <2>2
    <3>2. CASE n \in DOMAIN log
      BY <1>8, <1>9, <2>2, <3>1, <3>2 DEF LogOK
    <3>3. CASE n = Len(log) + 1
      BY <1>7, <1>9, <1>10, <2>2, <3>1, <3>3
    <3> QED
      BY <1>8, <1>9, <3>2, <3>3
  <2>3. Range(log) \subseteq Range(log')
    BY <1>8, <1>9 DEF Range
  <2> QED
    BY <1>4, <2>1, <2>2, <2>3 DEF LogOK
<1>18. InOrder'
  <2>1. ASSUME NEW d \in Client, NEW n \in DOMAIN delivered[d]
        PROVE  Position(delivered[d][n])' = Position(delivered[d][n])
    <3>1. PICK m : m = delivered[d][n]
      OBVIOUS
    <3>2. Position(m)' = Position(m)
      BY <1>12, <2>1, <3>1 DEF LogOK
    <3>3. Position(delivered[d][n])' = Position(m)'
      BY <1>4, <3>1 DEF Position
    <3> QED
      BY <3>1, <3>2, <3>3
  <2>2. ASSUME NEW d \in Client, NEW n \in DOMAIN delivered[d]
        PROVE  n = 1 \/ n - 1 \in DOMAIN delivered[d]
    BY <2>2 DEF HistoryOK
  <2> SUFFICES ASSUME NEW d \in Client, NEW n \in DOMAIN delivered'[d]
               PROVE  LET before == IF n = 1 THEN joined[d] ELSE Position(delivered[d][n - 1])'
                          here == Position(delivered[d][n])'
                      IN  IF d \in lost THEN here > before ELSE here = before + 1
    BY <1>1, <1>4 DEF InOrder
  <2> QED
    BY <1>4, <2>1, <2>2 DEF InOrder
<1>19. Whereabouts'
  BY <1>1, <1>4 DEF Whereabouts
<1>20. InStep'
  <2>1. log' # <<>>
    BY <1>8, <1>9
  <2> SUFFICES ASSUME NEW f \in Fd, fdtab[f] \in Client, client[fdtab[f]] = "in"
               PROVE  /\ LastPosition(fdtab[f])' + Missing(f)' <= Len(log')
                      /\ fdtab[f] \notin lost => LastPosition(fdtab[f])' + Missing(f)' = Len(log')
    BY <1>1, <1>4, <2>1 DEF InStep
  <2>2. Missing(f) = 0 /\ Missing(f)' = 1
    BY <1>1 DEF Missing, Fd
  <2>3. LastPosition(fdtab[f])' = LastPosition(fdtab[f])
    <3>1. delivered[fdtab[f]] # <<>> => Last(delivered[fdtab[f]]) \in Range(log)
      <4>1. delivered[fdtab[f]] \in Seq(Message)
        BY DEF HistoryOK
      <4>2. delivered[fdtab[f]] # <<>> =>
              /\ Len(delivered[fdtab[f]]) \in DOMAIN delivered[fdtab[f]]
              /\ Last(delivered[fdtab[f]]) = delivered[fdtab[f]][Len(delivered[fdtab[f]])]
        BY <4>1 DEF Last
      <4> QED
        BY <4>2 DEF LogOK
    <3>2. CASE delivered[fdtab[f]] = <<>>
      BY <1>4, <3>2 DEF LastPosition
    <3>3. CASE delivered[fdtab[f]] # <<>>
      <4>1. PICK m : m = Last(delivered[fdtab[f]])
        OBVIOUS
      <4>2. Position(m)' = Position(m)
        BY <1>12, <3>1, <3>3, <4>1
      <4>3. LastPosition(fdtab[f])' = Position(m)'
        BY <1>4, <3>3, <4>1 DEF LastPosition, Position
      <4> QED
        BY <3>3, <4>1, <4>2, <4>3 DEF LastPosition
    <3> QED
      BY <3>2, <3>3
  <2>4. LastPosition(fdtab[f]) \in Int
    BY LastPositionInt
  <2>5. /\ LastPosition(fdtab[f]) <= Len(log)
        /\ fdtab[f] \notin lost => LastPosition(fdtab[f]) = Len(log)
    BY <2>2, <2>4, <1>8 DEF InStep
  <2> QED
    BY <1>8, <1>9, <2>2, <2>3, <2>4, <2>5
<1>21. NoSpareSignal'
  BY <1>1, <1>4, <1>5 DEF NoSpareSignal
<1> QED
  BY <1>13, <1>14, <1>15, <1>16, <1>17, <1>18, <1>19, <1>20, <1>21

\* A descriptor without data is closed, if it is open, and forgotten.
LEMMA DropIInv ==
  ASSUME IInv, NEW fd \in Fd, Drop(fd) PROVE IInv'
<1> USE ChatAssumption, RtsAssumption DEF IInv, Inv
<1>1. /\ UNCHANGED <<client, said, seen, backlog, log, heard, joined, delivered,
                     pc, sockfd, i, reset, full, early, lost>>
      /\ fdtab' = [fdtab EXCEPT ![fd] = NoClient]
      /\ user_fds' = user_fds \ {fd} /\ async' = async \ {fd}
      /\ Taken(fd) /\ Dequeue /\ pc = "wait"
  BY DEF Drop, CloseFd, Forgotten, Taken, users, chat
<1>2. /\ queue' \in Seq(Fd \cup {Listener}) /\ Len(queue') <= SigMax /\ sigio' = sigio
      /\ Range(queue) \subseteq Range(queue') \cup {fd}
      /\ Count(queue', Listener) = Count(queue, Listener)
  BY <1>1, Dequeued DEF Fd, Listener
<1>3. /\ fdtab' \in [Fd -> Client \cup {NoClient}]
      /\ \A f \in Fd : fdtab'[f] = IF f = fd THEN NoClient ELSE fdtab[f]
  BY <1>1 DEF TypeOK, ChatTypeOK
<1>4. \A c \in Client : c \in Range(fdtab') => c \in Range(fdtab)
  BY <1>3 DEF Range, TypeOK, ChatTypeOK
<1>5. TypeOK'
  BY <1>1, <1>2, <1>3 DEF TypeOK, ChatTypeOK
<1>6. RegistriesAgree'
  <2>1. user_fds = {f \in Fd : fdtab[f] # NoClient} /\ async = user_fds \cup {Listener}
    BY <1>1 DEF RegistriesAgree
  <2>2. user_fds' = {f \in Fd : fdtab'[f] # NoClient}
    BY <1>1, <1>3, <2>1
  <2>3. fd # Listener
    BY DEF Fd, Listener
  <2> QED
    BY <1>1, <2>1, <2>2, <2>3 DEF RegistriesAgree
<1>7. NoForgottenLine'
  <2>1. \A f \in user_fds' : f \in user_fds /\ f # fd /\ fdtab'[f] = fdtab[f]
    BY <1>1, <1>3 DEF TypeOK
  <2> QED
    BY <1>1, <1>2, <2>1 DEF NoForgottenLine, Unread
<1>8. LogOK' /\ InOrder' /\ \A d \in Client : LastPosition(d)' = LastPosition(d)
  BY <1>1, ChatKept DEF chat
<1>9. HistoryOK'
  BY <1>1 DEF HistoryOK
<1>10. Whereabouts'
  <2>1. Range(backlog') \subseteq Client
    BY <1>1, ElementOfSeq DEF Range, TypeOK, ChatTypeOK
  <2>2. Range(backlog') \cap Range(fdtab') = {}
    BY <1>1, <1>4, <2>1 DEF Whereabouts
  <2>3. ASSUME NEW c \in Client, client'[c] = "new" PROVE c \notin Range(backlog') /\ c \notin Range(fdtab')
    BY <1>1, <1>4, <2>3 DEF Whereabouts
  <2>4. ASSUME NEW f \in Fd, NEW other \in Fd, fdtab'[f] # NoClient, fdtab'[other] = fdtab'[f]
        PROVE  other = f
    BY <1>3, <2>4 DEF Whereabouts
  <2>5. ASSUME NEW c \in Client, client'[c] = "new" \/ c \in Range(backlog')
        PROVE  joined'[c] = -1 /\ delivered'[c] = <<>>
    BY <1>1, <2>5 DEF Whereabouts
  <2> QED
    BY <1>1, <2>2, <2>3, <2>4, <2>5 DEF Whereabouts
<1>11. InStep'
  <2>1. \A f \in Fd : fdtab'[f] \in Client => fdtab'[f] = fdtab[f]
    BY <1>3
  <2>2. \A f \in Fd : Missing(f)' = Missing(f)
    BY <1>1 DEF Missing
  <2> SUFFICES ASSUME NEW f \in Fd, fdtab'[f] \in Client, client'[fdtab'[f]] = "in"
               PROVE  /\ LastPosition(fdtab[f])' + Missing(f)' <= Len(log')
                      /\ fdtab'[f] \notin lost' => LastPosition(fdtab[f])' + Missing(f)' = Len(log')
    BY <1>1 DEF InStep
  <2>3. LastPosition(fdtab[f])' = LastPosition(fdtab[f])
    <3>1. PICK c \in Client : c = fdtab[f] /\ c = fdtab'[f]
      BY <2>1
    <3>2. LastPosition(c)' = LastPosition(c)
      BY <1>8
    <3>3. LastPosition(fdtab[f])' = LastPosition(c)'
      BY <3>1 DEF LastPosition
    <3> QED
      BY <3>1, <3>2, <3>3
  <2> QED
    BY <1>1, <2>1, <2>2, <2>3 DEF InStep
<1>12. NoSpareSignal'
  BY <1>1, <1>2 DEF NoSpareSignal
<1> QED
  BY <1>5, <1>6, <1>7, <1>8, <1>9, <1>10, <1>11, <1>12

\* A message is written to one client.
LEMMA WriteIInv ==
  ASSUME IInv, SendWrite PROVE IInv'
<1> USE ChatAssumption, RtsAssumption DEF IInv, Inv
<1> DEFINE c == fdtab[i]
           m == Last(log)
           was == delivered[c]
<1>1. /\ UNCHANGED <<client, said, seen, backlog, fdtab, log, heard, joined, queue, sigio,
                     pc, async, user_fds, sockfd, reset, full, early, lost>>
      /\ delivered' = [delivered EXCEPT ![c] = Append(@, m)]
      /\ i \in Fd /\ i' = i + 1 /\ i \in user_fds /\ pc = "send" /\ client[c] = "in"
  BY DEF SendWrite, Sending, Recipient, Put, signals, users
<1>2. /\ c \in Client /\ c \in Range(fdtab)
      /\ \A f \in Fd \ {i} : fdtab[f] # c
  BY <1>1 DEF RegistriesAgree, Whereabouts, TypeOK, ChatTypeOK, Range
<1>3. log # <<>> /\ log \in Seq(Message) /\ was \in Seq(Message) /\ Len(was) \in Nat
  BY <1>1, <1>2 DEF InStep, HistoryOK
<1>4. /\ Len(log) \in DOMAIN log /\ m = log[Len(log)] /\ m \in Range(log) /\ m \in Message
      /\ Len(log) \in Nat \ {0}
  BY <1>3 DEF Last, Range
<1>5. Position(m) = Len(log)
  BY <1>4, PositionOf
<1>6. /\ LastPosition(c) + 1 <= Len(log)
      /\ c \notin lost => LastPosition(c) + 1 = Len(log)
  BY <1>1, <1>2 DEF InStep, Missing, Fd
<1> HIDE DEF m
<1>7. /\ Append(was, m) \in Seq(Message) /\ Len(Append(was, m)) = Len(was) + 1
      /\ DOMAIN Append(was, m) = 1 .. Len(was) + 1 /\ DOMAIN was = 1..Len(was)
      /\ \A n \in 1..Len(was) : Append(was, m)[n] = was[n]
      /\ Append(was, m)[Len(was) + 1] = m
  BY <1>3, <1>4
<1>8. /\ delivered' \in [Client -> Seq(Message)] /\ delivered'[c] = Append(was, m)
      /\ \A d \in Client \ {c} : delivered'[d] = delivered[d]
  BY <1>1, <1>2, <1>7 DEF HistoryOK
<1>9. TypeOK'
  <2>1. ASSUME NEW d \in Client PROVE seen'[d] \in 0..Len(delivered'[d])
    <3>1. seen[d] \in 0..Len(delivered[d]) /\ Len(delivered[d]) \in Nat
      BY DEF TypeOK, ChatTypeOK, HistoryOK
    <3>2. CASE d = c
      BY <1>1, <1>3, <1>7, <1>8, <3>1, <3>2
    <3>3. CASE d # c
      BY <1>1, <1>8, <3>1, <3>3
    <3> QED
      BY <3>2, <3>3
  <2>2. ChatTypeOK'
    BY <1>1, <2>1 DEF TypeOK, ChatTypeOK
  <2>3. i' \in 1 .. FdLimit + 1
    BY <1>1 DEF Fd
  <2> QED
    BY <1>1, <2>2, <2>3 DEF TypeOK
<1>10. RegistriesAgree' /\ NoForgottenLine'
  BY <1>1 DEF RegistriesAgree, NoForgottenLine, Unread
<1>11. HistoryOK'
  BY <1>1, <1>8 DEF HistoryOK
<1>12. LogOK'
  <2>1. ASSUME NEW d \in Client, NEW n \in DOMAIN delivered'[d] PROVE delivered'[d][n] \in Range(log)
    <3>1. CASE d # c
      BY <1>8, <2>1, <3>1 DEF LogOK
    <3>2. CASE d = c /\ n \in 1..Len(was)
      BY <1>7, <1>8, <3>2 DEF LogOK
    <3>3. CASE d = c /\ n = Len(was) + 1
      BY <1>4, <1>7, <1>8, <3>3
    <3> QED
      BY SMTT(30), <1>3, <1>7, <1>8, <2>1, <3>1, <3>2, <3>3
  <2> QED
    BY <1>1, <2>1 DEF LogOK
<1>13. \A any : Position(any)' = Position(any)
  BY <1>1 DEF Position
<1>14. LastPosition(c) = IF Len(was) = 0 THEN joined[c] ELSE Position(was[Len(was)])
  <2>1. was = <<>> <=> Len(was) = 0
    BY <1>3
  <2>2. Last(was) = was[Len(was)]
    BY DEF Last
  <2> QED
    BY <2>1, <2>2 DEF LastPosition
<1>15. InOrder'
  <2>1. ASSUME NEW d \in Client, NEW n \in DOMAIN delivered'[d]
        PROVE  LET before == IF n = 1 THEN joined[d] ELSE Position(delivered'[d][n - 1])
                   here == Position(delivered'[d][n])
               IN  IF d \in lost THEN here > before ELSE here = before + 1
    <3>1. CASE d # c
      BY <1>8, <2>1, <3>1 DEF InOrder
    <3>2. CASE d = c /\ n \in 1..Len(was)
      <4>1. n # 1 => n - 1 \in 1..Len(was)
        BY <1>3, <3>2
      <4>2. n \in DOMAIN was /\ delivered'[d][n] = was[n]
            /\ (n # 1 => delivered'[d][n - 1] = was[n - 1])
        BY <1>7, <1>8, <3>2, <4>1
      <4>3. LET before == IF n = 1 THEN joined[d] ELSE Position(was[n - 1])
                here == Position(was[n])
            IN  IF d \in lost THEN here > before ELSE here = before + 1
        BY <3>2, <4>2 DEF InOrder
      <4> QED
        BY <4>2, <4>3
    <3>3. CASE d = c /\ n = Len(was) + 1
      <4>1. delivered'[d][n] = m /\ (n # 1 => n - 1 \in 1..Len(was) /\ n - 1 = Len(was))
            /\ (n = 1 <=> Len(was) = 0)
        BY <1>3, <1>7, <1>8, <3>3
      <4>2. n # 1 => delivered'[d][n - 1] = was[Len(was)]
        BY <1>7, <1>8, <3>3, <4>1
      <4>3. (IF n = 1 THEN joined[d] ELSE Position(delivered'[d][n - 1])) = LastPosition(c)
        BY <1>14, <3>3, <4>1, <4>2
      <4>4. LastPosition(c) \in Int
        BY <1>2, LastPositionInt
      <4>5. IF d \in lost THEN Len(log) > LastPosition(c) ELSE Len(log) = LastPosition(c) + 1
        BY <1>4, <1>6, <3>3, <4>4
      <4> DEFINE before == IF n = 1 THEN joined[d] ELSE Position(delivered'[d][n - 1])
                 here == Position(delivered'[d][n])
      <4>6. before = LastPosition(c) /\ here = Len(log)
        BY <1>5, <4>1, <4>3
      <4> HIDE DEF before, here
      <4>7. IF d \in lost THEN here > before ELSE here = before + 1
        BY <4>5, <4>6
      <4> QED
        BY <4>7 DEF before, here
    <3> QED
      BY SMTT(30), <1>3, <1>7, <1>8, <2>1, <3>1, <3>2, <3>3
  <2>2. \A d \in Client : \A n : Position(delivered[d][n])' = Position(delivered'[d][n])
    BY <1>1 DEF Position
  <2> SUFFICES ASSUME NEW d \in Client, NEW n \in DOMAIN delivered'[d]
               PROVE  LET before == IF n = 1 THEN joined[d] ELSE Position(delivered[d][n - 1])'
                          here == Position(delivered[d][n])'
                      IN  IF d \in lost THEN here > before ELSE here = before + 1
    <3>1. joined' = joined /\ lost' = lost
      BY <1>1
    <3> QED
      BY <3>1 DEF InOrder
  <2> QED
    BY <2>1, <2>2
<1>16. Whereabouts'
  <2>1. c \notin Range(backlog) /\ client[c] # "new"
    BY <1>1, <1>2 DEF Whereabouts
  <2>2. ASSUME NEW d \in Client, client'[d] = "new" \/ d \in Range(backlog')
        PROVE  joined'[d] = -1 /\ delivered'[d] = <<>>
    BY <1>1, <1>8, <2>1, <2>2 DEF Whereabouts
  <2> QED
    BY <1>1, <2>2 DEF Whereabouts
<1>17. InStep'
  <2> SUFFICES ASSUME NEW f \in Fd, fdtab[f] \in Client, client[fdtab[f]] = "in"
               PROVE  /\ LastPosition(fdtab[f])' + Missing(f)' <= Len(log)
                      /\ fdtab[f] \notin lost => LastPosition(fdtab[f])' + Missing(f)' = Len(log)
    BY <1>1, <1>3 DEF InStep
  <2>1. CASE f = i
    <3>1. Missing(f)' = 0
      BY <1>1, <2>1 DEF Missing, Fd
    <3>2. Append(was, m) # <<>> /\ Last(Append(was, m)) = m
      <4> HIDE DEF was
      <4> QED
        BY <1>3, <1>7 DEF Last
    <3>3. PICK d : d = m
      OBVIOUS
    <3>4. LastPosition(fdtab[f])' = Position(d)'
      BY <1>1, <1>8, <2>1, <3>2, <3>3 DEF LastPosition, Position
    <3>5. LastPosition(fdtab[f])' = Len(log)
      BY <1>5, <1>13, <3>3, <3>4
    <3> QED
      BY <1>4, <3>1, <3>5
  <2>2. CASE f # i
    <3>1. Missing(f)' = Missing(f)
      BY <1>1, <2>2 DEF Missing, Fd
    <3>2. PICK d \in Client \ {c} : d = fdtab[f]
      BY <1>2, <2>2
    <3>3. LastPosition(d)' = LastPosition(d)
      <4>1. delivered'[d] = delivered[d] /\ joined'[d] = joined[d] /\ log' = log
        BY <1>1, <1>8
      <4> QED
        BY <4>1 DEF LastPosition, Position
    <3>4. LastPosition(fdtab[f])' = LastPosition(d)'
      BY <1>1, <3>2 DEF LastPosition
    <3> QED
      BY <3>1, <3>2, <3>3, <3>4 DEF InStep
  <2> QED
    BY <2>1, <2>2
<1>18. NoSpareSignal'
  BY <1>1 DEF NoSpareSignal
<1> QED
  BY <1>9, <1>10, <1>11, <1>12, <1>15, <1>16, <1>17, <1>18

\* Every step preserves the invariant.
LEMMA NextIInv == IInv /\ [Next]_vars => IInv'
<1> SUFFICES ASSUME IInv, [Next]_vars PROVE IInv'
  OBVIOUS
<1>1. CASE SetupListener \/ SendSkip \/ SendFull \/ SendLost \/ SendEnd
  BY <1>1, LoopIInv
<1>2. CASE Accept
  BY <1>2, AcceptIInv
<1>3. CASE SetupConnection
  BY <1>3, SetupIInv
<1>4. CASE SendWrite
  BY <1>4, WriteIInv
<1>5. ASSUME NEW fd \in Fd, Read(fd) \/ Drop(fd) PROVE IInv'
  BY <1>5, ReadIInv, DropIInv
<1>6. CASE AcceptFails
  BY <1>6, AcceptFailsIInv
<1>7. CASE Dies
  BY <1>7, DieIInv
<1>8. ASSUME NEW c \in Client, UserActs(c) \/ ClientShows(c) \/ ClientEnds(c) PROVE IInv'
  <2>1. CASE Connect(c, pc # "dead") /\ Raise({Listener}) /\ UNCHANGED server
    BY <2>1, ConnectIInv
  <2>2. CASE Say(c) /\ Raise(FdsOf(c)) /\ UNCHANGED server
    BY <2>2, SayIInv
  <2>3. CASE (Quit(c) /\ Raise(FdsOf(c)) /\ UNCHANGED server) \/ ClientShows(c) \/ ClientEnds(c)
    BY <2>3, ReaderIInv
  <2> QED
    BY <1>8, <2>1, <2>2, <2>3 DEF UserActs
<1>9. CASE UNCHANGED vars
  <2>1. /\ UNCHANGED <<client, said, seen, backlog, fdtab, queue, sigio,
                       pc, async, user_fds, sockfd, i, reset, full, early, lost>>
        /\ UNCHANGED chat
    BY <1>9 DEF vars, chatVars, users, signals, server
  <2>2. UNCHANGED <<log, heard, joined, delivered>>
    BY <2>1 DEF chat
  <2>3. LogOK' /\ InOrder' /\ \A d \in Client : LastPosition(d)' = LastPosition(d)
    BY <2>1, ChatKept DEF IInv, Inv
  <2>4. TypeOK' /\ HistoryOK'
    BY <2>1, <2>2 DEF IInv, Inv, TypeOK, ChatTypeOK, HistoryOK
  <2>5. RegistriesAgree' /\ NoForgottenLine' /\ Whereabouts' /\ NoSpareSignal'
    BY <2>1, <2>2 DEF IInv, Inv, RegistriesAgree, NoForgottenLine, Unread, Whereabouts, NoSpareSignal
  <2>6. InStep'
    BY <2>1, <2>2, <2>3 DEF IInv, InStep, Missing
  <2> QED
    BY <2>3, <2>4, <2>5, <2>6 DEF IInv, Inv
<1> QED
  BY <1>1, <1>2, <1>3, <1>4, <1>5, <1>6, <1>7, <1>8, <1>9 DEF Next, ServerStep

\* However stale the signals that are taken, user_fds is the set of the open
\* connections; every line that is not read has its signal, as long as the
\* queue has not overflowed; and the messages keep the order of the log.
THEOREM Safety == Spec => []Inv
<1>1. IInv => Inv
  BY DEF IInv
<1> QED
  BY <1>1, InitIInv, NextIInv, PTL DEF Spec

\* A connection joins those that wait, with a signal or without.
LEMMA Arrived ==
  ASSUME NEW waits \in Nat, NEW queued \in Nat, NEW waits2 \in Nat, NEW queued2 \in Nat,
         waits2 = waits + 1, queued2 \in {queued, queued + 1}
  PROVE  /\ waits2 - queued2 >= waits - queued
         /\ queued2 = queued + 1 => ~(waits2 - queued2 > waits - queued)
OBVIOUS

\* A signal is taken, and with it a connection or none.
LEMMA SignalTaken ==
  ASSUME NEW waits \in Nat, NEW queued \in Nat, NEW waits2 \in Nat, NEW queued2 \in Nat,
         queued2 = queued - 1, waits2 \in {waits - 1, waits}
  PROVE  /\ waits2 - queued2 >= waits - queued
         /\ waits2 = waits - 1 => ~(waits2 - queued2 > waits - queued)
OBVIOUS

\* A connection stays without its signal only if it comes before the listener
\* has an owner or its signal is taken when no descriptor is free; and what is
\* missed once is never made up for.
THEOREM CaughtUp == Spec => NeverCaughtUp
<1>1. ASSUME IInv, IInv', [Next]_vars
      PROVE  [pc' # "dead" /\ ~sigio' =>
                /\ Missed' >= Missed
                /\ Missed' > Missed => pc = "listen" \/ LowestFree = {}]_vars
  <2> USE <1>1 DEF IInv, Inv
  <2> DEFINE signalled == Count(queue, Listener)
             waiting == Len(backlog)
  <2>1. Missed = waiting - signalled /\ signalled \in Nat /\ waiting \in Nat
    <3>1. queue \in Seq(Fd \cup {Listener}) /\ backlog \in Seq(Client)
      BY DEF TypeOK, ChatTypeOK
    <3>2. signalled \in Nat
      BY <3>1, CountNat
    <3>3. waiting \in Nat
      BY <3>1
    <3> QED
      BY <3>2, <3>3 DEF Missed, Count
  <2>2. Missed' = waiting' - signalled' /\ signalled' \in Nat /\ waiting' \in Nat
    <3>1. queue' \in Seq(Fd \cup {Listener}) /\ backlog' \in Seq(Client)
      BY DEF TypeOK, ChatTypeOK
    <3>2. signalled' \in Nat
      BY <3>1, CountNat
    <3>3. waiting' \in Nat
      BY <3>1
    <3> QED
      BY <3>2, <3>3 DEF Missed, Count
  <2> SUFFICES ASSUME pc' # "dead", ~sigio'
               PROVE  /\ waiting' - signalled' >= waiting - signalled
                      /\ waiting' - signalled' > waiting - signalled => pc = "listen" \/ LowestFree = {}
    BY <2>1, <2>2
  <2> HIDE DEF signalled, waiting
  <2>3. CASE waiting' = waiting /\ signalled' = signalled
    BY <2>1, <2>2, <2>3
  <2>4. ASSUME NEW c \in Client, Connect(c, pc # "dead"), Raise({Listener})
        PROVE  /\ waiting' - signalled' >= waiting - signalled
               /\ waiting' - signalled' > waiting - signalled => pc = "listen" \/ LowestFree = {}
    <3>1. waiting' = waiting + 1 /\ pc # "dead"
      BY <2>4 DEF Connect, waiting, TypeOK, ChatTypeOK
    <3>2. signalled' \in {signalled, signalled + 1}
      BY <2>4, RaiseKeeps DEF signalled
    <3>3. ASSUME pc # "listen" PROVE signalled' = signalled + 1
      <4>1. Owned({Listener}) = {Listener}
        BY <3>1, <3>3 DEF RegistriesAgree, Owned
      <4> QED
        BY <2>4, <4>1, RaiseQueues DEF signalled
    <3>4. /\ waiting' - signalled' >= waiting - signalled
          /\ signalled' = signalled + 1 => ~(waiting' - signalled' > waiting - signalled)
      BY <2>1, <2>2, <3>1, <3>2, Arrived
    <3> QED
      BY <3>3, <3>4
  <2>5. ASSUME NEW fds \in SUBSET Fd, Raise(fds), UNCHANGED backlog
        PROVE  waiting' = waiting /\ signalled' = signalled
    BY <2>5, RaiseKeeps DEF Fd, Listener, waiting, signalled
  <2>6. ASSUME UNCHANGED <<backlog, signals>> PROVE waiting' = waiting /\ signalled' = signalled
    BY <2>6 DEF signals, waiting, signalled
  <2>7. ASSUME NEW c \in Client, UserActs(c)
        PROVE  /\ waiting' - signalled' >= waiting - signalled
               /\ waiting' - signalled' > waiting - signalled => pc = "listen" \/ LowestFree = {}
    <3>1. CASE (Say(c) \/ Quit(c)) /\ Raise(FdsOf(c))
      BY <2>3, <2>5, <3>1 DEF Say, Quit, FdsOf
    <3> QED
      BY <2>4, <2>7, <3>1 DEF UserActs
  <2>8. ASSUME NEW c \in Client, ClientShows(c) PROVE waiting' = waiting /\ signalled' = signalled
    <3>1. \E fds \in {FdsOf(c), {}} : Raise(fds)
      BY <2>8 DEF ClientShows
    <3> QED
      BY <2>5, <2>8, <3>1 DEF ClientShows, Show, FdsOf
  <2>9. CASE SendLost
    <3>1. (\E fds \in {{i}, {}} : Raise(fds)) /\ i \in Fd /\ UNCHANGED backlog
      BY <2>9 DEF SendLost, Sending, chatVars
    <3> QED
      BY <2>3, <2>5, <3>1
  <2>10. CASE Accept
    <3>1. signalled' = signalled - 1
      BY <2>10, Dequeued DEF Accept, signalled
    <3>2. backlog \in Seq(Client) /\ backlog # <<>> /\ backlog' = Tail(backlog)
      BY <2>10 DEF Accept, Open, TypeOK, ChatTypeOK
    <3>3. waiting' = waiting - 1
      BY <3>2 DEF waiting
    <3> QED
      BY <2>1, <2>2, <3>1, <3>3
  <2>11. CASE AcceptFails
    <3>1. signalled' = signalled - 1
      BY <2>11, Dequeued DEF AcceptFails, signalled
    <3>2. backlog \in Seq(Client) /\ backlog # <<>>
      BY <2>11, AcceptFailsIInv DEF TypeOK, ChatTypeOK
    <3>3. \/ LowestFree = {} /\ UNCHANGED backlog
          \/ backlog' = Tail(backlog)
      BY <2>11, <3>2 DEF AcceptFails
    <3>4. \/ LowestFree = {} /\ waiting' = waiting
          \/ waiting' = waiting - 1
      BY <3>2, <3>3 DEF waiting
    <3>5. waiting' \in {waiting - 1, waiting}
      BY <3>4
    <3>6. /\ waiting' - signalled' >= waiting - signalled
          /\ waiting' = waiting - 1 => ~(waiting' - signalled' > waiting - signalled)
      BY <2>1, <2>2, <3>1, <3>5, SignalTaken
    <3> QED
      BY <3>4, <3>6
  <2>12. ASSUME NEW fd \in Fd, Read(fd) \/ Drop(fd)
         PROVE  waiting' = waiting /\ signalled' = signalled
    <3>1. Taken(fd) /\ Dequeue /\ UNCHANGED backlog
      BY <2>12 DEF Read, Drop, Hear, CloseFd
    <3>2. fd # Listener
      BY DEF Fd, Listener
    <3> QED
      BY <3>1, <3>2, Dequeued DEF waiting, signalled
  <2>13. CASE \/ SetupListener \/ SetupConnection \/ SendWrite \/ SendFull \/ SendSkip \/ SendEnd
              \/ \E c \in Client : ClientEnds(c)
              \/ UNCHANGED vars
    <3>1. UNCHANGED <<backlog, signals>>
      BY <2>13 DEF SetupListener, SetupConnection, SendWrite, Put, SendFull, SendSkip, SendEnd,
         ClientEnds, Ended, vars, chatVars
    <3> QED
      BY <2>3, <2>6, <3>1
  <2>14. ~Dies
    BY DEF Dies
  <2> QED
    BY <1>1, <2>3, <2>7, <2>8, <2>9, <2>10, <2>11, <2>12, <2>13, <2>14 DEF Next, ServerStep
<1> QED
  BY <1>1, InitIInv, NextIInv, PTL DEF Spec, NeverCaughtUp
=============================================================================
