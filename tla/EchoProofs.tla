------------------------------ MODULE EchoProofs ------------------------------
(***************************************************************************)
(* Proofs about EchoServerFork, for any clients, descriptors and bounds,   *)
(* and about the three echo servers of EchoServers.                        *)
(* EchoServerFork: who holds a connection (Inv) is inductive together with *)
(* who has a child (Children).  That the answers are those of the service  *)
(* needs Streams: where each unit of a line is, in the connection, the     *)
(* child's buffer or the answer, however TCP cuts the line.                *)
(* EchoServers: each server has an invariant that says what its one buffer *)
(* has of whose line (IterativeIInv, PollingIInv, OobIInv); NetOK is what  *)
(* they share.                                                             *)
(***************************************************************************)
EXTENDS EchoServerFork, EchoServers, QueueLemmas, WellFoundedInduction

\* What a connection and a buffer carry.
Bytes == Seq((Client \X Nat) \cup {NUL})

\* What a client sends: its line, then the zeros.
Unit(c, k, upto) == IF k <= upto THEN <<c, k>> ELSE NUL

\* How much of it the child has read, and how much of the line.
Taken(c) == MaxLine - Len(toServer[c])
LineTaken(c) == IF Taken(c) <= LineLen THEN Taken(c) ELSE LineLen

\* Two stretches of a stream one after the other, unit by unit.
LEMMA BytesConcat ==
  ASSUME NEW s \in Bytes, NEW t \in Bytes
  PROVE  /\ s \o t \in Bytes
         /\ Len(s \o t) = Len(s) + Len(t) /\ Len(s \o t) \in Nat
         /\ \A k \in 1 .. Len(s) + Len(t) : (s \o t)[k] = IF k <= Len(s) THEN s[k] ELSE t[k - Len(s)]
BY ConcatProperties DEF Bytes

\* Two stretches of the same length and the same units are one.
LEMMA BytesEqual ==
  ASSUME NEW s \in Bytes, NEW t \in Bytes, Len(s) = Len(t), \A k \in 1..Len(s) : s[k] = t[k]
  PROVE  s = t
BY SeqEqual DEF Bytes

\* What a client writes.
LEMMA AskData ==
  ASSUME NEW c \in Client
  PROVE  /\ Line(c) \in Seq(Client \X Nat) /\ Len(Line(c)) = LineLen /\ Line(c) # <<>>
         /\ \A k \in 1..LineLen : Line(c)[k] = <<c, k>>
         /\ Append(Line(c), NUL) \in Bytes /\ Len(Append(Line(c), NUL)) = MaxLine
         /\ \A k \in 1..MaxLine : Append(Line(c), NUL)[k] = Unit(c, k, LineLen)
<1>1. LineLen \in Nat \ {0}
  BY ClientAssumption
<1>2. /\ Line(c) \in Seq(Client \X Nat) /\ Len(Line(c)) = LineLen
      /\ \A k \in 1..LineLen : Line(c)[k] = <<c, k>>
  BY <1>1 DEF Line
<1>3. Line(c) \in Bytes
  BY <1>2, SeqMonotonic DEF Bytes
<1>4. /\ Append(Line(c), NUL) \in Bytes /\ Len(Append(Line(c), NUL)) = LineLen + 1
      /\ \A k \in 1..LineLen : Append(Line(c), NUL)[k] = Line(c)[k]
      /\ Append(Line(c), NUL)[LineLen + 1] = NUL
  BY <1>1, <1>2, <1>3, AppendProperties DEF Bytes
<1>5. ASSUME NEW k \in 1 .. LineLen + 1 PROVE Append(Line(c), NUL)[k] = Unit(c, k, LineLen)
  <2>1. CASE k <= LineLen
    <3>1. k \in 1..LineLen
      BY <1>1, <2>1
    <3> QED
      BY <1>2, <1>4, <2>1, <3>1 DEF Unit
  <2>2. CASE k = LineLen + 1
    <3>1. ~(k <= LineLen)
      BY <1>1, <2>2
    <3> QED
      BY <1>4, <2>2, <3>1 DEF Unit
  <2>3. k <= LineLen \/ k = LineLen + 1
    BY <1>1
  <2> QED
    BY <2>1, <2>2, <2>3
<1> QED
  BY <1>1, <1>2, <1>4, <1>5 DEF MaxLine


(* EchoServerFork. *)

\* A connection has a child only once the parent has forked for it, which it
\* does once.
Children ==
  /\ \A c \in Client : client[c] = "new" => c \notin Range(backlog)
  /\ \A c \in Client : client[c] = "new" \/ c \in Range(backlog) => child[c] = "none"
  /\ parent \in {"fork", "close"} => cur \in Client
  /\ parent = "fork" => child[cur] = "none" /\ client[cur] # "new" /\ cur \notin Range(backlog)

\* Nothing asked, nothing answered; the answer is a beginning of the line; what
\* is still to be read is the rest of it.
AnswerOK(c) ==
  /\ client[c] \in {"new", "typing"} => asked[c] = <<>>
  /\ asked[c] = <<>> => toServer[c] = <<>> /\ answer[c] = <<>> /\ child[c] # "write"
  /\ asked[c] # <<>> => asked[c] = Line(c)
  /\ Len(answer[c]) <= LineLen /\ \A k \in 1..Len(answer[c]) : answer[c][k] = <<c, k>>
  /\ Len(toServer[c]) <= MaxLine
  /\ \A k \in 1..Len(toServer[c]) : toServer[c][k] = Unit(c, Taken(c) + k, LineLen)

\* Before it reads, a child has a clean buffer and has answered all that it has
\* read; before it writes, the buffer has what is still to be answered.
BufferOK(c) ==
  /\ Len(buf[c]) = MaxLine
  /\ child[c] \in {"none", "read"} => buf[c] = Zeroed
  /\ child[c] \in {"none", "read"} /\ ~Closed(c) /\ asked[c] # <<>> => Len(answer[c]) = LineTaken(c)
  /\ child[c] = "write" /\ ~Closed(c) =>
       /\ Len(answer[c]) <= LineTaken(c)
       /\ \A k \in 1..MaxLine : buf[c][k] = Unit(c, Len(answer[c]) + k, LineTaken(c))

Streams == \A c \in Client : AnswerOK(c) /\ BufferOK(c)

IInv == Inv /\ Children /\ Streams

\* The program starts.
LEMMA InitIInv == Init => IInv
<1> SUFFICES ASSUME Init PROVE IInv
  OBVIOUS
<1> USE ClientAssumption, ForkAssumption DEF Init, NetInit
<1>1. Range(backlog) = {}
  BY DEF Range
<1>2. Zeroed \in Bytes /\ Len(Zeroed) = MaxLine
  BY DEF Zeroed, MaxLine, Bytes
<1>3. TypeOK
  BY <1>2 DEF TypeOK, NetTypeOK, IsInjective, Bytes
<1>4. ParentHolds /\ HeldByOwnChild
  BY DEF ParentHolds, HeldByOwnChild, Held
<1>5. Children
  BY <1>1 DEF Children
<1>6. Streams
  BY <1>2 DEF Streams, AnswerOK, BufferOK, MaxLine
<1> QED
  BY <1>3, <1>4, <1>5, <1>6 DEF IInv, Inv

\* The descriptors of a process that ends.
LEMMA LeaveHolds ==
  ASSUME Inv, NEW p \in Client \cup {Parent}, Leave(p), cur' = cur,
         \/ p = Parent /\ parent' = "gone" /\ failed' = failed
         \/ p # Parent /\ parent' = parent /\ failed' = failed
  PROVE  ParentHolds' /\ HeldByOwnChild'
<1> USE ForkAssumption DEF Inv, TypeOK
<1>1. \A c \in Client : holders'[c] = holders[c] \ {p}
  BY DEF Leave
<1>2. ParentHolds'
  BY <1>1 DEF ParentHolds, Held, Working
<1>3. HeldByOwnChild'
  BY <1>1 DEF HeldByOwnChild, Working
<1> QED
  BY <1>2, <1>3

\* A step that touches no descriptor and leaves the parent where it is changes
\* nobody's connections.
LEMMA HoldsKept ==
  ASSUME Inv, UNCHANGED <<holders, parent, cur, failed>>
  PROVE  ParentHolds' /\ HeldByOwnChild'
BY DEF Inv, ParentHolds, HeldByOwnChild, Held, Working

\* What a read leaves in the connection and in the buffer.
LEMMA ReadData ==
  ASSUME IInv, NEW c \in Client, NEW n \in 1..MaxLine, Take(c, n)
  PROVE  /\ n <= Len(toServer[c]) /\ Len(toServer[c]) \in Nat
         /\ toServer'[c] \in Bytes /\ Len(toServer'[c]) = Len(toServer[c]) - n
         /\ \A k \in 1 .. Len(toServer[c]) - n : toServer'[c][k] = toServer[c][n + k]
         /\ ReadInto(buf[c], c, n) \in Bytes /\ Len(ReadInto(buf[c], c, n)) = MaxLine
         /\ \A k \in 1..MaxLine :
              ReadInto(buf[c], c, n)[k] = IF k <= n THEN toServer[c][k] ELSE buf[c][k]
<1> DEFINE s == toServer[c]
           head == SubSeq(s, 1, n)
           tail == SubSeq(buf[c], n + 1, MaxLine)
<1>1. MaxLine \in Nat /\ n \in Nat /\ 1 <= n /\ n <= MaxLine
  BY ClientAssumption DEF MaxLine
<1>2. s \in Bytes /\ Len(s) \in Nat /\ buf[c] \in Bytes /\ Len(buf[c]) = MaxLine
  BY DEF IInv, Inv, TypeOK, NetTypeOK, Streams, BufferOK, Bytes
<1>3. n <= Len(s) /\ toServer'[c] = SubSeq(s, n + 1, Len(s))
  BY DEF Take, IInv, Inv, TypeOK, NetTypeOK
<1>4. /\ toServer'[c] \in Bytes /\ Len(toServer'[c]) = Len(s) - n
      /\ \A k \in 1 .. Len(s) - n : toServer'[c][k] = s[n + k]
  BY <1>1, <1>2, <1>3 DEF Bytes
<1>5. head \in Bytes /\ Len(head) = n /\ \A k \in 1..n : head[k] = s[k]
  BY <1>1, <1>2, <1>3 DEF Bytes
<1>6. tail \in Bytes /\ Len(tail) = MaxLine - n /\ \A k \in 1 .. MaxLine - n : tail[k] = buf[c][n + k]
  BY <1>1, <1>2 DEF Bytes
<1>7. /\ head \o tail \in Bytes /\ Len(head \o tail) = MaxLine
      /\ \A k \in 1..MaxLine : (head \o tail)[k] = IF k <= n THEN head[k] ELSE tail[k - n]
  <2>1. /\ head \o tail \in Bytes /\ Len(head \o tail) = Len(head) + Len(tail)
        /\ \A k \in 1 .. Len(head) + Len(tail) :
             (head \o tail)[k] = IF k <= Len(head) THEN head[k] ELSE tail[k - Len(head)]
    BY <1>5, <1>6, BytesConcat
  <2>2. Len(head) = n /\ Len(head) + Len(tail) = MaxLine
    BY <1>1, <1>5, <1>6
  <2> QED
    BY <2>1, <2>2
<1>8. \A k \in 1..MaxLine : (head \o tail)[k] = IF k <= n THEN s[k] ELSE buf[c][k]
  BY <1>1, <1>5, <1>6, <1>7
<1> QED
  BY <1>2, <1>3, <1>4, <1>7, <1>8 DEF ReadInto

\* What a child writes to a client that is there: what it has read of the line
\* and not yet answered.
LEMMA WriteData ==
  ASSUME IInv, NEW c \in Client, child[c] = "write", ~Closed(c)
  PROVE  LET m == LineTaken(c) - Len(answer[c])
             data == UpToNul(buf[c])
         IN  /\ LineTaken(c) \in 0..LineLen /\ Len(answer[c]) \in 0..LineTaken(c)
             /\ data \in Bytes /\ Len(data) = m
             /\ \A k \in 1..m : data[k] = <<c, Len(answer[c]) + k>>
<1> DEFINE a == Len(answer[c])
           m == LineTaken(c) - a
           I == {k \in 1..Len(buf[c]) : buf[c][k] = NUL}
<1>1. /\ answer[c] \in Bytes /\ a \in Nat /\ toServer[c] \in Bytes /\ Len(toServer[c]) \in Nat
      /\ buf[c] \in Bytes /\ Len(buf[c]) = MaxLine
  BY DEF IInv, Inv, TypeOK, NetTypeOK, Streams, BufferOK, Bytes
<1>2. a <= LineTaken(c) /\ Len(toServer[c]) <= MaxLine
  BY DEF IInv, Streams, AnswerOK, BufferOK
<1>3. \A k \in 1..MaxLine : buf[c][k] = Unit(c, a + k, LineTaken(c))
  BY DEF IInv, Streams, BufferOK
<1>4. /\ LineLen \in Nat \ {0} /\ MaxLine = LineLen + 1
      /\ NUL \notin Client \X (1..LineLen)
  BY ClientAssumption DEF MaxLine
<1>5. LineTaken(c) \in 0..LineLen
  BY <1>1, <1>2, <1>4 DEF LineTaken, Taken
<1>6. m \in 0..LineLen /\ m + 1 \in 1..MaxLine /\ (m + 1) - 1 = m
  <2>1. LineTaken(c) \in Nat /\ LineTaken(c) <= LineLen
    BY <1>4, <1>5
  <2> QED
    BY <1>1, <1>4, <1>2, <2>1, SMTT(30)
<1>7. \A k \in 1..m : buf[c][k] = <<c, a + k>> /\ buf[c][k] # NUL
  <2> SUFFICES ASSUME NEW k \in 1..m PROVE buf[c][k] = <<c, a + k>> /\ buf[c][k] # NUL
    OBVIOUS
  <2>1. k \in 1..MaxLine /\ a + k <= LineTaken(c) /\ a + k \in 1..LineLen
    BY SMTT(30), <1>1, <1>4, <1>5, <1>6
  <2>2. buf[c][k] = <<c, a + k>>
    BY <1>3, <2>1 DEF Unit
  <2> QED
    BY <1>4, <2>1, <2>2
<1>8. buf[c][m + 1] = NUL
  <2>1. ~(a + (m + 1) <= LineTaken(c))
    BY <1>1, <1>5
  <2> QED
    BY <1>3, <1>6, <2>1 DEF Unit
<1>9. m + 1 \in I /\ \A k \in I : m + 1 <= k
  <2>1. \A k \in I : k \notin 1..m
    BY <1>7
  <2> QED
    BY <1>1, <1>4, <1>6, <1>8, <2>1
<1>10. Min(I) = m + 1
  <2>1. Min(I) \in I /\ \A k \in I : Min(I) <= k
    BY <1>9 DEF Min
  <2>2. Min(I) \in Nat /\ m + 1 \in Nat
    BY <1>1, <1>4, <1>6, <2>1
  <2>3. Min(I) <= m + 1 /\ m + 1 <= Min(I)
    BY <1>9, <2>1
  <2> QED
    BY <2>2, <2>3
<1>11. UpToNul(buf[c]) = SubSeq(buf[c], 1, m)
  <2>1. UpToNul(buf[c]) = SubSeq(buf[c], 1, Min(I) - 1)
    BY <1>9 DEF UpToNul, SelectInSeq
  <2> QED
    BY <1>6, <1>10, <2>1
<1>12. /\ UpToNul(buf[c]) \in Bytes /\ Len(UpToNul(buf[c])) = m
       /\ \A k \in 1..m : UpToNul(buf[c])[k] = buf[c][k]
  BY <1>1, <1>4, <1>6, <1>11 DEF Bytes
<1>13. a \in 0..LineTaken(c)
  BY <1>1, <1>4, <1>5, <1>2
<1> QED
  BY <1>5, <1>7, <1>12, <1>13

\* The connections of the parent and of the children, step by step.
LEMMA HoldsNext ==
  ASSUME IInv, [Next]_vars PROVE ParentHolds' /\ HeldByOwnChild'
<1> USE ForkAssumption DEF IInv
<1>1. CASE Accept
  <2>1. /\ parent = "accept" /\ parent' = "fork" /\ cur' = Head(backlog) /\ failed' = failed
        /\ holders' = [holders EXCEPT ![cur'] = {Parent}]
    BY <1>1 DEF Accept
  <2>2. cur' \in Client
    BY <1>1, <2>1, QueueTail DEF Accept, Inv, TypeOK, NetTypeOK
  <2>3. \A c \in Client : holders'[c] = IF c = cur' THEN {Parent} ELSE holders[c]
    BY <2>1, <2>2 DEF Inv, TypeOK
  <2> QED
    BY <2>1, <2>2, <2>3 DEF Inv, ParentHolds, HeldByOwnChild, Held, Working
<1>2. CASE Fork
  <2>1. /\ parent = "fork" /\ parent' = "close" /\ cur' = cur /\ failed' = failed /\ cur \in Client
        /\ \A c \in Client : holders'[c] = IF c \in Held THEN holders[c] \cup {cur} ELSE holders[c]
    BY <1>2 DEF Fork, Children
  <2>2. Held \subseteq failed \cup {cur}
    BY <2>1 DEF Inv, ParentHolds, Working
  <2>3. Held' = Held
    BY <2>1 DEF Held
  <2>4. ParentHolds'
    BY <2>1, <2>2, <2>3 DEF ParentHolds, Working
  <2>5. HeldByOwnChild'
    <3> SUFFICES ASSUME NEW c \in Client \ failed
                 PROVE  holders'[c] \subseteq IF c = cur THEN {c, Parent} ELSE {c}
      BY <2>1 DEF HeldByOwnChild, Working
    <3>1. holders[c] \subseteq IF c = cur THEN {c, Parent} ELSE {c}
      BY <2>1 DEF Inv, HeldByOwnChild, Working
    <3> QED
      BY <2>1, <2>2, <3>1
  <2> QED
    BY <2>4, <2>5
<1>3. CASE ForkFails
  <2>1. parent = "fork" /\ parent' = "accept" /\ failed' = failed \cup {cur} /\ holders' = holders
    BY <1>3 DEF ForkFails, files
  <2> QED
    BY <2>1 DEF Inv, ParentHolds, HeldByOwnChild, Held, Working
<1>4. CASE ParentClose
  <2>1. /\ parent = "close" /\ parent' = "accept" /\ failed' = failed /\ cur \in Client
        /\ \A c \in Client : holders'[c] = IF c = cur THEN holders[c] \ {Parent} ELSE holders[c]
    BY <1>4 DEF ParentClose, Closing, Children, Inv, TypeOK
  <2>2. Held' \subseteq Held \ {cur} /\ Held \subseteq failed \cup {cur}
    BY <2>1 DEF Held, Inv, ParentHolds, Working
  <2>3. ParentHolds'
    BY <2>1, <2>2 DEF ParentHolds
  <2>4. HeldByOwnChild'
    <3> SUFFICES ASSUME NEW c \in Client \ failed, NEW p \in holders'[c] PROVE p = c
      BY <2>1 DEF HeldByOwnChild, Working
    <3>1. holders[c] \subseteq IF c = cur THEN {c, Parent} ELSE {c}
      BY <2>1 DEF Inv, HeldByOwnChild, Working
    <3>2. p \in holders[c] /\ (c = cur => p # Parent)
      BY <2>1
    <3> QED
      BY <3>1, <3>2
  <2> QED
    BY <2>3, <2>4
<1>5. CASE AcceptFails \/ KillParent
  BY <1>5, LeaveHolds DEF AcceptFails, KillParent, ParentExits
<1>6. CASE Start
  <2>1. parent = "gone" /\ parent' = "accept" /\ UNCHANGED <<holders, failed>>
    BY <1>6 DEF Start
  <2> QED
    BY <2>1 DEF Inv, ParentHolds, HeldByOwnChild, Held, Working
<1>7. ASSUME NEW c \in Client, ChildEnds(c) PROVE ParentHolds' /\ HeldByOwnChild'
  BY <1>7, LeaveHolds DEF ChildEnds
<1>8. ASSUME NEW c \in Client, Read(c) \/ Write(c) \/ ClientReads(c) \/ UserActs(c)
      PROVE ParentHolds' /\ HeldByOwnChild'
  <2>1. UNCHANGED <<holders, parent, cur, failed>>
    BY <1>8 DEF Read, Write, ClientReads, UserActs, files, server
  <2> QED
    BY <2>1, HoldsKept
<1>9. CASE UNCHANGED vars
  BY <1>9, HoldsKept DEF vars, files
<1> QED
  BY <1>1, <1>2, <1>3, <1>4, <1>5, <1>6, <1>7, <1>8, <1>9 DEF Next, ParentStep, ChildStep

\* A process that ends takes nobody's place: the types and the order of lives
\* hold on.
LEMMA LeaveTypes ==
  ASSUME IInv, NEW p \in Client \cup {Parent}, Leave(p), UNCHANGED <<cur, buf, failed>>, runs' \in Nat,
         \/ parent' = "gone" /\ child' = child
         \/ parent' = parent /\ \E c \in Client : /\ child[c] # "none"
                                                  /\ child' = [child EXCEPT ![c] = "exited"]
  PROVE  TypeOK' /\ Children'
<1> USE ClientAssumption, ForkAssumption DEF IInv, Inv, TypeOK, NetTypeOK
<1>1. /\ backlog' \in {<<>>, backlog} /\ listeners' = listeners \ {p}
      /\ holders' = [c \in Client |-> holders[c] \ {p}]
      /\ UNCHANGED <<client, asked, toServer, answer, cur, buf, failed>>
  BY DEF Leave
<1>2. Range(backlog') \subseteq Range(backlog)
  BY <1>1 DEF Range
<1>3. IsInjective(backlog') /\ backlog' \in Seq(Client)
  <2>1. CASE backlog' = <<>>
    BY <2>1 DEF IsInjective
  <2> QED
    BY <1>1, <2>1
<1>4. child' \in [Client -> {"none", "read", "write", "exited"}]
      /\ \A c \in Client : child[c] = "none" => child'[c] = "none"
  OBVIOUS
<1>5. TypeOK'
  BY <1>1, <1>3, <1>4
<1>6. Children'
  <2>1. Children
    OBVIOUS
  <2> HIDE DEF IInv, Inv, TypeOK, NetTypeOK
  <2>2. \A c \in Client : client'[c] = "new" => c \notin Range(backlog')
    BY <1>1, <1>2, <2>1 DEF Children
  <2>3. \A c \in Client : client'[c] = "new" \/ c \in Range(backlog') => child'[c] = "none"
    BY <1>1, <1>2, <1>4, <2>1 DEF Children
  <2>4. parent' = "gone" \/ parent' = parent
    OBVIOUS
  <2>5. parent' \in {"fork", "close"} => cur' \in Client
    BY <1>1, <2>1, <2>4 DEF Children
  <2>6. parent' = "fork" => child'[cur'] = "none" /\ client'[cur'] # "new" /\ cur' \notin Range(backlog')
    BY <1>1, <1>2, <1>4, <2>1, <2>4, <2>5 DEF Children
  <2> QED
    BY <2>2, <2>3, <2>5, <2>6 DEF Children
<1> QED
  BY <1>5, <1>6

\* The types and the order of a client's life: new, in the backlog, then with a
\* child or without.
LEMMA TypesNext ==
  ASSUME IInv, [Next]_vars PROVE TypeOK' /\ Children'
<1> USE ClientAssumption, ForkAssumption DEF IInv, Inv, TypeOK, NetTypeOK
<1>1. CASE Accept
  <2> DEFINE h == Head(backlog)
  <2>1. /\ parent' = "fork" /\ cur' = h /\ holders' = [holders EXCEPT ![h] = {Parent}]
        /\ backlog' = Tail(backlog) /\ backlog # <<>>
        /\ UNCHANGED <<client, asked, toServer, answer, listeners, child, buf, failed, runs>>
    BY <1>1 DEF Accept, TakeNext
  <2>2. /\ h \in Client /\ h \in Range(backlog) /\ Range(backlog') = Range(backlog) \ {h}
        /\ backlog' \in Seq(Client) /\ IsInjective(backlog')
    BY <2>1, QueueTail
  <2>3. TypeOK'
    BY <2>1, <2>2
  <2>4. Children'
    BY <2>1, <2>2 DEF Children
  <2> QED
    BY <2>3, <2>4
<1>2. CASE Fork
  <2>1. /\ parent = "fork" /\ parent' = "close" /\ child' = [child EXCEPT ![cur] = "read"]
        /\ listeners' = listeners \cup {cur} /\ cur \in Client
        /\ holders' = [c \in Client |-> IF c \in Held THEN holders[c] \cup {cur} ELSE holders[c]]
        /\ UNCHANGED <<client, asked, toServer, answer, backlog, cur, buf, failed, runs>>
    BY <1>2 DEF Fork, net, Children
  <2>2. TypeOK'
    BY <2>1
  <2>3. Children'
    BY <2>1 DEF Children
  <2> QED
    BY <2>2, <2>3
<1>3. CASE ForkFails \/ ParentClose
  <2>1. /\ cur \in Client /\ parent' = "accept" /\ failed' \in {failed, failed \cup {cur}}
        /\ holders' \in {holders, [holders EXCEPT ![cur] = @ \ {Parent}]}
        /\ UNCHANGED <<client, asked, toServer, answer, backlog, listeners, cur, child, buf, runs>>
    BY <1>3 DEF ForkFails, ParentClose, Closing, net, files, Children
  <2>2. TypeOK'
    <3>1. failed' \subseteq Client
      BY <2>1
    <3>2. [holders EXCEPT ![cur] = @ \ {Parent}] \in [Client -> SUBSET (Client \cup {Parent})]
      BY <2>1
    <3>3. holders' \in [Client -> SUBSET (Client \cup {Parent})]
      BY <2>1, <3>2
    <3> QED
      BY <2>1, <3>1, <3>3
  <2>3. Children'
    BY <2>1 DEF Children
  <2> QED
    BY <2>2, <2>3
<1>4. CASE AcceptFails \/ KillParent
  <2>1. Leave(Parent) /\ UNCHANGED <<cur, buf, failed>> /\ parent' = "gone" /\ child' = child
    BY <1>4 DEF AcceptFails, KillParent, ParentExits
  <2>2. runs' \in Nat
    BY <1>4 DEF AcceptFails, KillParent
  <2> QED
    BY <2>1, <2>2, LeaveTypes
<1>5. CASE Start
  BY SMTT(30), <1>5 DEF Start, net, Children
<1>6. ASSUME NEW c \in Client, ChildEnds(c) PROVE TypeOK' /\ Children'
  <2>1. Leave(c) /\ UNCHANGED <<cur, buf, failed, runs, parent>>
    BY <1>6 DEF ChildEnds
  <2>2. child[c] # "none" /\ child' = [child EXCEPT ![c] = "exited"]
    BY <1>6 DEF ChildEnds
  <2> QED
    BY <2>1, <2>2, LeaveTypes
<1>7. ASSUME NEW c \in Client, Read(c) PROVE TypeOK' /\ Children'
  <2>1. PICK n \in 1..MaxLine :
          /\ Take(c, n)
          /\ buf' = [buf EXCEPT ![c] = ReadInto(@, c, n)]
          /\ child' = [child EXCEPT ![c] = IF Continues(n) THEN "write" ELSE "exited"]
    BY <1>7 DEF Read
  <2>2. ReadInto(buf[c], c, n) \in Bytes /\ toServer'[c] \in Bytes
    BY <2>1, ReadData
  <2>3. /\ child' = [child EXCEPT ![c] = "write"] /\ child[c] = "read"
        /\ UNCHANGED <<client, asked, answer, backlog, holders, listeners, parent, cur, failed, runs>>
        /\ toServer' = [toServer EXCEPT ![c] = SubSeq(@, n + 1, Len(@))]
    <3>1. UNCHANGED <<client, asked, answer, backlog, holders, listeners, parent, cur, failed, runs>>
      BY <1>7, <2>1 DEF Read, Take, files
    <3>2. Continues(n) /\ child[c] = "read"
      BY <1>7 DEF Read, Continues, MaxLine
    <3>3. child' = [child EXCEPT ![c] = "write"] /\ child[c] = "read"
      BY <2>1, <3>2
    <3> QED
      BY <2>1, <3>1, <3>3 DEF Take
  <2>4. TypeOK'
    BY <2>1, <2>2, <2>3 DEF Bytes
  <2>5. Children'
    BY <2>3 DEF Children
  <2> QED
    BY <2>4, <2>5
<1>8. ASSUME NEW c \in Client, Write(c) PROVE TypeOK' /\ Children'
  <2>1. Zeroed \in Bytes
    BY DEF Zeroed, MaxLine, Bytes
  <2>2. /\ child' = [child EXCEPT ![c] = "read"] /\ child[c] = "write"
        /\ buf' = [buf EXCEPT ![c] = Zeroed]
        /\ UNCHANGED <<client, asked, toServer, backlog, holders, listeners, parent, cur, failed, runs>>
        /\ answer' = IF Closed(c) THEN answer ELSE [answer EXCEPT ![c] = @ \o UpToNul(buf[c])]
    BY <1>8 DEF Write, Give, Own, files
  <2>3. answer' \in [Client -> Bytes]
    <3>1. CASE Closed(c)
      BY <2>2, <3>1 DEF Bytes
    <3>2. CASE ~Closed(c)
      <4>1. UpToNul(buf[c]) \in Bytes /\ answer[c] \in Bytes
        BY <2>2, <3>2, WriteData DEF Bytes
      <4>2. answer[c] \o UpToNul(buf[c]) \in Bytes
        BY <4>1, ConcatProperties DEF Bytes
      <4> QED
        BY <2>2, <3>2, <4>2 DEF Bytes
    <3> QED
      BY <3>1, <3>2
  <2>4. TypeOK'
    BY <2>3, <2>1, <2>2 DEF Bytes
  <2>5. Children'
    BY <2>2 DEF Children
  <2> QED
    BY <2>4, <2>5
<1>9. ASSUME NEW c \in Client, ClientReads(c) \/ UserActs(c) PROVE TypeOK' /\ Children'
  <2>1. UNCHANGED <<holders, listeners, parent, cur, child, buf, failed, runs>>
    BY <1>9 DEF ClientReads, UserActs, server, files
  <2>2. CASE Connect(c, listeners # {})
    <3>1. /\ backlog' \in Seq(Client) /\ IsInjective(backlog')
          /\ Range(backlog') = Range(backlog) \cup {c}
      BY <2>2, QueueAppend DEF Connect, Children
    <3>2. TypeOK'
      BY <2>1, <2>2, <3>1 DEF Connect
    <3>3. Children'
      BY <2>1, <2>2, <3>1 DEF Connect, Children
    <3> QED
      BY <3>2, <3>3
  <2>3. CASE Ask(c)
    <3>1. Line(c) \in Seq(Client \X Nat) /\ Append(Line(c), NUL) \in Bytes
      BY AskData
    <3>2. TypeOK'
      BY <2>1, <2>3, <3>1 DEF Ask, Bytes
    <3>3. Children'
      BY <2>1, <2>3 DEF Ask, Children
    <3> QED
      BY <3>2, <3>3
  <2>4. CASE HangUp(c) \/ ReadAnswer(c, Gone(c))
    <3>1. TypeOK'
      BY <2>1, <2>4 DEF HangUp, ReadAnswer
    <3>2. Children'
      BY <2>1, <2>4 DEF HangUp, ReadAnswer, Children
    <3> QED
      BY <3>1, <3>2
  <2> QED
    BY <1>9, <2>2, <2>3, <2>4 DEF ClientReads, UserActs
<1>10. CASE UNCHANGED vars
  BY <1>10 DEF vars, net, files, Children
<1> QED
  BY <1>1, <1>2, <1>3, <1>4, <1>5, <1>6, <1>7, <1>8, <1>9, <1>10 DEF Next, ParentStep, ChildStep

\* A step that neither sends, reads nor writes for a client leaves its stream.
LEMMA StreamKept ==
  ASSUME NEW c \in Client, AnswerOK(c), BufferOK(c),
         asked'[c] = asked[c], toServer'[c] = toServer[c], answer'[c] = answer[c], buf'[c] = buf[c],
         \/ child'[c] = child[c]
         \/ child[c] = "none" /\ child'[c] = "read"
         \/ child'[c] = "exited",
         \/ client'[c] = client[c]
         \/ client[c] = "new" /\ client'[c] = "typing"
         \/ client'[c] \in {"closed", "left"}
  PROVE  AnswerOK(c)' /\ BufferOK(c)'
<1>1. AnswerOK(c)'
  BY DEF AnswerOK, Taken
<1>2. Closed(c) => Closed(c)'
  BY DEF Closed
<1>3. BufferOK(c)'
  BY <1>2 DEF BufferOK, Taken, LineTaken
<1> QED
  BY <1>1, <1>3

\* The line is sent.
LEMMA AskStream ==
  ASSUME IInv, NEW c \in Client, Ask(c), UNCHANGED <<child, buf>> PROVE AnswerOK(c)' /\ BufferOK(c)'
<1> USE DEF IInv, Inv, TypeOK, NetTypeOK
<1>1. asked[c] = <<>> /\ answer[c] = <<>> /\ child[c] # "write"
  BY DEF Ask, Streams, AnswerOK
<1>2. /\ client'[c] = "waiting" /\ asked'[c] = Line(c) /\ toServer'[c] = Append(Line(c), NUL)
      /\ answer' = answer
  BY DEF Ask
<1>3. /\ Line(c) # <<>> /\ Len(toServer'[c]) = MaxLine
      /\ \A k \in 1..MaxLine : toServer'[c][k] = Unit(c, k, LineLen)
  BY <1>2, AskData
<1>4. LineLen \in Nat \ {0} /\ MaxLine = LineLen + 1
  BY ClientAssumption DEF MaxLine
<1>5. Taken(c)' = 0 /\ LineTaken(c)' = 0
  BY <1>3, <1>4 DEF Taken, LineTaken, MaxLine
<1>6. Len(answer'[c]) = 0
  BY <1>1, <1>2
<1>7. AnswerOK(c)'
  <2>1. \A k \in 1..Len(toServer'[c]) : toServer'[c][k] = Unit(c, Taken(c)' + k, LineLen)
    BY <1>3, <1>4, <1>5
  <2>2. Len(answer'[c]) <= LineLen /\ \A k \in 1..Len(answer'[c]) : answer'[c][k] = <<c, k>>
    BY <1>4, <1>6
  <2>3. Len(toServer'[c]) <= MaxLine' /\ asked'[c] = Line(c)' /\ asked'[c] # <<>> /\ client'[c] = "waiting"
    <3> HIDE DEF IInv, Inv, TypeOK, NetTypeOK
    <3>1. MaxLine' = MaxLine /\ Line(c)' = Line(c)
      BY DEF MaxLine, Line
    <3>2. Len(toServer'[c]) <= MaxLine
      BY <1>3, <1>4
    <3> QED
      BY <1>2, <1>3, <3>1, <3>2
  <2> HIDE DEF IInv
  <2> QED
    BY <2>1, <2>2, <2>3 DEF AnswerOK
<1>8. BufferOK(c)'
  BY <1>1, <1>2, <1>5, <1>6 DEF BufferOK, Streams, Closed, MaxLine, Zeroed
<1> QED
  BY <1>7, <1>8

\* What is read is exactly what the answer still lacks of what has been read.
LEMMA ReadStream ==
  ASSUME IInv, NEW c \in Client, Read(c) PROVE AnswerOK(c)' /\ BufferOK(c)'
<1> USE DEF IInv, Inv, TypeOK, NetTypeOK
<1>1. PICK n \in 1..MaxLine :
        /\ Take(c, n)
        /\ buf' = [buf EXCEPT ![c] = ReadInto(@, c, n)]
        /\ child' = [child EXCEPT ![c] = IF Continues(n) THEN "write" ELSE "exited"]
  BY DEF Read
<1>2. LineLen \in Nat \ {0} /\ MaxLine = LineLen + 1
  BY ClientAssumption DEF MaxLine
<1>3. /\ UNCHANGED <<client, asked, answer>> /\ child'[c] = "write" /\ child[c] = "read"
      /\ buf'[c] = ReadInto(buf[c], c, n)
  <2>1. Continues(n)
    BY <1>2 DEF Continues
  <2> QED
    BY <1>1, <2>1 DEF Take, Read
<1> DEFINE t == Len(toServer[c])
           a == Len(answer[c])
<1>4. /\ n <= t /\ t \in Nat /\ Len(toServer'[c]) = t - n
      /\ \A k \in 1 .. t - n : toServer'[c][k] = toServer[c][n + k]
      /\ Len(buf'[c]) = MaxLine
      /\ \A k \in 1..MaxLine : buf'[c][k] = IF k <= n THEN toServer[c][k] ELSE buf[c][k]
  BY SMTT(30), <1>1, <1>3, ReadData
<1>5. AnswerOK(c) /\ BufferOK(c)
  BY DEF Streams
<1>6. /\ asked[c] # <<>> /\ t <= MaxLine /\ n \in Nat /\ 1 <= n
      /\ \A k \in 1..t : toServer[c][k] = Unit(c, Taken(c) + k, LineLen)
      /\ Taken(c) = MaxLine - t /\ Taken(c)' = Taken(c) + n /\ Taken(c) \in Nat
  <2>1. asked[c] # <<>>
    BY <1>2, <1>4, <1>5 DEF AnswerOK
  <2> QED
    BY <1>2, <1>4, <1>5, <2>1 DEF AnswerOK, Taken, MaxLine
<1>7. AnswerOK(c)'
  <2>1. Len(toServer'[c]) <= MaxLine
    BY <1>2, <1>4, <1>6
  <2>2. ASSUME NEW k \in 1..Len(toServer'[c])
        PROVE  toServer'[c][k] = Unit(c, Taken(c)' + k, LineLen)
    <3>1. n + k \in 1..t /\ k \in 1 .. t - n /\ Taken(c) + (n + k) = Taken(c)' + k
      BY <1>4, <1>6
    <3> QED
      BY <1>4, <1>6, <3>1
  <2> QED
    BY <1>3, <1>5, <1>6, <2>1, <2>2 DEF AnswerOK, MaxLine
<1>8. ASSUME ~Closed(c) PROVE a <= LineTaken(c)' /\
        \A k \in 1..MaxLine : buf'[c][k] = Unit(c, a + k, LineTaken(c)')
  <2>1. a = LineTaken(c) /\ buf[c] = Zeroed
    BY <1>3, <1>5, <1>6, <1>8 DEF BufferOK
  <2>2. Taken(c) <= LineLen /\ a = Taken(c)
    BY <1>2, <1>4, <1>6, <2>1 DEF LineTaken
  <2>3. LineTaken(c)' = IF a + n <= LineLen THEN a + n ELSE LineLen
    BY <1>6, <2>2 DEF LineTaken
  <2>4. /\ a \in Nat /\ n \in Nat /\ n >= 1 /\ LineLen \in Nat /\ LineTaken(c)' \in Nat
        /\ a <= LineLen /\ a + n <= LineLen + 1 /\ a + n = LineLen + 1 - (t - n)
    <3>1. a \in Nat /\ n \in Nat /\ n >= 1 /\ LineLen \in Nat /\ a <= LineLen /\ a = LineLen + 1 - t
      BY <1>2, <1>6, <2>2
    <3> QED
      BY <1>4, <2>3, <3>1
  <2>5. ASSUME NEW k \in 1..MaxLine PROVE buf'[c][k] = Unit(c, a + k, LineTaken(c)')
    <3>1. k \in Nat /\ 1 <= k
      BY <1>2
    <3>2. CASE k <= n
      <4>1. k \in 1..t /\ buf'[c][k] = toServer[c][k]
        BY <1>4, <3>1, <3>2, <2>4
      <4>2. buf'[c][k] = Unit(c, a + k, LineLen)
        BY <1>6, <2>2, <4>1
      <4>3. a + k <= LineTaken(c)' <=> a + k <= LineLen
        BY <2>3, <2>4, <3>1, <3>2, SMTT(30)
      <4> QED
        BY <4>2, <4>3 DEF Unit
    <3>3. CASE ~(k <= n)
      <4>1. buf'[c][k] = NUL
        BY <1>4, <2>1, <3>3 DEF Zeroed
      <4>2. ~(a + k <= LineTaken(c)')
        BY <2>3, <2>4, <3>1, <3>3
      <4> QED
        BY <4>1, <4>2 DEF Unit
    <3> QED
      BY <3>2, <3>3
  <2>6. a <= LineTaken(c)'
    BY <2>3, <2>4
  <2> QED
    BY <2>5, <2>6
<1>9. BufferOK(c)'
  <2>1. Closed(c)' <=> Closed(c)
    BY <1>3 DEF Closed
  <2> QED
    BY <1>3, <1>4, <1>8, <2>1 DEF BufferOK, MaxLine
<1> QED
  BY <1>7, <1>9

\* What is written continues the line where the answer ends.
LEMMA WriteStream ==
  ASSUME IInv, NEW c \in Client, Write(c) PROVE AnswerOK(c)' /\ BufferOK(c)'
<1> USE DEF IInv, Inv, TypeOK, NetTypeOK
<1>1. /\ child[c] = "write" /\ child'[c] = "read" /\ buf'[c] = Zeroed
      /\ UNCHANGED <<client, asked, toServer>>
      /\ answer' = IF Closed(c) THEN answer ELSE [answer EXCEPT ![c] = @ \o UpToNul(buf[c])]
  BY DEF Write, Give, Own
<1>2. LineLen \in Nat \ {0} /\ MaxLine = LineLen + 1
  BY ClientAssumption DEF MaxLine
<1>3. AnswerOK(c) /\ BufferOK(c)
  BY DEF Streams
<1>4. asked[c] # <<>> /\ Len(Zeroed) = MaxLine
  BY <1>1, <1>2, <1>3 DEF AnswerOK, Zeroed
<1>5. Taken(c)' = Taken(c) /\ LineTaken(c)' = LineTaken(c) /\ (Closed(c)' <=> Closed(c))
  BY <1>1 DEF Taken, LineTaken, Closed
<1>6. CASE Closed(c)
  <2>1. answer' = answer
    BY <1>1, <1>6
  <2>2. AnswerOK(c)'
    BY <1>1, <1>3, <1>4, <1>5, <2>1 DEF AnswerOK
  <2>3. BufferOK(c)'
    BY <1>1, <1>4, <1>5, <1>6, <2>1 DEF BufferOK
  <2> QED
    BY <2>2, <2>3
<1>7. CASE ~Closed(c)
  <2> DEFINE a == Len(answer[c])
             m == LineTaken(c) - a
             data == UpToNul(buf[c])
  <2>1. /\ LineTaken(c) \in 0..LineLen /\ a \in 0..LineTaken(c)
        /\ data \in Bytes /\ Len(data) = m /\ \A k \in 1..m : data[k] = <<c, a + k>>
    BY <1>1, <1>7, WriteData
  <2>2. answer[c] \in Bytes /\ answer'[c] = answer[c] \o data
    BY <1>1, <1>7 DEF Bytes
  <2>3. a + m = LineTaken(c) /\ a \in Nat /\ m \in Nat /\ LineTaken(c) <= LineLen
    BY <1>2, <2>1
  <2>4. /\ Len(answer[c] \o data) = Len(answer[c]) + Len(data)
        /\ \A k \in 1 .. Len(answer[c]) + Len(data) :
             (answer[c] \o data)[k] =
               IF k <= Len(answer[c]) THEN answer[c][k] ELSE data[k - Len(answer[c])]
    BY <2>1, <2>2, BytesConcat
  <2>5. /\ Len(answer'[c]) = a + m
        /\ \A k \in 1 .. a + m : answer'[c][k] = IF k <= a THEN answer[c][k] ELSE data[k - a]
    BY <2>1, <2>2, <2>4
  <2>6. ASSUME NEW k \in 1..Len(answer'[c]) PROVE answer'[c][k] = <<c, k>>
    <3>1. k \in 1 .. a + m
      BY <2>5
    <3>2. CASE k <= a
      <4>1. k \in 1..a
        BY <2>3, <3>2, <3>1
      <4>2. answer[c][k] = <<c, k>>
        BY <1>3, <4>1 DEF AnswerOK
      <4> QED
        BY <2>5, <3>2, <3>1, <4>2
    <3>3. CASE ~(k <= a)
      <4>1. k - a \in 1..m /\ a + (k - a) = k
        BY <2>3, <3>3, <3>1
      <4>2. data[k - a] = <<c, k>>
        BY <2>1, <4>1
      <4> QED
        BY <2>5, <3>3, <3>1, <4>2
    <3> QED
      BY <3>2, <3>3
  <2>7. Len(answer'[c]) <= LineLen
    BY <2>5, <2>3
  <2>8. AnswerOK(c)'
    BY <1>1, <1>3, <1>4, <1>5, <2>6, <2>7 DEF AnswerOK
  <2>9. BufferOK(c)'
    BY <1>1, <1>4, <1>5, <2>5, <2>3 DEF BufferOK
  <2> QED
    BY <2>8, <2>9
<1> QED
  BY <1>6, <1>7

\* Every step leaves the streams of all clients but one alone.
LEMMA StreamsNext ==
  ASSUME IInv, [Next]_vars PROVE Streams'
<1> SUFFICES ASSUME NEW c \in Client PROVE AnswerOK(c)' /\ BufferOK(c)'
  BY DEF Streams
<1> USE DEF IInv, Inv, TypeOK, NetTypeOK
<1>1. AnswerOK(c) /\ BufferOK(c)
  BY DEF Streams
<1>2. CASE Accept \/ AcceptFails \/ ForkFails \/ ParentClose \/ KillParent \/ Start
  <2>1. UNCHANGED <<client, asked, toServer, answer, child, buf>>
    BY <1>2 DEF Accept, AcceptFails, ForkFails, ParentClose, KillParent, Start, ParentExits, Leave,
       TakeNext, net
  <2> QED
    BY <1>1, <2>1, StreamKept
<1>3. CASE Fork
  <2>1. /\ UNCHANGED <<client, asked, toServer, answer, buf>> /\ child[cur] = "none"
        /\ child' = [child EXCEPT ![cur] = "read"]
    BY <1>3 DEF Fork, net, Children
  <2>2. child'[c] = child[c] \/ (child[c] = "none" /\ child'[c] = "read")
    BY <2>1
  <2> QED
    BY <1>1, <2>1, <2>2, StreamKept
<1>4. ASSUME NEW d \in Client, Read(d) PROVE AnswerOK(c)' /\ BufferOK(c)'
  <2>1. CASE d = c
    BY <1>4, <2>1, ReadStream
  <2>2. CASE d # c
    <3>1. /\ UNCHANGED <<client, asked, answer>> /\ toServer'[c] = toServer[c]
          /\ buf'[c] = buf[c] /\ child'[c] = child[c]
      BY <1>4, <2>2 DEF Read, Take
    <3> QED
      BY <1>1, <3>1, StreamKept
  <2> QED
    BY <2>1, <2>2
<1>5. ASSUME NEW d \in Client, Write(d) PROVE AnswerOK(c)' /\ BufferOK(c)'
  <2>1. CASE d = c
    BY <1>5, <2>1, WriteStream
  <2>2. CASE d # c
    <3>1. /\ UNCHANGED <<client, asked, toServer>> /\ answer'[c] = answer[c]
          /\ buf'[c] = buf[c] /\ child'[c] = child[c]
      BY <1>5, <2>2 DEF Write, Give, Own
    <3> QED
      BY <1>1, <3>1, StreamKept
  <2> QED
    BY <2>1, <2>2
<1>6. ASSUME NEW d \in Client, ChildEnds(d) PROVE AnswerOK(c)' /\ BufferOK(c)'
  <2>1. /\ UNCHANGED <<client, asked, toServer, answer, buf>>
        /\ child' = [child EXCEPT ![d] = "exited"]
    BY <1>6 DEF ChildEnds, Leave
  <2>2. child'[c] = child[c] \/ child'[c] = "exited"
    BY <2>1
  <2> QED
    BY <1>1, <2>1, <2>2, StreamKept
<1>7. ASSUME NEW d \in Client, Ask(d), UNCHANGED server PROVE AnswerOK(c)' /\ BufferOK(c)'
  <2>1. CASE d = c
    BY <1>7, <2>1, AskStream DEF server
  <2>2. CASE d # c
    <3>1. /\ UNCHANGED <<answer, child, buf>> /\ client'[c] = client[c]
          /\ asked'[c] = asked[c] /\ toServer'[c] = toServer[c]
      BY <1>7, <2>2 DEF Ask, server
    <3> QED
      BY <1>1, <3>1, StreamKept
  <2> QED
    BY <2>1, <2>2
<1>8. ASSUME NEW d \in Client, UNCHANGED server,
             Connect(d, listeners # {}) \/ HangUp(d) \/ ReadAnswer(d, Gone(d))
      PROVE  AnswerOK(c)' /\ BufferOK(c)'
  <2>1. UNCHANGED <<asked, toServer, answer, child, buf>>
    BY <1>8 DEF Connect, HangUp, ReadAnswer, server
  <2>2. \/ client'[c] = client[c]
        \/ client[c] = "new" /\ client'[c] = "typing"
        \/ client'[c] \in {"closed", "left"}
    BY <1>8 DEF Connect, HangUp, ReadAnswer
  <2> QED
    BY <1>1, <2>1, <2>2, StreamKept
<1>9. CASE UNCHANGED vars
  <2>1. UNCHANGED <<client, asked, toServer, answer, child, buf>>
    BY <1>9 DEF vars, net
  <2> QED
    BY <1>1, <2>1, StreamKept
<1> QED
  BY <1>2, <1>3, <1>4, <1>5, <1>6, <1>7, <1>8, <1>9
  DEF Next, ParentStep, ChildStep, ClientReads, UserActs

\* Who holds what, who has a child and where every unit is hold across every step.
LEMMA NextIInv == IInv /\ [Next]_vars => IInv'
BY HoldsNext, TypesNext, StreamsNext DEF IInv, Inv

\* A connection is held open by its own child alone, apart from what failed
\* forks leave behind, and only those use up the parent's descriptors.
THEOREM Safety == Spec => []Inv
<1>1. IInv => Inv
  BY DEF IInv
<1> QED
  BY <1>1, InitIInv, NextIInv, PTL DEF Spec

\* Every client is sent beginnings of its own line, growing, however TCP cuts
\* it, whoever is killed and whatever connections come before and after.
THEOREM Refinement == Spec => ImplementsEcho
<1>1. Init => Echo!Init
  BY DEF Init, NetInit, Echo!Init
<1>2. ASSUME IInv, [Next]_vars
      PROVE  [\E c \in Client : Echo!Ask(c) \/ Echo!Answer(c)]_<<asked, answer>>
  <2>1. ASSUME NEW c \in Client, Ask(c) PROVE Echo!Ask(c)
    <3>1. asked[c] = <<>>
      BY <1>2, <2>1 DEF Ask, IInv, Streams, AnswerOK
    <3>2. Echo!Line(c) = Line(c)
      BY DEF Line, Echo!Line
    <3> QED
      BY <2>1, <3>1, <3>2 DEF Ask, Echo!Ask
  <2>2. ASSUME NEW c \in Client, Write(c) PROVE Echo!Answer(c) \/ UNCHANGED <<asked, answer>>
    <3> DEFINE n == Len(answer'[c])
    <3>1. /\ AnswerOK(c) /\ AnswerOK(c)' /\ asked' = asked /\ child[c] = "write"
          /\ answer' = IF Closed(c) THEN answer ELSE [answer EXCEPT ![c] = @ \o UpToNul(buf[c])]
      BY <1>2, <2>2, WriteStream DEF IInv, Streams, Write, Give, Own
    <3>2. CASE Closed(c)
      BY <3>1, <3>2
    <3>3. CASE ~Closed(c)
      <4>1. /\ answer[c] \in Bytes /\ UpToNul(buf[c]) \in Bytes
            /\ answer'[c] = answer[c] \o UpToNul(buf[c])
            /\ answer' = [answer EXCEPT ![c] = answer'[c]]
        BY <1>2, <3>1, <3>3, WriteData DEF IInv, Inv, TypeOK, NetTypeOK, Bytes
      <4>2. answer'[c] \in Bytes /\ n = Len(answer[c]) + Len(UpToNul(buf[c])) /\ n \in Nat
        BY <4>1, BytesConcat
      <4>3. CASE UpToNul(buf[c]) = <<>>
        <5>1. answer'[c] = answer[c]
          BY <4>1, <4>3, ConcatEmptySeq DEF Bytes
        <5>2. answer' = answer
          BY <1>2, <4>1, <5>1 DEF IInv, Inv, TypeOK, NetTypeOK
        <5> QED
          BY <3>1, <5>2
      <4>4. CASE UpToNul(buf[c]) # <<>>
        <5>1. /\ asked[c] = Line(c) /\ Len(asked[c]) = LineLen /\ Line(c) \in Seq(Client \X Nat)
              /\ \A k \in 1..LineLen : asked[c][k] = <<c, k>>
          BY <3>1, AskData DEF AnswerOK
        <5>2. n \in Len(answer[c]) + 1 .. LineLen /\ n \in Nat /\ LineLen \in Nat
          <6>1. /\ Len(answer[c]) \in Nat
                /\ Len(UpToNul(buf[c])) \in Nat /\ Len(UpToNul(buf[c])) >= 1
            BY <4>1, <4>4 DEF Bytes
          <6>2. n <= LineLen /\ LineLen \in Nat
            BY <3>1, ClientAssumption DEF AnswerOK
          <6>3. n = Len(answer[c]) + Len(UpToNul(buf[c]))
            BY <4>2
          <6>4. n \in Nat
            BY <4>2
          <6>5. n >= Len(answer[c]) + 1
            BY <6>1, <6>3
          <6> QED
            BY <6>1, <6>2, <6>4, <6>5
        <5>3. /\ SubSeq(asked[c], 1, n) \in Seq(Client \X Nat) /\ Len(SubSeq(asked[c], 1, n)) = n
              /\ \A k \in 1..n : SubSeq(asked[c], 1, n)[k] = <<c, k>>
          BY <5>1, <5>2
        <5>4. SubSeq(asked[c], 1, n) \in Bytes
          BY <5>3, SeqMonotonic DEF Bytes
        <5>5. \A k \in 1..n : answer'[c][k] = <<c, k>>
          BY <3>1 DEF AnswerOK
        <5>6. answer'[c] = SubSeq(asked[c], 1, n)
          <6>1. Len(answer'[c]) = Len(SubSeq(asked[c], 1, n))
            BY <5>3
          <6>2. \A k \in 1..Len(answer'[c]) : answer'[c][k] = SubSeq(asked[c], 1, n)[k]
            BY <5>3, <5>5
          <6> QED
            BY <4>2, <5>4, <6>1, <6>2, BytesEqual
        <5>7. n \in Len(answer[c]) + 1 .. Len(asked[c])
          BY <5>1, <5>2
        <5> QED
          BY <3>1, <4>1, <5>6, <5>7 DEF Echo!Answer
      <4> QED
        BY <4>3, <4>4
    <3> QED
      BY <3>2, <3>3
  <2>3. (\E c \in Client : Ask(c) \/ Write(c)) \/ UNCHANGED <<asked, answer>>
    BY <1>2 DEF Next, ParentStep, ChildStep, ClientReads, UserActs, Accept, AcceptFails, Fork, ForkFails,
       ParentClose, KillParent, Start, ParentExits, Leave, TakeNext, net, Read, Take, ChildEnds,
       Connect, HangUp, ReadAnswer, vars
  <2> QED
    BY <2>1, <2>2, <2>3
<1> QED
  BY <1>1, <1>2, InitIInv, NextIInv, PTL DEF Spec, ImplementsEcho, Echo!Spec

(* What the servers that are one process have in common. *)

\* Nothing is sent but the line and the zeros, and what is still to be read is
\* the rest of them; only who has asked is answered.
LineOK(c) ==
  /\ client[c] \in {"new", "typing"} => asked[c] = <<>>
  /\ asked[c] = <<>> => toServer[c] = <<>> /\ answer[c] = <<>>
  /\ asked[c] # <<>> => asked[c] = Line(c)
  /\ Len(toServer[c]) <= MaxLine
  /\ \A k \in 1..Len(toServer[c]) : toServer[c][k] = Unit(c, Taken(c) + k, LineLen)

NetOK ==
  /\ NetTypeOK
  /\ \A c \in Client : LineOK(c) /\ (client[c] = "new" => c \notin Range(backlog))

\* A step of a client.
ClientActs(c) ==
  \/ \E b \in BOOLEAN : Connect(c, b) \/ ReadAnswer(c, b)
  \/ Ask(c) \/ HangUp(c)

\* The types that the answers and the connections have.
LEMMA NetBytes ==
  ASSUME NetOK, NEW c \in Client
  PROVE  /\ toServer[c] \in Bytes /\ Len(toServer[c]) \in 0..MaxLine /\ answer[c] \in Bytes
         /\ Len(answer[c]) \in Nat /\ Taken(c) \in 0..MaxLine
         /\ LineLen \in Nat \ {0} /\ MaxLine = LineLen + 1
<1>1. LineLen \in Nat \ {0} /\ MaxLine = LineLen + 1
  BY ClientAssumption DEF MaxLine
<1>2. toServer[c] \in Bytes /\ answer[c] \in Bytes
  BY DEF NetOK, NetTypeOK, Bytes
<1>3. Len(toServer[c]) \in Nat /\ Len(answer[c]) \in Nat
  BY <1>2 DEF Bytes
<1>4. Len(toServer[c]) <= MaxLine
  BY DEF NetOK, LineOK
<1>6. MaxLine \in Nat
  BY <1>1
<1>5. Len(toServer[c]) \in 0..MaxLine /\ MaxLine - Len(toServer[c]) \in 0..MaxLine
  BY <1>3, <1>4, <1>6
<1>7. Taken(c) \in 0..MaxLine
  BY <1>5 DEF Taken
<1> QED
  BY <1>1, <1>2, <1>3, <1>5, <1>7

\* A line that nothing happens to.
LEMMA LineKept ==
  ASSUME NEW c \in Client, LineOK(c), client'[c] = client[c], asked'[c] = asked[c],
         toServer'[c] = toServer[c], asked[c] # <<>> \/ answer'[c] = answer[c]
  PROVE  LineOK(c)'
BY DEF LineOK, Taken, Unit, Line, MaxLine

\* Nobody is served before the first client asks.
LEMMA NetInitOK == NetInit => NetOK
<1> SUFFICES ASSUME NetInit PROVE NetOK
  OBVIOUS
<1>1. Range(backlog) = {} /\ IsInjective(backlog)
  BY DEF NetInit, Range, IsInjective
<1>2. NetTypeOK
  BY <1>1 DEF NetInit, NetTypeOK
<1>3. ASSUME NEW c \in Client PROVE LineOK(c)
  BY ClientAssumption DEF NetInit, LineOK, MaxLine
<1> QED
  BY <1>1, <1>2, <1>3 DEF NetOK

\* What the clients do leaves the connections in order.
LEMMA ClientNet ==
  ASSUME NetOK, NEW c \in Client, ClientActs(c) PROVE NetOK'
<1> USE DEF NetOK, NetTypeOK
<1>1. ASSUME NEW b \in BOOLEAN, Connect(c, b) PROVE NetOK'
  <2>1. /\ backlog' \in Seq(Client) /\ IsInjective(backlog')
        /\ Range(backlog') = Range(backlog) \cup {c}
    BY <1>1, QueueAppend DEF Connect
  <2>2. ASSUME NEW d \in Client PROVE LineOK(d)'
    <3>1. CASE d = c
      BY <1>1, <3>1 DEF Connect, LineOK, Taken, Unit
    <3>2. CASE d # c
      BY <1>1, <3>2, LineKept DEF Connect
    <3> QED
      BY <3>1, <3>2
  <2>3. NetTypeOK'
    BY <1>1, <2>1 DEF Connect
  <2> QED
    BY <1>1, <2>1, <2>2, <2>3 DEF Connect
<1>2. CASE Ask(c)
  <2>1. /\ asked[c] = <<>> /\ answer[c] = <<>>
    BY <1>2 DEF Ask, LineOK
  <2>2. NetTypeOK'
    BY <1>2, AskData DEF Ask, Bytes
  <2>3. LineOK(c)'
    <3>1. /\ client'[c] = "waiting" /\ asked'[c] = Line(c) /\ toServer'[c] = Append(Line(c), NUL)
          /\ Len(toServer'[c]) = MaxLine
      BY <1>2, AskData DEF Ask
    <3>2. Taken(c)' = 0
      BY <3>1, ClientAssumption DEF Taken, MaxLine
    <3>3. \A k \in 1..MaxLine : toServer'[c][k] = Unit(c, k, LineLen)
      BY <3>1, AskData
    <3>4. MaxLine \in Nat
      BY ClientAssumption DEF MaxLine
    <3>5. Line(c) # <<>> /\ Line(c)' = Line(c)
      BY AskData DEF Line
    <3> QED
      BY <3>1, <3>2, <3>3, <3>4, <3>5 DEF LineOK, MaxLine, Unit
  <2>4. ASSUME NEW d \in Client \ {c} PROVE LineOK(d)'
    BY <1>2, LineKept DEF Ask
  <2>5. \A d \in Client : client'[d] = "new" => client[d] = "new"
    BY <1>2 DEF Ask
  <2> QED
    BY <1>2, <2>2, <2>3, <2>4, <2>5 DEF Ask
<1>3. ASSUME HangUp(c) \/ \E b \in BOOLEAN : ReadAnswer(c, b) PROVE NetOK'
  <2>1. /\ client' \in {[client EXCEPT ![c] = "left"], [client EXCEPT ![c] = "closed"]}
        /\ UNCHANGED <<asked, toServer, answer, backlog>>
    BY <1>3 DEF HangUp, ReadAnswer
  <2>2. NetTypeOK'
    BY <2>1
  <2>3. ASSUME NEW d \in Client PROVE LineOK(d)'
    BY <2>1 DEF LineOK, Taken, Unit, MaxLine, Line
  <2> QED
    BY <2>1, <2>2, <2>3
<1> QED
  BY <1>1, <1>2, <1>3 DEF ClientActs

\* A read: what it leaves in the connection and in the buffer b.
LEMMA ReadUnits ==
  ASSUME NetOK, NEW c \in Client, NEW n \in Nat, n \in 1..Len(toServer[c]),
         NEW b \in Bytes, Len(b) = MaxLine
  PROVE  LET rest == SubSeq(toServer[c], n + 1, Len(toServer[c]))
         IN  /\ n \in 1..MaxLine /\ asked[c] # <<>> /\ n <= Len(toServer[c])
             /\ rest \in Bytes /\ Len(rest) = Len(toServer[c]) - n
             /\ \A k \in 1..Len(rest) : rest[k] = Unit(c, (MaxLine - Len(rest)) + k, LineLen)
             /\ ReadInto(b, c, n) \in Bytes /\ Len(ReadInto(b, c, n)) = MaxLine
             /\ \A k \in 1..MaxLine :
                  ReadInto(b, c, n)[k] = IF k <= n THEN Unit(c, Taken(c) + k, LineLen) ELSE b[k]
<1> DEFINE s == toServer[c]
           rest == SubSeq(s, n + 1, Len(s))
           head == SubSeq(s, 1, n)
           tail == SubSeq(b, n + 1, MaxLine)
<1>1. /\ s \in Bytes /\ Len(s) \in 0..MaxLine /\ MaxLine \in Nat /\ n \in 1..MaxLine /\ n <= Len(s)
  BY NetBytes
<1>2. asked[c] # <<>>
  BY <1>1 DEF NetOK, LineOK
<1>3. \A k \in 1..Len(s) : s[k] = Unit(c, Taken(c) + k, LineLen)
  BY DEF NetOK, LineOK
<1>4. rest \in Bytes /\ Len(rest) = Len(s) - n /\ \A k \in 1 .. Len(s) - n : rest[k] = s[n + k]
  BY <1>1 DEF Bytes
<1>5. ASSUME NEW k \in 1..Len(rest) PROVE rest[k] = Unit(c, (MaxLine - Len(rest)) + k, LineLen)
  <2>1. n + k \in 1..Len(s) /\ rest[k] = s[n + k] /\ Len(rest) = Len(s) - n
    BY <1>1, <1>4
  <2>2. k \in Int /\ n \in Int /\ Len(s) \in Int /\ MaxLine \in Int
    BY <1>1, <1>4
  <2>5. (MaxLine - Len(s)) + (n + k) = (MaxLine - (Len(s) - n)) + k
    BY <2>2
  <2>3. Taken(c) + (n + k) = (MaxLine - Len(rest)) + k
    BY <1>4, <2>5 DEF Taken
  <2>4. s[n + k] = Unit(c, Taken(c) + (n + k), LineLen)
    BY <1>3, <2>1
  <2> QED
    BY <2>1, <2>3, <2>4
<1>6. head \in Bytes /\ Len(head) = n /\ \A k \in 1..n : head[k] = s[k]
  BY <1>1 DEF Bytes
<1>7. tail \in Bytes /\ Len(tail) = MaxLine - n /\ \A k \in 1 .. MaxLine - n : tail[k] = b[n + k]
  BY <1>1 DEF Bytes
<1>8. /\ head \o tail \in Bytes /\ Len(head \o tail) = MaxLine
      /\ \A k \in 1..MaxLine : (head \o tail)[k] = IF k <= n THEN head[k] ELSE tail[k - n]
  <2>1. /\ head \o tail \in Bytes /\ Len(head \o tail) = Len(head) + Len(tail)
        /\ \A k \in 1 .. Len(head) + Len(tail) :
             (head \o tail)[k] = IF k <= Len(head) THEN head[k] ELSE tail[k - Len(head)]
    BY <1>6, <1>7, BytesConcat
  <2>2. Len(head) = n /\ Len(head) + Len(tail) = MaxLine
    BY <1>1, <1>6, <1>7
  <2> QED
    BY <2>1, <2>2
<1>9. ASSUME NEW k \in 1..MaxLine
      PROVE (head \o tail)[k] = IF k <= n THEN Unit(c, Taken(c) + k, LineLen) ELSE b[k]
  <2>1. CASE k <= n
    <3>1. k \in 1..n /\ k \in 1..Len(s)
      BY <1>1, <2>1
    <3> QED
      BY <1>3, <1>6, <1>8, <2>1, <3>1
  <2>2. CASE ~(k <= n)
    <3>1. k - n \in 1 .. MaxLine - n /\ n + (k - n) = k
      BY <1>1, <2>2
    <3> QED
      BY <1>7, <1>8, <2>2, <3>1
  <2> QED
    BY <2>1, <2>2
<1> QED
  BY <1>1, <1>2, <1>4, <1>5, <1>8, <1>9 DEF ReadInto

\* A read takes from the front of a line.
LEMMA LineRead ==
  ASSUME NetOK, NEW c \in Client, NEW n \in 1..Len(toServer[c]),
         client'[c] = client[c], asked'[c] = asked[c],
         toServer'[c] = SubSeq(toServer[c], n + 1, Len(toServer[c]))
  PROVE  LineOK(c)' /\ toServer'[c] \in Bytes
<1>1. Zeroed \in Bytes /\ Len(Zeroed) = MaxLine /\ n \in Nat
  BY ClientAssumption, NetBytes DEF Zeroed, MaxLine, Bytes
<1> DEFINE rest == SubSeq(toServer[c], n + 1, Len(toServer[c]))
<1>5. /\ asked[c] # <<>> /\ rest \in Bytes /\ Len(rest) = Len(toServer[c]) - n
      /\ \A k \in 1..Len(rest) : rest[k] = Unit(c, (MaxLine - Len(rest)) + k, LineLen)
  BY <1>1, ReadUnits
<1>2. /\ asked[c] # <<>>
      /\ toServer'[c] \in Bytes /\ Len(toServer'[c]) = Len(toServer[c]) - n
      /\ \A k \in 1..Len(toServer'[c]) :
           toServer'[c][k] = Unit(c, (MaxLine - Len(toServer'[c])) + k, LineLen)
  BY <1>5
<1>3. Taken(c)' = MaxLine - Len(toServer'[c])
  BY DEF Taken, MaxLine
<1>4. Len(toServer'[c]) <= MaxLine
  BY <1>2, NetBytes
<1> QED
  BY <1>2, <1>3, <1>4 DEF NetOK, LineOK, Unit, Line, MaxLine

\* Where the first zero of a buffer is.
FirstZero(b) ==
  LET zeros == {k \in 1..Len(b) : b[k] = NUL} IN IF zeros = {} THEN 0 ELSE Min(zeros)

\* strlen, for a buffer whose first zero is behind m units.
LEMMA TextOf ==
  ASSUME NEW b \in Bytes, NEW m \in Nat, m + 1 \in 1..Len(b), b[m + 1] = NUL, \A k \in 1..m : b[k] # NUL
  PROVE  /\ FirstZero(b) = m + 1
         /\ UpToNul(b) \in Bytes /\ Len(UpToNul(b)) = m
         /\ \A k \in 1..m : UpToNul(b)[k] = b[k]
<1> DEFINE I == {k \in 1..Len(b) : b[k] = NUL}
<1>1. Len(b) \in Nat
  BY DEF Bytes
<1>2. m + 1 \in I /\ \A k \in I : m + 1 <= k
  <2>1. \A k \in I : k \notin 1..m
    OBVIOUS
  <2> QED
    BY <1>1, <2>1
<1>3. Min(I) = m + 1
  <2>1. Min(I) \in I /\ \A k \in I : Min(I) <= k
    BY <1>2 DEF Min
  <2>2. Min(I) \in Nat
    BY <1>1, <2>1
  <2>3. Min(I) <= m + 1 /\ m + 1 <= Min(I)
    BY <1>2, <2>1
  <2> QED
    BY <2>2, <2>3
<1>4. FirstZero(b) = Min(I)
  BY <1>2 DEF FirstZero
<1>5. UpToNul(b) = SubSeq(b, 1, m)
  <2>1. UpToNul(b) = SubSeq(b, 1, Min(I) - 1)
    BY <1>2 DEF UpToNul, SelectInSeq
  <2>2. (m + 1) - 1 = m
    OBVIOUS
  <2> QED
    BY <1>3, <2>1, <2>2
<1>6. /\ UpToNul(b) \in Bytes /\ Len(UpToNul(b)) = m
      /\ \A k \in 1..m : UpToNul(b)[k] = b[k]
  BY <1>1, <1>5 DEF Bytes
<1> QED
  BY <1>3, <1>4, <1>6

(* The iterative server. *)

\* Whose connection nobody has read or written yet.
Fresh(c) ==
  c \in Range(backlog) \/ client[c] = "new" \/ (c = i_client /\ i_pc = "read")

\* What has been sent over a fresh connection is still there, and nothing has come
\* back; before the read the buffer is clean, before the write it has the
\* beginning of the client's line.
IterativeIInv ==
  /\ NetOK /\ Iterative!TypeOK
  /\ \A c \in Client :
       /\ client[c] = "new" => c # i_client
       /\ Fresh(c) => answer[c] = <<>> /\ (asked[c] # <<>> => Len(toServer[c]) = MaxLine)
  /\ i_pc = "read" => i_buf = Zeroed
  /\ i_pc = "write" =>
       /\ asked[i_client] # <<>> /\ answer[i_client] = <<>>
       /\ \E n \in 1..LineLen : \A k \in 1..MaxLine : i_buf[k] = Unit(i_client, k, n)

\* The definitions of EchoClient, as this server's module has them.
LEMMA IterativeSame ==
  /\ Iterative!MaxLine = MaxLine /\ Iterative!Zeroed = Zeroed
  /\ (Iterative!NetTypeOK <=> NetTypeOK) /\ (Iterative!NetInit <=> NetInit)
  /\ Iterative!Range(backlog) = Range(backlog)
  /\ \A b, c, n : Iterative!ReadInto(b, c, n) = ReadInto(b, c, n)
  /\ \A b : Iterative!UpToNul(b) = UpToNul(b)
  /\ \A c : Iterative!Closed(c) <=> Closed(c)
<1>1. Iterative!MaxLine = MaxLine /\ Iterative!Zeroed = Zeroed
  BY DEF Iterative!MaxLine, MaxLine, Iterative!Zeroed, Zeroed
<1>2. (Iterative!NetTypeOK <=> NetTypeOK) /\ (Iterative!NetInit <=> NetInit)
  BY DEF Iterative!NetTypeOK, NetTypeOK, Iterative!IsInjective, IsInjective, Iterative!NetInit, NetInit
<1>3. Iterative!Range(backlog) = Range(backlog)
  BY DEF Iterative!Range, Range
<1>4. \A b, c, n : Iterative!ReadInto(b, c, n) = ReadInto(b, c, n)
  BY <1>1 DEF Iterative!ReadInto, ReadInto
<1>5. \A b : Iterative!UpToNul(b) = UpToNul(b)
  BY DEF Iterative!UpToNul, UpToNul, Iterative!SelectInSeq, SelectInSeq, Iterative!Min, Min
<1>6. \A c : Iterative!Closed(c) <=> Closed(c)
  BY DEF Iterative!Closed, Closed
<1> QED
  BY <1>1, <1>2, <1>3, <1>4, <1>5, <1>6

LEMMA IterativeClients ==
  ASSUME NEW c \in Client, Iterative!ClientReads(c) \/ Iterative!Types(c) \/ Iterative!UserActs(c)
  PROVE  ClientActs(c) /\ UNCHANGED i_server
<1>1. UNCHANGED i_server
  BY DEF Iterative!ClientReads, Iterative!Types, Iterative!UserActs, Iterative!server, i_server
<1>2. CASE Iterative!ClientReads(c)
  <2>1. ReadAnswer(c, Iterative!Gone(c))
    BY <1>2 DEF Iterative!ClientReads, Iterative!ReadAnswer, ReadAnswer
  <2>2. \E b \in BOOLEAN : ReadAnswer(c, b)
    BY <2>1 DEF ReadAnswer
  <2> QED
    BY <1>1, <2>2 DEF ClientActs
<1>3. CASE Iterative!Types(c) \/ Iterative!UserActs(c)
  <2>1. Ask(c) \/ HangUp(c) \/ Connect(c, TRUE)
    BY <1>3 DEF Iterative!Types, Iterative!UserActs, Iterative!Ask, Ask, Iterative!HangUp, HangUp,
                Iterative!Connect, Connect, Iterative!Line, Line
  <2> QED
    BY <1>1, <2>1 DEF ClientActs
<1> QED
  BY <1>2, <1>3

LEMMA IterativeInit == NetInit /\ i_pc = "accept" /\ i_client = NoClient /\ i_buf = Zeroed => IterativeIInv
<1> SUFFICES ASSUME NetInit, i_pc = "accept", i_client = NoClient, i_buf = Zeroed PROVE IterativeIInv
  OBVIOUS
<1>1. NetOK
  BY NetInitOK
<1>2. NoClient \notin Client
  BY EchoServersAssumption DEF Iterative!IterativeAssumption
<1>3. Range(backlog) = {}
  BY DEF NetInit, Range
<1>4. Zeroed \in Bytes /\ Len(Zeroed) = MaxLine
  BY ClientAssumption DEF Zeroed, MaxLine, Bytes
<1>5. Iterative!TypeOK
  BY <1>1, <1>3, <1>4, IterativeSame DEF Iterative!TypeOK, Bytes, NetOK
<1> QED
  BY <1>1, <1>2, <1>5 DEF IterativeIInv, NetInit

\* What the server does.
LEMMA IterativeServes ==
  ASSUME IterativeIInv, Iterative!Serve PROVE IterativeIInv'
<1> USE DEF IterativeIInv
<1>0. /\ NoClient \notin Client /\ Zeroed \in Bytes /\ Len(Zeroed) = MaxLine
      /\ i_buf \in Bytes /\ Len(i_buf) = MaxLine /\ MaxLine \in Nat /\ LineLen \in Nat
      /\ MaxLine = LineLen + 1
  BY EchoServersAssumption, ClientAssumption, IterativeSame
     DEF Iterative!IterativeAssumption, Iterative!TypeOK, Zeroed, MaxLine, Bytes
<1>1. CASE Iterative!Accept
  <2> DEFINE h == Head(backlog)
  <2>1. /\ i_pc = "accept" /\ i_pc' = "read" /\ i_buf' = Zeroed /\ i_client' = h
        /\ backlog # <<>> /\ backlog' = Tail(backlog)
        /\ UNCHANGED <<client, asked, toServer, answer>>
    BY <1>1, IterativeSame DEF Iterative!Accept, Iterative!TakeNext, Iterative!Cleared
  <2>2. /\ h \in Client /\ h \in Range(backlog) /\ Range(backlog') = Range(backlog) \ {h}
        /\ backlog' \in Seq(Client) /\ IsInjective(backlog')
    BY <2>1, QueueTail DEF NetOK, NetTypeOK
  <2>3. \A c \in Client : LineOK(c)'
    BY <2>1, LineKept DEF NetOK
  <2>4. NetOK'
    BY <2>1, <2>2, <2>3 DEF NetOK, NetTypeOK
  <2>5. Iterative!Range(backlog)' = Range(backlog)'
    BY DEF Iterative!Range, Range
  <2>6. (Iterative!NetTypeOK <=> NetTypeOK)'
    BY IterativeSame, PTL
  <2>7. Iterative!MaxLine' = MaxLine'
    BY DEF Iterative!MaxLine, MaxLine
  <2>8. Iterative!TypeOK'
    BY <1>0, <2>1, <2>2, <2>4, <2>5, <2>6, <2>7 DEF NetOK, Iterative!TypeOK, Bytes, MaxLine
  <2>9. ASSUME NEW c \in Client
        PROVE  /\ client'[c] = "new" => c # i_client'
               /\ Fresh(c)' => answer'[c] = <<>> /\ (asked'[c] # <<>> => Len(toServer'[c]) = MaxLine')
    BY <2>1, <2>2 DEF Fresh, NetOK, MaxLine
  <2> QED
    BY <2>1, <2>4, <2>8, <2>9 DEF Zeroed, MaxLine
<1>2. CASE Iterative!Read
  <2> DEFINE d == i_client
  <2>1. PICK n \in 1..MaxLine : Iterative!Take(d, n) /\ i_buf' = ReadInto(i_buf, d, n)
    BY <1>2, IterativeSame DEF Iterative!Read
  <2>2. /\ i_pc = "read" /\ i_pc' = "write" /\ i_client' = d /\ n \in 1..Len(toServer[d])
        /\ toServer' = [toServer EXCEPT ![d] = SubSeq(@, n + 1, Len(@))]
        /\ UNCHANGED <<client, asked, answer, backlog>>
    BY <1>2, <2>1 DEF Iterative!Read, Iterative!Take, Iterative!AfterRead
  <2>3. d \in Client /\ n \in Nat
    BY <1>0, <2>2 DEF Iterative!TypeOK
  <2>4. toServer'[d] = SubSeq(toServer[d], n + 1, Len(toServer[d]))
        /\ \A c \in Client : c # d => toServer'[c] = toServer[c]
    BY <2>2, <2>3 DEF NetOK, NetTypeOK
  <2>5. asked[d] # <<>> /\ answer[d] = <<>> /\ Len(toServer[d]) = MaxLine
    BY <1>0, <2>2, <2>3, ReadUnits DEF Fresh
  <2>6. LineOK(d)' /\ toServer'[d] \in Bytes
    BY <2>2, <2>3, <2>4, LineRead
  <2>7. NetOK'
    <3>1. ASSUME NEW c \in Client PROVE LineOK(c)'
      BY <2>2, <2>4, <2>6, LineKept DEF NetOK
    <3>2. NetTypeOK'
      BY <2>2, <2>3, <2>4, <2>6 DEF NetOK, NetTypeOK, Bytes
    <3> QED
      BY <2>2, <3>1, <3>2 DEF NetOK
  <2>8. /\ i_buf' \in Bytes /\ Len(i_buf') = MaxLine
        /\ \A k \in 1..MaxLine : i_buf'[k] = IF k <= n THEN Unit(d, Taken(d) + k, LineLen) ELSE NUL
    <3>1. i_buf = Zeroed /\ \A k \in 1..MaxLine : Zeroed[k] = NUL
      BY <2>2 DEF Zeroed
    <3>2. /\ ReadInto(i_buf, d, n) \in Bytes /\ Len(ReadInto(i_buf, d, n)) = MaxLine
          /\ \A k \in 1..MaxLine :
               ReadInto(i_buf, d, n)[k] = IF k <= n THEN Unit(d, Taken(d) + k, LineLen) ELSE i_buf[k]
      <4>1. NetOK /\ i_buf \in Bytes /\ Len(i_buf) = MaxLine
        BY <1>0
      <4> HIDE DEF d
      <4> QED
        BY <2>2, <2>3, <4>1, ReadUnits
    <3> QED
      BY <2>1, <3>1, <3>2
  <2>9. \E m \in 1..LineLen : \A k \in 1..MaxLine : i_buf'[k] = Unit(d, k, m)
    <3> DEFINE m == IF n <= LineLen THEN n ELSE LineLen
    <3>1. m \in 1..LineLen
      BY <1>0, ClientAssumption
    <3>2. Taken(d) = 0
      BY <1>0, <2>5 DEF Taken
    <3>3. ASSUME NEW k \in 1..MaxLine PROVE i_buf'[k] = Unit(d, k, m)
      <4>1. i_buf'[k] = IF k <= n THEN Unit(d, k, LineLen) ELSE NUL
        BY <2>8, <3>2
      <4>2. k <= m <=> k <= n /\ k <= LineLen
        BY <1>0
      <4> QED
        BY <4>1, <4>2 DEF Unit
    <3> QED
      BY <3>1, <3>3
  <2>10. Iterative!TypeOK'
    <3>1. Iterative!Range(backlog)' = Iterative!Range(backlog)
      BY <2>2 DEF Iterative!Range
    <3>2. (Iterative!NetTypeOK <=> NetTypeOK)'
      BY IterativeSame, PTL
    <3>3. Iterative!MaxLine' = MaxLine
      BY DEF Iterative!MaxLine, MaxLine
    <3> QED
      BY <2>2, <2>7, <2>8, <3>1, <3>2, <3>3 DEF NetOK, Iterative!TypeOK, Bytes
  <2>11. ASSUME NEW c \in Client
         PROVE  /\ client'[c] = "new" => c # i_client'
                /\ Fresh(c)' => answer'[c] = <<>> /\ (asked'[c] # <<>> => Len(toServer'[c]) = MaxLine')
    <3>1. d \notin Range(backlog) /\ client[d] # "new"
      BY <2>3, IterativeSame DEF Iterative!TypeOK
    <3>2. Range(backlog)' = Range(backlog)
      BY <2>2 DEF Range
    <3> QED
      BY <2>2, <2>4, <3>1, <3>2 DEF Fresh, MaxLine
  <2> QED
    BY <2>2, <2>5, <2>7, <2>9, <2>10, <2>11 DEF MaxLine, Unit
<1>3. CASE Iterative!ReadEnd
  <2>1. /\ i_pc = "read" /\ i_pc' = "accept" /\ i_client' = NoClient /\ i_buf' = i_buf
        /\ UNCHANGED <<client, asked, toServer, answer, backlog>>
    BY <1>3 DEF Iterative!ReadEnd, Iterative!AfterEnd, Iterative!net
  <2>2. \A c \in Client : LineOK(c)'
    BY <2>1, LineKept DEF NetOK
  <2>3. NetOK'
    BY <2>1, <2>2 DEF NetOK, NetTypeOK, Range
  <2>4. Iterative!TypeOK'
    <3>1. Iterative!Range(backlog)' = Range(backlog)'
      BY DEF Iterative!Range, Range
    <3>2. (Iterative!NetTypeOK <=> NetTypeOK)'
      BY IterativeSame, PTL
    <3>3. Iterative!MaxLine' = MaxLine
      BY DEF Iterative!MaxLine, MaxLine
    <3>4. NoClient \notin Range(backlog)'
      BY <1>0, <2>3 DEF NetOK, NetTypeOK, Range
    <3> QED
      BY <1>0, <2>1, <2>3, <3>1, <3>2, <3>3, <3>4 DEF NetOK, Iterative!TypeOK, Bytes
  <2> QED
    BY <1>0, <2>1, <2>3, <2>4 DEF Fresh, MaxLine, Range
<1>4. CASE Iterative!Write
  <2> DEFINE d == i_client
  <2>1. /\ i_pc = "write" /\ i_pc' = "accept" /\ i_client' = NoClient /\ i_buf' = i_buf
        /\ answer' = IF Closed(d) THEN answer ELSE [answer EXCEPT ![d] = @ \o i_buf]
        /\ UNCHANGED <<client, asked, toServer, backlog>>
    BY <1>4, IterativeSame DEF Iterative!Write, Iterative!Give
  <2>2. d \in Client /\ asked[d] # <<>> /\ d \notin Range(backlog) /\ client[d] # "new"
    BY <2>1, IterativeSame DEF Iterative!TypeOK
  <2>3. answer' \in [Client -> Bytes] /\ \A c \in Client : c # d => answer'[c] = answer[c]
    <3>1. answer \in [Client -> Bytes] /\ answer[d] \o i_buf \in Bytes
      BY <1>0, <2>2, NetBytes, BytesConcat DEF NetOK, NetTypeOK, Bytes
    <3> QED
      BY <2>1, <2>2, <3>1
  <2>4. ASSUME NEW c \in Client PROVE LineOK(c)'
    <3>1. asked[c] # <<>> \/ answer'[c] = answer[c]
      BY <2>2, <2>3
    <3> QED
      BY <2>1, <3>1, LineKept DEF NetOK
  <2>5. NetOK'
    <3>1. NetTypeOK'
      BY <2>1, <2>3 DEF NetOK, NetTypeOK, Bytes
    <3> QED
      BY <2>1, <2>4, <3>1 DEF NetOK, Range
  <2>6. Iterative!TypeOK'
    <3>1. Iterative!Range(backlog)' = Range(backlog)'
      BY DEF Iterative!Range, Range
    <3>2. (Iterative!NetTypeOK <=> NetTypeOK)'
      BY IterativeSame, PTL
    <3>3. Iterative!MaxLine' = MaxLine
      BY DEF Iterative!MaxLine, MaxLine
    <3>4. NoClient \notin Range(backlog)'
      BY <1>0, <2>5 DEF NetOK, NetTypeOK, Range
    <3> QED
      BY <1>0, <2>1, <2>5, <3>1, <3>2, <3>3, <3>4 DEF NetOK, Iterative!TypeOK, Bytes
  <2>7. Range(backlog)' = Range(backlog)
    BY <2>1 DEF Range
  <2> QED
    BY <1>0, <2>1, <2>2, <2>3, <2>5, <2>6, <2>7 DEF Fresh, MaxLine
<1> QED
  BY <1>1, <1>2, <1>3, <1>4 DEF Iterative!Serve

\* The iterative server's invariant is inductive.
LEMMA IterativeNext ==
  ASSUME IterativeIInv, Iterative!Next \/ UNCHANGED i_vars PROVE IterativeIInv'
<1>1. ASSUME NEW c \in Client, ClientActs(c), UNCHANGED i_server PROVE IterativeIInv'
  <2> USE DEF IterativeIInv
  <2>1. NetOK'
    BY <1>1, ClientNet
  <2>2. /\ UNCHANGED <<i_pc, i_client, i_buf>>
        /\ backlog' = backlog \/ (client[c] = "new" /\ backlog' = Append(backlog, c))
        /\ \A d \in Client : d # c => client'[d] = client[d]
        /\ client'[c] # "new"
    BY <1>1 DEF i_server, ClientActs, Connect, ReadAnswer, Ask, HangUp, NetOK, NetTypeOK
  <2>3. Range(backlog') \in {Range(backlog), Range(backlog) \cup {c}} /\ (client[c] # "new" => backlog' = backlog)
    <3>1. CASE backlog' = backlog
      BY <3>1
    <3>2. CASE backlog' = Append(backlog, c) /\ client[c] = "new"
      BY <3>2, QueueAppend DEF NetOK, NetTypeOK
    <3> QED
      BY <2>2, <3>1, <3>2
  <2>4. Iterative!TypeOK'
    <3>1. Iterative!Range(backlog)' = Range(backlog)' /\ Iterative!Range(backlog) = Range(backlog)
      BY DEF Iterative!Range, Range
    <3>2. (Iterative!NetTypeOK <=> NetTypeOK)'
      BY IterativeSame, PTL
    <3>3. Iterative!MaxLine' = Iterative!MaxLine
      BY DEF Iterative!MaxLine
    <3>4. i_client \notin Range(backlog')
      <4>1. client[c] = "new" => c # i_client
        OBVIOUS
      <4>2. i_client \notin Range(backlog)
        BY <3>1 DEF Iterative!TypeOK
      <4>3. CASE client[c] = "new"
        BY <2>3, <4>1, <4>2, <4>3
      <4>4. CASE client[c] # "new"
        BY <2>3, <4>2, <4>4
      <4> QED
        BY <4>3, <4>4
    <3> QED
      BY <2>1, <2>2, <3>1, <3>2, <3>3, <3>4 DEF NetOK, Iterative!TypeOK, Bytes
  <2>5. /\ \A d \in Client \ {c} : UNCHANGED <<asked[d], toServer[d], answer[d]>>
        /\ answer'[c] = answer[c]
        /\ UNCHANGED <<asked[c], toServer[c]>> \/ (asked'[c] # <<>> /\ Len(toServer'[c]) = MaxLine /\ asked[c] = <<>>)
    <3>1. CASE Ask(c)
      BY <3>1, AskData DEF Ask, NetOK, NetTypeOK, LineOK
    <3>2. CASE ~Ask(c)
      BY <1>1, <3>2 DEF ClientActs, Connect, ReadAnswer, HangUp
    <3> QED
      BY <3>1, <3>2
  <2>6. ASSUME NEW d \in Client
        PROVE  /\ client'[d] = "new" => d # i_client'
               /\ Fresh(d)' => answer'[d] = <<>> /\ (asked'[d] # <<>> => Len(toServer'[d]) = MaxLine')
    <3>1. Fresh(d)' => Fresh(d)
      BY <2>2, <2>3 DEF Fresh
    <3>2. MaxLine' = MaxLine
      BY DEF MaxLine
    <3> QED
      BY <2>2, <2>5, <3>1, <3>2
  <2>7. i_pc' = "read" => i_buf' = Zeroed'
    BY <2>2 DEF Zeroed, MaxLine
  <2>8. ASSUME i_pc' = "write"
        PROVE  /\ asked'[i_client] # <<>> /\ answer'[i_client] = <<>>
               /\ \E n \in 1..LineLen : \A k \in 1..MaxLine : i_buf'[k] = Unit(i_client, k, n)
    <3>1. i_client \in Client /\ i_pc = "write"
      BY <2>2, <2>8 DEF Iterative!TypeOK
    <3>3. asked'[i_client] # <<>> /\ answer'[i_client] = <<>>
      BY <2>5, <3>1
    <3> QED
      BY <2>2, <3>1, <3>3
  <2> QED
    BY <2>1, <2>2, <2>4, <2>6, <2>7, <2>8 DEF Unit, MaxLine
<1>2. CASE UNCHANGED i_vars
  <2>1. UNCHANGED <<client, asked, toServer, answer, backlog, i_pc, i_client, i_buf>>
    BY <1>2 DEF i_vars, net, i_server
  <2>2. \A c \in Client : LineOK(c)' = LineOK(c) /\ Fresh(c)' = Fresh(c)
    BY <2>1 DEF LineOK, Taken, Unit, MaxLine, Line, Fresh, Range
  <2>3. NetOK'
    BY <2>1, <2>2 DEF IterativeIInv, NetOK, NetTypeOK, Range
  <2>4. Iterative!TypeOK' = Iterative!TypeOK
    BY <2>1 DEF Iterative!TypeOK, Iterative!NetTypeOK, Iterative!Range, Iterative!MaxLine, Iterative!IsInjective
  <2> QED
    BY <2>1, <2>2, <2>3, <2>4 DEF IterativeIInv, Zeroed, MaxLine, Unit
<1>3. ASSUME NEW c \in Client, Iterative!ClientReads(c) \/ Iterative!Types(c) \/ Iterative!UserActs(c)
      PROVE  IterativeIInv'
  BY <1>1, <1>3, IterativeClients
<1>4. CASE Iterative!Next
  BY <1>3, <1>4, IterativeServes DEF Iterative!Next
<1> QED
  BY <1>2, <1>4

\* Each step sends a line, answers with a beginning of it, or does nothing that
\* the service would see.
LEMMA IterativeStep ==
  ASSUME IterativeIInv, Iterative!Next \/ UNCHANGED i_vars
  PROVE  \/ UNCHANGED <<asked, Iterative!Printed>>
         \/ \E c \in Client :
              \/ /\ asked[c] = <<>> /\ asked' = [asked EXCEPT ![c] = Line(c)]
                 /\ UNCHANGED Iterative!Printed
              \/ /\ UNCHANGED asked
                 /\ \E n \in Len(Iterative!Printed[c]) + 1 .. Len(asked[c]) :
                      Iterative!Printed' = [Iterative!Printed EXCEPT ![c] = SubSeq(asked[c], 1, n)]
<1> USE DEF IterativeIInv
<1>1. UNCHANGED answer => UNCHANGED Iterative!Printed
  BY DEF Iterative!Printed, Iterative!UpToNul, Iterative!SelectInSeq, Iterative!Min
<1>2. CASE UNCHANGED i_vars \/ Iterative!Accept \/ Iterative!Read \/ Iterative!ReadEnd
  BY <1>1, <1>2 DEF i_vars, net, Iterative!Accept, Iterative!TakeNext, Iterative!Read, Iterative!Take,
                    Iterative!ReadEnd, Iterative!net
<1>3. ASSUME NEW c \in Client, Iterative!ClientReads(c) \/ Iterative!Types(c) \/ Iterative!UserActs(c)
      PROVE  UNCHANGED answer /\ (UNCHANGED asked \/ (asked[c] = <<>> /\ asked' = [asked EXCEPT ![c] = Line(c)]))
  <2>1. ClientActs(c)
    BY <1>3, IterativeClients
  <2> QED
    BY <2>1 DEF ClientActs, Connect, ReadAnswer, Ask, HangUp, NetOK, LineOK
<1>4. CASE Iterative!Write
  <2> DEFINE d == i_client
  <2>1. /\ i_pc = "write" /\ UNCHANGED asked
        /\ answer' = IF Closed(d) THEN answer ELSE [answer EXCEPT ![d] = @ \o i_buf]
    BY <1>4, IterativeSame DEF Iterative!Write, Iterative!Give
  <2>2. CASE Closed(d)
    BY <1>1, <2>1, <2>2
  <2>3. CASE ~Closed(d)
    <3>1. /\ d \in Client /\ asked[d] = Line(d) /\ answer[d] = <<>>
          /\ i_buf \in Bytes /\ Len(i_buf) = MaxLine /\ <<>> \in Bytes
      BY <2>1, IterativeSame DEF Iterative!TypeOK, NetOK, LineOK, Bytes
    <3>2. PICK n \in 1..LineLen : \A k \in 1..MaxLine : i_buf[k] = Unit(d, k, n)
      BY <2>1
    <3>3. /\ LineLen \in Nat \ {0} /\ MaxLine \in Nat /\ n \in Nat /\ n <= LineLen /\ n + 1 \in 1..MaxLine
          /\ NUL \notin Client \X (1..LineLen)
      BY ClientAssumption DEF MaxLine
    <3>4. answer' = [answer EXCEPT ![d] = i_buf]
      <4>1. <<>> \o i_buf = i_buf
        BY <3>1, ConcatEmptySeq DEF Bytes
      <4> QED
        BY <2>1, <2>3, <3>1, <4>1
    <3>5. answer \in [Client -> Bytes]
      BY DEF NetOK, NetTypeOK, Bytes
    <3>6. \A c \in Client : answer'[c] = IF c = d THEN i_buf ELSE answer[c]
      BY <3>1, <3>4, <3>5
    <3>7. /\ UpToNul(i_buf) \in Bytes /\ Len(UpToNul(i_buf)) = n
          /\ \A k \in 1..n : UpToNul(i_buf)[k] = i_buf[k]
      <4>1. \A k \in 1..n : i_buf[k] # NUL
        <5> SUFFICES ASSUME NEW k \in 1..n PROVE i_buf[k] # NUL
          OBVIOUS
        <5>1. k \in 1..MaxLine /\ k <= n /\ k \in 1..LineLen
          BY <3>3
        <5>2. i_buf[k] = <<d, k>>
          BY <3>2, <5>1 DEF Unit
        <5> QED
          BY <3>1, <3>3, <5>1, <5>2
      <4>2. i_buf[n + 1] = NUL
        <5>1. ~(n + 1 <= n)
          BY <3>3
        <5> QED
          BY <3>2, <3>3, <5>1 DEF Unit
      <4> QED
        BY <3>1, <3>3, <4>1, <4>2, TextOf
    <3>8. UpToNul(i_buf) = SubSeq(asked[d], 1, n)
      <4>1. /\ Line(d) \in Bytes /\ Len(Line(d)) = LineLen /\ \A k \in 1..LineLen : Line(d)[k] = <<d, k>>
        BY <3>1, AskData, SeqMonotonic DEF Bytes
      <4>2. /\ SubSeq(Line(d), 1, n) \in Bytes /\ Len(SubSeq(Line(d), 1, n)) = n
            /\ \A k \in 1..n : SubSeq(Line(d), 1, n)[k] = Line(d)[k]
        BY <3>3, <4>1 DEF Bytes
      <4>3. ASSUME NEW k \in 1..n PROVE UpToNul(i_buf)[k] = SubSeq(Line(d), 1, n)[k]
        <5>1. k \in 1..MaxLine /\ k <= n /\ k \in 1..LineLen
          BY <3>3
        <5>2. i_buf[k] = <<d, k>>
          BY <3>2, <5>1 DEF Unit
        <5> QED
          BY <3>7, <4>1, <4>2, <5>1, <5>2
      <4>4. asked[d] = Line(d)
        BY <3>1
      <4>5. UpToNul(i_buf) \in Bytes /\ Len(UpToNul(i_buf)) = n
        BY <3>7
      <4>6. UpToNul(i_buf) = SubSeq(Line(d), 1, n)
        BY <4>2, <4>3, <4>5, BytesEqual
      <4> QED
        BY <4>4, <4>6
    <3>9. /\ Iterative!Printed = [c \in Client |-> UpToNul(answer[c])]
          /\ Iterative!Printed' = [c \in Client |-> UpToNul(answer'[c])]
      <4>1. \A b : Iterative!UpToNul(b) = UpToNul(b)
        BY IterativeSame
      <4> QED
        BY <4>1 DEF Iterative!Printed
    <3>10. Iterative!Printed' = [Iterative!Printed EXCEPT ![d] = SubSeq(asked[d], 1, n)]
      BY <3>1, <3>6, <3>8, <3>9
    <3>11. Len(Iterative!Printed[d]) = 0
      <4>1. Iterative!Printed[d] = UpToNul(<<>>)
        BY <3>1, <3>9
      <4>2. UpToNul(<<>>) = SubSeq(<<>>, 1, 0 - 1)
        BY DEF UpToNul, SelectInSeq
      <4>3. SubSeq(<<>>, 1, 0 - 1) = <<>>
        OBVIOUS
      <4> QED
        BY <4>1, <4>2, <4>3
    <3>12. n \in Len(Iterative!Printed[d]) + 1 .. Len(asked[d])
      BY <3>1, <3>3, <3>11, AskData
    <3> QED
      BY <2>1, <3>1, <3>10, <3>12
  <2> QED
    BY <2>2, <2>3
<1> QED
  BY <1>1, <1>2, <1>3, <1>4 DEF Iterative!Next, Iterative!Serve

(* The polling server. *)

\* A connection is in the backlog or on a descriptor only after its client has
\* connected; outside a round the buffer is clean; as long as no line has been cut
\* each is still to be read whole, or has been.
PollingIInv ==
  /\ NetOK /\ Polling!Inv
  /\ p_buf \in Bytes
  /\ \A c \in Client, fd \in Polling!Fd : fdtab[fd] = c => client[c] # "new" /\ c \notin Range(backlog)
  /\ p_pc = "accept" => p_buf = Zeroed
  /\ ~cut => \A c \in Client :
       \/ toServer[c] = <<>>
       \/ Len(toServer[c]) = MaxLine /\ answer[c] = <<>>

\* The definitions of EchoClient, as this server's module has them.
LEMMA PollingSame ==
  /\ Polling!MaxLine = MaxLine /\ Polling!Zeroed = Zeroed
  /\ (Polling!NetTypeOK <=> NetTypeOK)
  /\ \A b, c, n : Polling!ReadInto(b, c, n) = ReadInto(b, c, n)
  /\ \A c : Polling!Closed(c) <=> Closed(c)
<1>1. Polling!MaxLine = MaxLine /\ Polling!Zeroed = Zeroed
  BY DEF Polling!MaxLine, MaxLine, Polling!Zeroed, Zeroed
<1>2. Polling!NetTypeOK <=> NetTypeOK
  BY DEF Polling!NetTypeOK, NetTypeOK, Polling!IsInjective, IsInjective
<1>3. \A b, c, n : Polling!ReadInto(b, c, n) = ReadInto(b, c, n)
  BY <1>1 DEF Polling!ReadInto, ReadInto
<1>4. \A c : Polling!Closed(c) <=> Closed(c)
  BY DEF Polling!Closed, Closed
<1> QED
  BY <1>1, <1>2, <1>3, <1>4

LEMMA PollingClients ==
  ASSUME NEW c \in Client, Polling!ClientReads(c) \/ Polling!UserActs(c)
  PROVE  ClientActs(c) /\ UNCHANGED p_server
<1>1. UNCHANGED p_server
  BY DEF Polling!ClientReads, Polling!UserActs, Polling!server, p_server
<1>2. CASE Polling!ClientReads(c)
  <2>1. ReadAnswer(c, Polling!Gone(c))
    BY <1>2 DEF Polling!ClientReads, Polling!ReadAnswer, ReadAnswer
  <2>2. \E b \in BOOLEAN : ReadAnswer(c, b)
    BY <2>1 DEF ReadAnswer
  <2> QED
    BY <1>1, <2>2 DEF ClientActs
<1>3. CASE Polling!UserActs(c)
  <2>1. Ask(c) \/ HangUp(c) \/ Connect(c, TRUE)
    BY <1>3 DEF Polling!UserActs, Polling!Ask, Ask, Polling!HangUp, HangUp,
                Polling!Connect, Connect, Polling!Line, Line
  <2> QED
    BY <1>1, <2>1 DEF ClientActs
<1> QED
  BY <1>2, <1>3

\* accept gives out, and the loop takes next, a descriptor of the set.
LEMMA LowestOne ==
  ASSUME NEW S \in SUBSET Polling!Fd, S # {} PROVE Polling!Lowest(S) \in S
<1>1. S \subseteq Nat
  BY DEF Polling!Fd
<1>2. \E m \in S : \A k \in S : <<k, m>> \notin OpToRel(<, Nat)
  BY <1>1, NatLessThanWellFounded, WFMin
<1>3. \A k, m \in S : <<k, m>> \notin OpToRel(<, Nat) => m <= k
  BY <1>1 DEF OpToRel
<1>4. \E m \in S : \A k \in S : m <= k
  BY <1>2, <1>3
<1> QED
  BY <1>4 DEF Polling!Lowest

\* The invariant of the module, without its operators.
PollingBody ==
  /\ p_pc \in {"accept", "scan", "dead"}
  /\ p_i \in Nat /\ maxfd \in Nat /\ cut \in BOOLEAN /\ client_fd_array \subseteq Polling!Fd
  /\ fdtab \in [Polling!Fd -> Client \cup {NoClient}] /\ Len(p_buf) = MaxLine
  /\ p_pc # "dead" =>
       /\ client_fd_array = {fd \in Polling!Fd : fdtab[fd] # NoClient}
       /\ \A fd \in client_fd_array :
            fd <= maxfd /\ \A d \in client_fd_array : fdtab[d] = fdtab[fd] => d = fd
  /\ p_pc = "scan" =>
       \A k \in 1..Len(p_buf) : p_buf[k] # NUL =>
         \E fd \in client_fd_array : fd < p_i /\ p_buf[k][1] = fdtab[fd]
  /\ ~cut => \A c \in Client : answer[c] \in {<<>>, Append(asked[c], NUL)}
  /\ p_pc = "scan" => \E fd \in Polling!Fd : fdtab[fd] = NoClient

LEMMA PollingParts == NetOK /\ p_buf \in Bytes => (Polling!Inv <=> PollingBody)
<1> SUFFICES ASSUME NetOK, p_buf \in Bytes PROVE Polling!Inv <=> PollingBody
  OBVIOUS
<1>1. Polling!Fd \ Polling!Free = {fd \in Polling!Fd : fdtab[fd] # NoClient}
  BY DEF Polling!Free
<1>2. Polling!Range(p_buf) = {p_buf[k] : k \in 1..Len(p_buf)}
  BY DEF Bytes, Polling!Range
<1>3. Polling!BufferOfThisRound <=>
        (p_pc = "scan" =>
           \A k \in 1..Len(p_buf) : p_buf[k] # NUL =>
             \E fd \in client_fd_array : fd < p_i /\ p_buf[k][1] = fdtab[fd])
  BY <1>2 DEF Polling!BufferOfThisRound
<1>4. Polling!ArrayAgreesWithTable <=>
        (p_pc # "dead" =>
           /\ client_fd_array = {fd \in Polling!Fd : fdtab[fd] # NoClient}
           /\ \A fd \in client_fd_array :
                fd <= maxfd /\ \A d \in client_fd_array : fdtab[d] = fdtab[fd] => d = fd)
  BY <1>1 DEF Polling!ArrayAgreesWithTable
<1>5. Polling!TypeOK <=>
        /\ p_pc \in {"accept", "scan", "dead"}
        /\ p_i \in Nat /\ maxfd \in Nat /\ cut \in BOOLEAN /\ client_fd_array \subseteq Polling!Fd
        /\ fdtab \in [Polling!Fd -> Client \cup {NoClient}] /\ Len(p_buf) = MaxLine
  BY PollingSame DEF Polling!TypeOK, NetOK
<1>6. Polling!ReadsBelowLimit <=> (p_pc = "scan" => \E fd \in Polling!Fd : fdtab[fd] = NoClient)
  BY DEF Polling!ReadsBelowLimit, Polling!Free
<1> QED
  BY <1>3, <1>4, <1>5, <1>6 DEF Polling!Inv, Polling!OwnUnlessCut, PollingBody

LEMMA PollingInit == NetInit /\ Polling!ServerInit => PollingIInv
<1> SUFFICES ASSUME NetInit, Polling!ServerInit PROVE PollingIInv
  OBVIOUS
<1>1. NetOK
  BY NetInitOK
<1>2. NoClient \notin Client /\ Zeroed \in Bytes /\ Len(Zeroed) = MaxLine
  BY EchoServersAssumption, ClientAssumption DEF Polling!PollAssumption, Zeroed, MaxLine, Bytes
<1>3. /\ p_pc = "accept" /\ p_i = 0 /\ maxfd = 0 /\ client_fd_array = {} /\ cut = FALSE
      /\ fdtab = [fd \in Polling!Fd |-> NoClient] /\ p_buf = Zeroed
  BY PollingSame DEF Polling!ServerInit
<1>4. \A c \in Client : toServer[c] = <<>> /\ answer[c] = <<>>
  BY DEF NetInit
<1>5. Polling!Inv
  BY <1>1, <1>2, <1>3, <1>4, PollingParts DEF PollingBody
<1> QED
  BY <1>1, <1>2, <1>3, <1>4, <1>5 DEF PollingIInv

\* A step between reads that leaves the connections alone.
LEMMA PollingQuiet ==
  ASSUME PollingIInv,
         UNCHANGED <<client, asked, toServer, answer, backlog, maxfd, cut>>,
         p_pc' \in {"accept", "scan"}, p_pc # "dead",
         p_pc' = "accept" => p_buf' = Zeroed,
         p_pc' = "scan" => p_buf' = p_buf /\ p_i' \in Nat /\ fdtab' = fdtab /\ (p_pc = "scan" => p_i <= p_i'),
         p_pc' = "scan" => p_pc = "scan" \/ \E fd \in Polling!Fd : fdtab[fd] = NoClient,
         p_i' \in Nat,
         \/ UNCHANGED <<fdtab, client_fd_array>>
         \/ \E fd \in client_fd_array : /\ fdtab' = [fdtab EXCEPT ![fd] = NoClient]
                                        /\ client_fd_array' = client_fd_array \ {fd}
  PROVE  PollingIInv'
<1> USE DEF PollingIInv
<1>1. NetOK'
  <2>1. \A c \in Client : LineOK(c)'
    BY LineKept DEF NetOK
  <2> QED
    BY <2>1 DEF NetOK, NetTypeOK, Range
<1>2. Zeroed \in Bytes /\ Len(Zeroed) = MaxLine /\ NoClient \notin Client /\ \A k \in 1..MaxLine : Zeroed[k] = NUL
  BY EchoServersAssumption, ClientAssumption DEF Polling!PollAssumption, Zeroed, MaxLine, Bytes
<1>3. /\ p_i \in Nat /\ maxfd \in Nat /\ cut \in BOOLEAN /\ client_fd_array \subseteq Polling!Fd
      /\ fdtab \in [Polling!Fd -> Client \cup {NoClient}] /\ Len(p_buf) = MaxLine
      /\ client_fd_array = {fd \in Polling!Fd : fdtab[fd] # NoClient}
      /\ \A fd \in client_fd_array :
           fd <= maxfd /\ \A d \in client_fd_array : fdtab[d] = fdtab[fd] => d = fd
      /\ p_pc = "scan" =>
           \A k \in 1..Len(p_buf) : p_buf[k] # NUL =>
             \E fd \in client_fd_array : fd < p_i /\ p_buf[k][1] = fdtab[fd]
      /\ ~cut => \A c \in Client : answer[c] \in {<<>>, Append(asked[c], NUL)}
      /\ p_pc = "scan" => \E fd \in Polling!Fd : fdtab[fd] = NoClient
      /\ p_pc \in {"accept", "scan"}
  BY PollingParts DEF PollingBody
<1>4. p_buf' \in Bytes /\ Len(p_buf') = MaxLine /\ MaxLine' = MaxLine /\ Zeroed' = Zeroed
  BY <1>2, <1>3 DEF Zeroed, MaxLine
<1>5. /\ fdtab' \in [Polling!Fd -> Client \cup {NoClient}] /\ client_fd_array' \subseteq client_fd_array
      /\ client_fd_array' = {fd \in Polling!Fd : fdtab'[fd] # NoClient}
      /\ \A fd \in Polling!Fd : fdtab'[fd] \in {fdtab[fd], NoClient}
      /\ \A fd \in client_fd_array' : fdtab'[fd] = fdtab[fd]
  BY <1>3
<1>6. \A fd \in client_fd_array' :
        fd <= maxfd' /\ \A d \in client_fd_array' : fdtab'[d] = fdtab'[fd] => d = fd
  BY <1>3, <1>5
<1>7. ASSUME p_pc' = "scan", NEW k \in 1..Len(p_buf'), p_buf'[k] # NUL
      PROVE  \E fd \in client_fd_array' : fd < p_i' /\ p_buf'[k][1] = fdtab'[fd]
  <2>1. p_pc = "scan"
    BY <1>2, <1>3, <1>7
  <2>2. PICK fd \in client_fd_array : fd < p_i /\ p_buf[k][1] = fdtab[fd]
    BY <1>3, <1>7, <2>1
  <2>3. fd \in Nat /\ fd < p_i' /\ fd \in client_fd_array'
    BY <1>3, <1>5, <1>7, <2>1, <2>2 DEF Polling!Fd
  <2> QED
    BY <1>5, <1>7, <2>2, <2>3
<1>8. Polling!Inv'
  <2>1. Polling!Fd' = Polling!Fd
    BY DEF Polling!Fd
  <2>2. ~cut' => \A c \in Client : answer'[c] \in {<<>>, Append(asked'[c], NUL)}
    BY <1>3
  <2>3. PollingBody'
    BY <1>3, <1>4, <1>5, <1>6, <1>7, <2>1, <2>2 DEF PollingBody
  <2>4. (NetOK /\ p_buf \in Bytes => (Polling!Inv <=> PollingBody))'
    BY PollingParts, PTL
  <2>5. (p_buf \in Bytes)'
    BY <1>4 DEF Bytes
  <2> QED
    BY <1>1, <2>3, <2>4, <2>5
<1>9. \A c \in Client, fd \in Polling!Fd' : fdtab'[fd] = c => client'[c] # "new" /\ c \notin Range(backlog)'
  BY <1>2, <1>5 DEF Polling!Fd, Range
<1> QED
  BY <1>1, <1>4, <1>8, <1>9 DEF Bytes

\* accept gives a free descriptor to the first of the backlog.
LEMMA PollingAccepts == ASSUME PollingIInv, Polling!Accept PROVE PollingIInv'
<1> USE DEF PollingIInv
<1> DEFINE h == Head(backlog)
           fd == Polling!Lowest(Polling!Free)
<1>1. PollingBody
  BY PollingParts
<1>2. /\ p_pc = "accept" /\ p_pc' = "accept" /\ p_i' = p_i /\ p_buf' = p_buf /\ cut' = cut
      /\ backlog # <<>> /\ backlog' = Tail(backlog) /\ Polling!Free # {}
      /\ fdtab' = [fdtab EXCEPT ![fd] = h] /\ client_fd_array' = client_fd_array \cup {fd}
      /\ maxfd' = IF fd > maxfd THEN fd ELSE maxfd
      /\ UNCHANGED <<client, asked, toServer, answer>>
  BY DEF Polling!Accept, Polling!TakeNext
<1>3. /\ h \in Client /\ h \in Range(backlog) /\ Range(backlog') = Range(backlog) \ {h}
      /\ backlog' \in Seq(Client) /\ IsInjective(backlog')
  BY <1>2, QueueTail DEF NetOK, NetTypeOK
<1>4. fd \in Polling!Fd /\ fdtab[fd] = NoClient /\ fd \in Nat
  BY <1>2, LowestOne DEF Polling!Free, Polling!Fd
<1>5. NoClient \notin Client
  BY EchoServersAssumption DEF Polling!PollAssumption
<1>6. NetOK'
  <2>1. \A c \in Client : LineOK(c)'
    BY <1>2, LineKept DEF NetOK
  <2> QED
    BY <1>2, <1>3, <2>1 DEF NetOK, NetTypeOK
<1>7. \A d \in Polling!Fd : fdtab'[d] = IF d = fd THEN h ELSE fdtab[d]
  BY <1>1, <1>2 DEF PollingBody
<1>8. \A d \in Polling!Fd : fdtab[d] # h
  BY <1>3
<1>9. fdtab' \in [Polling!Fd -> Client \cup {NoClient}]
  BY <1>1, <1>2, <1>3 DEF PollingBody
<1>10. client_fd_array' = {d \in Polling!Fd : fdtab'[d] # NoClient}
  BY <1>1, <1>2, <1>3, <1>4, <1>5, <1>7 DEF PollingBody
<1>11. \A d \in client_fd_array' : d <= maxfd'
  <2> SUFFICES ASSUME NEW d \in client_fd_array' PROVE d <= maxfd'
    OBVIOUS
  <2>1. d = fd \/ (d <= maxfd /\ d \in Nat)
    BY <1>1, <1>2 DEF PollingBody, Polling!Fd
  <2> QED
    BY <1>1, <1>2, <1>4, <2>1 DEF PollingBody
<1>12. \A d, e \in client_fd_array' : fdtab'[d] = fdtab'[e] => d = e
  BY <1>1, <1>2, <1>4, <1>7, <1>8 DEF PollingBody
<1>13. PollingBody'
  BY <1>1, <1>2, <1>4, <1>9, <1>10, <1>11, <1>12 DEF PollingBody, MaxLine, Polling!Fd
<1>14. (NetOK /\ p_buf \in Bytes => (Polling!Inv <=> PollingBody))'
  BY PollingParts, PTL
<1>15. ASSUME NEW c \in Client, NEW d \in Polling!Fd, fdtab'[d] = c
       PROVE  client'[c] # "new" /\ c \notin Range(backlog)'
  BY <1>2, <1>3, <1>7, <1>15 DEF NetOK
<1>16. (p_buf \in Bytes)' /\ Zeroed' = Zeroed /\ MaxLine' = MaxLine
  BY <1>2 DEF Bytes, Zeroed, MaxLine
<1> QED
  BY <1>2, <1>6, <1>13, <1>14, <1>15, <1>16 DEF Polling!Fd

\* The read of one connection and the write of the whole buffer.
LEMMA PollingEchoes ==
  ASSUME PollingIInv, p_pc = "scan", NEW fd \in Polling!Ahead, Polling!Echoed(fd)
  PROVE  PollingIInv'
<1> USE DEF PollingIInv
<1>1. PollingBody
  BY PollingParts
<1>0. /\ fd \in client_fd_array /\ fd \in Polling!Fd /\ fd \in Nat /\ p_i <= fd
      /\ fdtab[fd] \in Client
  BY <1>1 DEF PollingBody, Polling!Ahead, Polling!Fd
<1> PICK c \in Client : c = fdtab[fd]
  BY <1>0
<1>2. /\ fd \in client_fd_array /\ fd \in Polling!Fd /\ fd \in Nat /\ p_i <= fd /\ c \in Client
      /\ c = fdtab[fd] /\ MaxLine \in Nat
  BY <1>0, ClientAssumption DEF MaxLine
<1>3. PICK n \in 1..Len(toServer[c]) :
        /\ p_buf' = ReadInto(p_buf, c, n) /\ cut' = (cut \/ n < MaxLine)
        /\ toServer' = [toServer EXCEPT ![c] = SubSeq(@, n + 1, Len(@))]
        /\ answer' = IF Closed(c) THEN answer ELSE [answer EXCEPT ![c] = @ \o p_buf']
        /\ p_i' = fd + 1
        /\ UNCHANGED <<client, asked, backlog, p_pc, maxfd, client_fd_array, fdtab>>
  BY <1>2, PollingSame DEF Polling!Echoed
<1>4. n \in Nat
  BY <1>2, NetBytes
<1>5. /\ n \in 1..MaxLine /\ asked[c] # <<>> /\ p_buf' \in Bytes /\ Len(p_buf') = MaxLine
      /\ \A k \in 1..MaxLine : p_buf'[k] = IF k <= n THEN Unit(c, Taken(c) + k, LineLen) ELSE p_buf[k]
  <2>1. p_buf \in Bytes /\ Len(p_buf) = MaxLine
    BY <1>1 DEF PollingBody
  <2>2. /\ n \in 1..MaxLine /\ asked[c] # <<>>
        /\ ReadInto(p_buf, c, n) \in Bytes /\ Len(ReadInto(p_buf, c, n)) = MaxLine
        /\ \A k \in 1..MaxLine :
             ReadInto(p_buf, c, n)[k] = IF k <= n THEN Unit(c, Taken(c) + k, LineLen) ELSE p_buf[k]
    BY <1>4, <2>1, ReadUnits
  <2> QED
    BY <1>3, <2>2
<1>6. /\ toServer'[c] = SubSeq(toServer[c], n + 1, Len(toServer[c]))
      /\ \A d \in Client : d # c => toServer'[d] = toServer[d]
  BY <1>2, <1>3 DEF NetOK, NetTypeOK
<1>7. LineOK(c)' /\ toServer'[c] \in Bytes
  BY <1>2, <1>3, <1>6, LineRead
<1>8. answer' \in [Client -> Bytes] /\ \A d \in Client : d # c => answer'[d] = answer[d]
  <2>1. answer \in [Client -> Bytes] /\ answer[c] \o p_buf' \in Bytes
    BY <1>2, <1>5, NetBytes, BytesConcat DEF NetOK, NetTypeOK, Bytes
  <2> QED
    BY <1>2, <1>3, <2>1
<1>9. NetOK'
  <2>1. ASSUME NEW d \in Client PROVE LineOK(d)'
    <3>1. CASE d = c
      BY <1>7, <3>1
    <3>2. CASE d # c
      BY <1>3, <1>6, <1>8, <3>2, LineKept DEF NetOK
    <3> QED
      BY <3>1, <3>2
  <2>2. NetTypeOK'
    <3>1. toServer' \in [Client -> Bytes]
      BY <1>2, <1>3, <1>6, <1>7 DEF NetOK, NetTypeOK, Bytes
    <3> QED
      BY <1>3, <1>8, <3>1 DEF NetOK, NetTypeOK, Bytes
  <2>3. Range(backlog)' = Range(backlog)
    BY <1>3 DEF Range
  <2> QED
    BY <1>3, <2>1, <2>2, <2>3 DEF NetOK
<1>10. ASSUME NEW k \in 1..MaxLine, p_buf'[k] # NUL
       PROVE  \E d \in client_fd_array : d < p_i' /\ p_buf'[k][1] = fdtab[d]
  <2>1. CASE k <= n
    <3>1. p_buf'[k] = Unit(c, Taken(c) + k, LineLen)
      BY <1>5, <2>1
    <3>2. p_buf'[k][1] = c
      BY <1>10, <3>1 DEF Unit
    <3> QED
      BY <1>2, <1>3, <3>2
  <2>2. CASE ~(k <= n)
    <3>1. p_buf'[k] = p_buf[k]
      BY <1>5, <2>2
    <3>2. PICK d \in client_fd_array : d < p_i /\ p_buf[k][1] = fdtab[d]
      BY <1>1, <1>10, <3>1 DEF PollingBody
    <3>3. d \in Nat /\ p_i \in Nat
      BY <1>1 DEF PollingBody, Polling!Fd
    <3> QED
      BY <1>2, <1>3, <3>1, <3>2, <3>3
  <2> QED
    BY <2>1, <2>2
<1>11. ASSUME ~cut'
       PROVE  ~cut /\ toServer'[c] = <<>> /\ answer'[c] \in {<<>>, Append(asked[c], NUL)}
  <2>1. ~cut /\ n = MaxLine
    <3>1. ~cut /\ ~(n < MaxLine)
      <4>1. cut' = (cut \/ n < MaxLine)
        BY <1>3
      <4> QED
        BY <1>11, <4>1, Zenon
    <3>2. n \in 1..MaxLine /\ MaxLine \in Nat
      BY <1>2, <1>5
    <3>3. n = MaxLine
      BY <3>1, <3>2
    <3> QED
      BY <3>1, <3>3
  <2>2. Len(toServer[c]) = MaxLine /\ answer[c] = <<>>
    BY <1>2, <1>3, <2>1, NetBytes
  <2>3. toServer'[c] = <<>>
    <3>1. MaxLine \in Nat /\ toServer[c] \in Bytes
      BY <1>2, NetBytes
    <3>2. SubSeq(toServer[c], MaxLine + 1, MaxLine) = <<>>
      BY <3>1, <2>2 DEF Bytes
    <3> QED
      BY <1>6, <2>1, <2>2, <3>2
  <2>4. Taken(c) = 0 /\ MaxLine \in Nat
    <3>1. MaxLine \in Nat
      BY <1>2
    <3> QED
      BY <2>2, <3>1 DEF Taken
  <2>5. p_buf' = Append(asked[c], NUL)
    <3>1. asked[c] = Line(c)
      BY <1>2, <1>5 DEF NetOK, LineOK
    <3>2. \A k \in 1..MaxLine : p_buf'[k] = Unit(c, k, LineLen)
      BY <1>5, <2>1, <2>4
    <3>3. /\ Append(Line(c), NUL) \in Bytes /\ Len(Append(Line(c), NUL)) = MaxLine
          /\ \A k \in 1..MaxLine : Append(Line(c), NUL)[k] = Unit(c, k, LineLen)
      BY <1>2, AskData
    <3>4. p_buf' \in Bytes /\ Len(p_buf') = Len(Append(Line(c), NUL))
      BY <1>5, <3>3
    <3>5. \A k \in 1..Len(p_buf') : p_buf'[k] = Append(Line(c), NUL)[k]
      BY <1>5, <3>2, <3>3
    <3> DEFINE t == Append(Line(c), NUL)
    <3>6. t \in Bytes /\ Len(p_buf') = Len(t) /\ \A k \in 1..Len(p_buf') : p_buf'[k] = t[k]
      BY <3>3, <3>4, <3>5
    <3> HIDE DEF t
    <3>7. p_buf' = t
      BY <3>4, <3>6, BytesEqual
    <3> QED
      BY <3>1, <3>7 DEF t
  <2>6. answer'[c] \in {answer[c], answer[c] \o p_buf'}
    BY <1>2, <1>3 DEF NetOK, NetTypeOK
  <2>7. <<>> \o p_buf' = p_buf'
    BY <1>5, ConcatEmptySeq DEF Bytes
  <2> QED
    BY <2>1, <2>2, <2>3, <2>5, <2>6, <2>7
<1>12. ~cut' => \A d \in Client : answer'[d] \in {<<>>, Append(asked'[d], NUL)}
  BY <1>1, <1>3, <1>8, <1>11 DEF PollingBody
<1>13. PollingBody'
  <2>1. p_i' \in Nat /\ cut' \in BOOLEAN /\ MaxLine' = MaxLine /\ Polling!Fd' = Polling!Fd
    BY <1>1, <1>2, <1>3 DEF PollingBody, MaxLine, Polling!Fd
  <2>2. p_pc' = "scan" =>
          \A k \in 1..Len(p_buf') : p_buf'[k] # NUL =>
            \E d \in client_fd_array' : d < p_i' /\ p_buf'[k][1] = fdtab'[d]
    BY <1>3, <1>5, <1>10
  <2> QED
    BY ZenonT(60), <1>1, <1>3, <1>5, <1>12, <2>1, <2>2 DEF PollingBody
<1>14. (NetOK /\ p_buf \in Bytes => (Polling!Inv <=> PollingBody))'
  BY PollingParts, PTL
<1>15. ~cut' => \A d \in Client : toServer'[d] = <<>> \/ (Len(toServer'[d]) = MaxLine' /\ answer'[d] = <<>>)
  BY <1>6, <1>8, <1>11 DEF MaxLine
<1>16. (p_buf \in Bytes)' /\ Polling!Fd' = Polling!Fd /\ Range(backlog)' = Range(backlog)
  BY <1>3, <1>5 DEF Bytes, Polling!Fd, Range
<1> QED
  BY <1>3, <1>9, <1>13, <1>14, <1>15, <1>16

\* SIGPIPE ends the server.
LEMMA PollingDies ==
  ASSUME PollingIInv, Polling!Killed PROVE PollingIInv'
<1> USE DEF PollingIInv
<1>1. PollingBody
  BY PollingParts
<1>2. /\ p_pc' = "dead" /\ fdtab' = [d \in Polling!Fd |-> NoClient] /\ backlog' = <<>>
      /\ UNCHANGED <<client, asked, toServer, answer, p_i, maxfd, client_fd_array, p_buf, cut>>
  BY DEF Polling!Killed, Polling!BrokenPipe
<1>3. NoClient \notin Client
  BY EchoServersAssumption DEF Polling!PollAssumption
<1>4. NetOK'
  <2>1. \A c \in Client : LineOK(c)'
    BY <1>2, LineKept DEF NetOK
  <2>2. Range(backlog') = {} /\ IsInjective(backlog')
    BY <1>2 DEF Range, IsInjective
  <2> QED
    BY <1>2, <2>1, <2>2 DEF NetOK, NetTypeOK
<1>5. PollingBody'
  BY <1>1, <1>2 DEF PollingBody, MaxLine, Polling!Fd
<1>6. (NetOK /\ p_buf \in Bytes => (Polling!Inv <=> PollingBody))'
  BY PollingParts, PTL
<1>7. (p_buf \in Bytes)' /\ MaxLine' = MaxLine /\ Polling!Fd' = Polling!Fd
  BY <1>2 DEF Bytes, MaxLine, Polling!Fd
<1> QED
  BY <1>2, <1>3, <1>4, <1>5, <1>6, <1>7

\* The polling server's invariant is inductive.
LEMMA PollingNext ==
  ASSUME PollingIInv, Polling!Next \/ UNCHANGED p_vars PROVE PollingIInv'
<1> USE DEF PollingIInv
<1>1. PollingBody
  BY PollingParts
<1>2. CASE Polling!StartRound
  <2>1. \E fd \in Polling!Fd : fdtab[fd] = NoClient
    BY <1>2 DEF Polling!StartRound, Polling!AcceptSettled, Polling!Free
  <2> QED
    BY <1>1, <1>2, <2>1, PollingQuiet DEF Polling!StartRound, Polling!net, PollingBody
<1>3. CASE Polling!EndRound
  <2>1. p_pc = "scan" /\ p_pc' = "accept" /\ p_i' = 0 /\ p_buf' = Zeroed
        /\ UNCHANGED <<client, asked, toServer, answer, backlog, maxfd, client_fd_array, fdtab, cut>>
    BY <1>3, PollingSame DEF Polling!EndRound, Polling!LeaveRound, Polling!Cleared, Polling!net
  <2>2. Zeroed' = Zeroed
    BY DEF Zeroed, MaxLine
  <2> QED
    BY <2>1, <2>2, PollingQuiet
<1>4. CASE Polling!Poll
  <2> DEFINE fd == Polling!Lowest(Polling!Ahead)
  <2>1. p_pc = "scan" /\ fd \in Polling!Ahead
    <3>1. Polling!Ahead \subseteq Polling!Fd
      BY <1>1 DEF Polling!Ahead, PollingBody
    <3> QED
      BY <1>4, <3>1, LowestOne DEF Polling!Poll
  <2>2. fd \in client_fd_array /\ p_i <= fd /\ fd \in Nat /\ p_i \in Nat
    BY <1>1, <2>1 DEF Polling!Ahead, PollingBody, Polling!Fd
  <2>3. CASE Polling!ReadNothing(fd)
    <3>1. /\ p_i' = fd + 1
          /\ UNCHANGED <<client, asked, toServer, answer, backlog, p_pc, maxfd, client_fd_array, fdtab, p_buf, cut>>
      BY <2>3 DEF Polling!ReadNothing, Polling!net
    <3>2. p_i' \in Nat /\ p_i <= p_i'
      BY <2>2, <3>1
    <3> QED
      BY <2>1, <3>1, <3>2, PollingQuiet
  <2>4. CASE Polling!ReadEnd(fd)
    <3>1. /\ p_pc' = "accept" /\ p_i' = 0 /\ p_buf' = Zeroed
          /\ fdtab' = [fdtab EXCEPT ![fd] = NoClient] /\ client_fd_array' = client_fd_array \ {fd}
          /\ UNCHANGED <<client, asked, toServer, answer, backlog, maxfd, cut>>
      BY <2>4, PollingSame DEF Polling!ReadEnd, Polling!LeaveRound, Polling!Cleared, Polling!Unmarked, Polling!net
    <3>2. Zeroed' = Zeroed
      BY DEF Zeroed, MaxLine
    <3> QED
      BY <2>1, <2>2, <3>1, <3>2, PollingQuiet
  <2> QED
    BY <1>4, <2>1, <2>3, <2>4, PollingEchoes DEF Polling!Poll
<1>5. ASSUME NEW c \in Client, Polling!ClientReads(c) \/ Polling!UserActs(c) PROVE PollingIInv'
  <2>1. ClientActs(c) /\ UNCHANGED <<p_pc, p_i, maxfd, client_fd_array, fdtab, p_buf, cut>>
    BY <1>5, PollingClients DEF p_server
  <2>2. NetOK'
    BY <2>1, ClientNet
  <2>3. /\ client'[c] # "new" /\ \A d \in Client : d # c => client'[d] = client[d]
        /\ backlog' = backlog \/ (client[c] = "new" /\ backlog' = Append(backlog, c))
        /\ answer' = answer
        /\ (asked' = asked /\ toServer' = toServer) \/ Ask(c)
    BY <2>1 DEF ClientActs, Connect, ReadAnswer, Ask, HangUp, NetOK, NetTypeOK
  <2>4. ASSUME NEW d \in Client, NEW fd \in Polling!Fd, fdtab'[fd] = d
        PROVE  client'[d] # "new" /\ d \notin Range(backlog)'
    <3>1. CASE backlog' = backlog
      BY <2>1, <2>3, <2>4, <3>1 DEF Range
    <3>2. CASE client[c] = "new" /\ backlog' = Append(backlog, c)
      <4>1. Range(backlog') = Range(backlog) \cup {c}
        BY <3>2, QueueAppend DEF NetOK, NetTypeOK
      <4> QED
        BY <2>1, <2>3, <2>4, <3>2, <4>1
    <3> QED
      BY <2>3, <3>1, <3>2
  <2>5. ASSUME ~cut, NEW d \in Client
        PROVE  /\ toServer'[d] = <<>> \/ (Len(toServer'[d]) = MaxLine' /\ answer'[d] = <<>>)
               /\ answer'[d] \in {<<>>, Append(asked'[d], NUL)}
    <3>1. CASE Ask(c) /\ d = c
      <4>1. Len(toServer'[c]) = MaxLine /\ answer'[c] = <<>>
        BY <2>3, <3>1, AskData DEF Ask, NetOK, NetTypeOK, LineOK
      <4> QED
        BY <3>1, <4>1 DEF MaxLine
    <3>2. CASE ~(Ask(c) /\ d = c)
      <4>1. asked'[d] = asked[d] /\ toServer'[d] = toServer[d] /\ answer'[d] = answer[d]
        BY <2>3, <3>2 DEF Ask, NetOK, NetTypeOK
      <4> QED
        BY <1>1, <2>5, <4>1 DEF PollingBody, MaxLine
    <3> QED
      BY <3>1, <3>2
  <2>6. PollingBody'
    BY <1>1, <2>1, <2>5 DEF PollingBody, MaxLine, Polling!Fd
  <2>7. (NetOK /\ p_buf \in Bytes => (Polling!Inv <=> PollingBody))'
    BY PollingParts, PTL
  <2>8. (p_buf \in Bytes)' /\ Polling!Fd' = Polling!Fd /\ Zeroed' = Zeroed
    BY <2>1 DEF Bytes, Polling!Fd, Zeroed, MaxLine
  <2> QED
    BY <2>1, <2>2, <2>4, <2>5, <2>6, <2>7, <2>8
<1>6. CASE UNCHANGED p_vars
  <2>1. UNCHANGED <<client, asked, toServer, answer, backlog, p_pc, p_i, maxfd, client_fd_array, fdtab, p_buf, cut>>
    BY <1>6 DEF p_vars, net, p_server
  <2>2. NetOK'
    <3>1. \A c \in Client : LineOK(c)'
      BY <2>1, LineKept DEF NetOK
    <3> QED
      BY <2>1, <3>1 DEF NetOK, NetTypeOK, Range
  <2>3. PollingBody'
    BY <1>1, <2>1 DEF PollingBody, MaxLine, Polling!Fd
  <2>4. (NetOK /\ p_buf \in Bytes => (Polling!Inv <=> PollingBody))'
    BY PollingParts, PTL
  <2>5. (p_buf \in Bytes)' /\ Polling!Fd' = Polling!Fd /\ Zeroed' = Zeroed /\ Range(backlog)' = Range(backlog)
        /\ MaxLine' = MaxLine
    BY <2>1 DEF Bytes, Polling!Fd, Zeroed, MaxLine, Range
  <2> QED
    BY <2>1, <2>2, <2>3, <2>4, <2>5
<1> QED
  BY <1>2, <1>3, <1>4, <1>5, <1>6, PollingAccepts, PollingDies DEF Polling!Next, Polling!Serve


(* The server of the urgent bytes. *)

\* Whom it serves, and what its variables may be.
OobCalls ==
  /\ o_pc \in {"accept", "own", "read", "write", "dead"}
  /\ o_client \in Client \cup {NoClient}
  /\ open \in BOOLEAN /\ shrunk \in BOOLEAN /\ sigurg \in BOOLEAN
  /\ urgent \in [Client -> Oob!Fate]
  /\ o_pc = "accept" => o_client = NoClient /\ ~open
  /\ o_pc # "accept" => o_client \in Client
  /\ sigurg => open /\ urgent[o_client] \in {"noticed", "arrived"}

\* Over another connection nothing has been read or written, and it is in the
\* backlog as long as there is a server.
OobWaits(c) ==
  /\ answer[c] = <<>> /\ (asked[c] # <<>> => Len(toServer[c]) = MaxLine)
  /\ client[c] \in {"typing", "waiting"} /\ o_pc # "dead" => c \in Range(backlog)

\* Who is served gets units of its line; unless a piece was shorter than one
\* before it, a beginning of the line, which is all that has been read when
\* nothing waits in the buffer.
OobServed(c) ==
  /\ client[c] # "new" /\ c \notin Range(backlog)
  /\ \A k \in 1..Len(answer[c]) : \E j \in 1..LineLen : answer[c][k] = <<c, j>>
  /\ ~shrunk =>
       /\ Len(answer[c]) <= LineLen /\ \A k \in 1..Len(answer[c]) : answer[c][k] = <<c, k>>
       /\ asked[c] # <<>> /\ ~Closed(c) /\ o_pc \in {"own", "read"} => Len(answer[c]) = LineTaken(c)

\* The buffer has m units of the line and then zeros; before the write they are
\* what has been read and not answered.
OobText(m) ==
  /\ \A k \in 1..MaxLine : o_buf[k] = NUL <=> k > m
  /\ o_pc = "write" /\ ~Closed(o_client) =>
       /\ Len(answer[o_client]) + m = LineTaken(o_client)
       /\ \A k \in 1..m : o_buf[k] = <<o_client, Len(answer[o_client]) + k>>

OobBuffer ==
  /\ o_buf \in Bytes /\ Len(o_buf) = MaxLine /\ o_buf[MaxLine] = NUL
  /\ o_pc = "accept" => o_buf = Zeroed
  /\ o_pc = "write" => asked[o_client] # <<>>
  /\ \A k \in 1..MaxLine :
       o_buf[k] = NUL \/ (asked[o_client] # <<>> /\ \E j \in 1..LineLen : o_buf[k] = <<o_client, j>>)
  /\ ~shrunk => \E m \in 0..LineLen : OobText(m)

OobIInv ==
  /\ NetOK /\ OobCalls /\ OobBuffer
  /\ \A c \in Client : IF c = o_client THEN OobServed(c) ELSE OobWaits(c)

\* The definitions of EchoClient, as this server's module has them.
LEMMA OobSame ==
  /\ Oob!MaxLine = MaxLine /\ Oob!Zeroed = Zeroed
  /\ (Oob!NetTypeOK <=> NetTypeOK)
  /\ \A b, c, n : Oob!ReadInto(b, c, n) = ReadInto(b, c, n)
  /\ \A b : Oob!UpToNul(b) = UpToNul(b)
  /\ \A c : Oob!Closed(c) <=> Closed(c)
<1>1. Oob!MaxLine = MaxLine /\ Oob!Zeroed = Zeroed
  BY DEF Oob!MaxLine, MaxLine, Oob!Zeroed, Zeroed
<1>2. Oob!NetTypeOK <=> NetTypeOK
  BY DEF Oob!NetTypeOK, NetTypeOK, Oob!IsInjective, IsInjective
<1>3. \A b, c, n : Oob!ReadInto(b, c, n) = ReadInto(b, c, n)
  BY <1>1 DEF Oob!ReadInto, ReadInto
<1>4. \A b : Oob!UpToNul(b) = UpToNul(b)
  BY DEF Oob!UpToNul, UpToNul, Oob!SelectInSeq, SelectInSeq, Oob!Min, Min
<1>5. \A c : Oob!Closed(c) <=> Closed(c)
  BY DEF Oob!Closed, Closed
<1> QED
  BY <1>1, <1>2, <1>3, <1>4, <1>5

\* What the clients have been sent is what the module's invariant says.
LEMMA OobInvHolds == OobIInv => Oob!Inv
<1> SUFFICES ASSUME OobIInv PROVE Oob!Inv
  OBVIOUS
<1> USE DEF OobIInv
<1>1. NoClient \notin Client /\ LineLen \in Nat \ {0}
  BY EchoServersAssumption, ClientAssumption DEF Oob!OobAssumption
<1>2. o_buf \in [1..MaxLine -> (Client \X Nat) \cup {NUL}]
  BY DEF OobBuffer, Bytes
<1>3. Oob!TypeOK
  BY <1>2, OobSame DEF Oob!TypeOK, OobCalls, NetOK
<1>4. ASSUME NEW c \in Client
      PROVE  /\ ~shrunk => Oob!IsPrefix(answer[c], asked[c])
             /\ Oob!Range(answer[c]) \subseteq Oob!Range(asked[c])
  <2>1. answer[c] \in Bytes /\ asked[c] \in Seq(Client \X Nat) /\ <<>> \in Bytes
    BY DEF NetOK, NetTypeOK, Bytes
  <2>2. CASE answer[c] = <<>>
    <3>1. Oob!Range(<<>>) = {}
      BY DEF Oob!Range
    <3>2. Oob!IsPrefix(<<>>, asked[c])
      BY <2>1 DEF Oob!IsPrefix
    <3> QED
      BY <2>2, <3>1, <3>2
  <2>3. CASE answer[c] # <<>>
    <3>1. c = o_client /\ OobServed(c) /\ asked[c] = Line(c)
      BY <2>3 DEF OobWaits, NetOK, LineOK
    <3>2. /\ Line(c) \in Seq(Client \X Nat) /\ Len(Line(c)) = LineLen
          /\ \A k \in 1..LineLen : Line(c)[k] = <<c, k>>
      BY AskData
    <3>3. Oob!Range(answer[c]) \subseteq Oob!Range(Line(c))
      <4>1. Oob!Range(answer[c]) = {answer[c][k] : k \in 1..Len(answer[c])}
        BY <2>1 DEF Oob!Range, Bytes
      <4>2. \A j \in 1..LineLen : <<c, j>> \in Oob!Range(Line(c))
        <5>1. DOMAIN Line(c) = 1..LineLen
          BY DEF Line
        <5> QED
          BY <3>2, <5>1 DEF Oob!Range
      <4>3. \A k \in 1..Len(answer[c]) : \E j \in 1..LineLen : answer[c][k] = <<c, j>>
        BY <3>1 DEF OobServed
      <4> QED
        BY <4>1, <4>2, <4>3
    <3>4. ASSUME ~shrunk PROVE Oob!IsPrefix(answer[c], Line(c))
      <4>1. Len(answer[c]) <= LineLen /\ \A k \in 1..Len(answer[c]) : answer[c][k] = <<c, k>>
        BY <3>1, <3>4 DEF OobServed
      <4>2. Len(answer[c]) \in Nat /\ Line(c) \in Bytes
        BY <2>1, <3>2, SeqMonotonic DEF Bytes
      <4>3. /\ SubSeq(answer[c], 1, Len(answer[c])) \in Bytes
            /\ Len(SubSeq(answer[c], 1, Len(answer[c]))) = Len(answer[c])
            /\ \A k \in 1..Len(answer[c]) : SubSeq(answer[c], 1, Len(answer[c]))[k] = answer[c][k]
        BY <2>1 DEF Bytes
      <4>4. /\ SubSeq(Line(c), 1, Len(answer[c])) \in Bytes
            /\ Len(SubSeq(Line(c), 1, Len(answer[c]))) = Len(answer[c])
            /\ \A k \in 1..Len(answer[c]) : SubSeq(Line(c), 1, Len(answer[c]))[k] = Line(c)[k]
        BY <1>1, <3>2, <4>1, <4>2 DEF Bytes
      <4>5. \A k \in 1..Len(answer[c]) : answer[c][k] = Line(c)[k]
        <5> SUFFICES ASSUME NEW k \in 1..Len(answer[c]) PROVE answer[c][k] = Line(c)[k]
          OBVIOUS
        <5>1. answer[c][k] = <<c, k>>
          BY <4>1
        <5>2. k \in 1..LineLen
          BY <1>1, <4>1, <4>2
        <5> QED
          BY <3>2, <5>1, <5>2
      <4>6. SubSeq(answer[c], 1, Len(answer[c])) = SubSeq(Line(c), 1, Len(answer[c]))
        BY <4>3, <4>4, <4>5, BytesEqual
      <4> QED
        BY <3>2, <4>1, <4>6 DEF Oob!IsPrefix
    <3> QED
      BY <3>1, <3>3, <3>4
  <2> QED
    BY <2>2, <2>3
<1>5. Oob!HandlerFinds
  BY DEF Oob!HandlerFinds, OobCalls
<1> QED
  BY <1>3, <1>4, <1>5 DEF Oob!Inv, Oob!EchoUnlessShrunk

LEMMA OobInit == NetInit /\ Oob!ServerInit => OobIInv
<1> SUFFICES ASSUME NetInit, Oob!ServerInit PROVE OobIInv
  OBVIOUS
<1>1. NetOK
  BY NetInitOK
<1>2. /\ NoClient \notin Client /\ LineLen \in Nat /\ MaxLine \in Nat /\ MaxLine \in 1..MaxLine
      /\ Zeroed \in Bytes /\ Len(Zeroed) = MaxLine /\ \A k \in 1..MaxLine : Zeroed[k] = NUL
  BY EchoServersAssumption, ClientAssumption DEF Oob!OobAssumption, Zeroed, MaxLine, Bytes
<1>3. /\ o_pc = "accept" /\ o_client = NoClient /\ open = FALSE /\ o_buf = Zeroed /\ shrunk = FALSE
      /\ urgent = [c \in Client |-> "none"] /\ sigurg = FALSE
  BY OobSame DEF Oob!ServerInit
<1>4. OobCalls
  BY <1>3 DEF OobCalls, Oob!Fate
<1>5. OobText(0) /\ 0 \in 0..LineLen
  BY <1>2, <1>3 DEF OobText
<1>6. OobBuffer
  BY <1>2, <1>3, <1>5 DEF OobBuffer
<1>7. ASSUME NEW c \in Client PROVE c # o_client /\ OobWaits(c)
  BY <1>2, <1>3 DEF NetInit, OobWaits
<1> QED
  BY <1>1, <1>4, <1>6, <1>7 DEF OobIInv

LEMMA OobClients ==
  ASSUME NEW c \in Client, Oob!ClientReads(c) \/ Oob!UserActs(c)
  PROVE  ClientActs(c) /\ UNCHANGED o_server
<1>1. UNCHANGED o_server
  BY DEF Oob!ClientReads, Oob!UserActs, Oob!server, Oob!oob, o_server
<1>2. CASE Oob!ClientReads(c)
  <2>1. ReadAnswer(c, Oob!Gone(c))
    BY <1>2 DEF Oob!ClientReads, Oob!ReadAnswer, ReadAnswer
  <2>2. \E b \in BOOLEAN : ReadAnswer(c, b)
    BY <2>1 DEF ReadAnswer
  <2> QED
    BY <1>1, <2>2 DEF ClientActs
<1>3. CASE Oob!UserActs(c)
  <2>1. Ask(c) \/ HangUp(c) \/ Connect(c, TRUE)
    BY <1>3 DEF Oob!UserActs, Oob!Ask, Ask, Oob!HangUp, HangUp,
                Oob!Connect, Connect, Oob!Line, Line
  <2> QED
    BY <1>1, <2>1 DEF ClientActs
<1> QED
  BY <1>2, <1>3

\* What a client does disturbs neither the server nor what it has for another.
LEMMA OobClientActs ==
  ASSUME OobIInv, NEW c \in Client, ClientActs(c), UNCHANGED o_server PROVE OobIInv'
<1> USE DEF OobIInv
<1>1. NetOK'
  BY ClientNet
<1>2. UNCHANGED <<o_pc, o_client, open, o_buf, shrunk, urgent, sigurg, answer>>
  BY DEF o_server, ClientActs, Connect, ReadAnswer, Ask, HangUp
<1>3. /\ client'[c] # "new" /\ \A d \in Client : d # c => client'[d] = client[d]
      /\ backlog' = backlog \/ (client[c] = "new" /\ backlog' = Append(backlog, c))
      /\ client[c] = "new" => backlog' = Append(backlog, c)
      /\ Closed(c) => client'[c] = client[c]
      /\ \/ asked' = asked /\ toServer' = toServer
         \/ Ask(c)
  BY DEF ClientActs, Connect, ReadAnswer, Ask, HangUp, Closed, NetOK, NetTypeOK
<1>4. Range(backlog') = IF client[c] = "new" THEN Range(backlog) \cup {c} ELSE Range(backlog)
  <2>1. CASE client[c] = "new"
    BY <1>3, <2>1, QueueAppend DEF NetOK, NetTypeOK
  <2>2. CASE client[c] # "new"
    BY <1>3, <2>2
  <2> QED
    BY <2>1, <2>2
<1>5. ASSUME Ask(c)
      PROVE  /\ asked[c] = <<>> /\ answer[c] = <<>> /\ asked'[c] = Line(c) /\ asked'[c] # <<>>
             /\ Len(toServer'[c]) = MaxLine /\ client[c] = "typing" /\ client' [c] = "waiting"
             /\ \A d \in Client \ {c} : asked'[d] = asked[d] /\ toServer'[d] = toServer[d]
  BY <1>5, AskData DEF Ask, NetOK, NetTypeOK, LineOK
<1>6. \A d \in Client : Closed(d) => Closed(d)'
  BY <1>3 DEF Closed
<1>7. MaxLine' = MaxLine /\ MaxLine \in Nat /\ LineLen \in Nat \ {0}
  BY ClientAssumption DEF MaxLine
<1>8. ASSUME Ask(c) PROVE Taken(c)' = 0 /\ LineTaken(c)' = 0
  <2>1. Taken(c)' = MaxLine - Len(toServer'[c])
    BY <1>7 DEF Taken
  <2>2. Taken(c)' = 0
    BY <1>5, <1>7, <1>8, <2>1
  <2> QED
    BY <1>7, <2>2 DEF LineTaken
<1>9. \A d \in Client : toServer'[d] = toServer[d] => LineTaken(d)' = LineTaken(d)
  BY DEF LineTaken, Taken, MaxLine
<1>10. ASSUME NEW d \in Client \ {o_client} PROVE OobWaits(d)'
  <2>1. OobWaits(d) /\ Range(backlog) \subseteq Range(backlog')
    BY <1>4, <1>10
  <2>2. client'[d] \in {"typing", "waiting"} /\ o_pc # "dead" => d \in Range(backlog')
    <3>1. CASE client[d] \in {"typing", "waiting"}
      BY <2>1, <3>1 DEF OobWaits
    <3>2. CASE client[d] = "new"
      BY <1>3, <1>4, <3>2
    <3>3. CASE Closed(d)
      BY <1>3, <3>3 DEF Closed
    <3> QED
      BY <3>1, <3>2, <3>3 DEF NetOK, NetTypeOK, Closed
  <2>3. asked'[d] # <<>> => Len(toServer'[d]) = MaxLine
    <3>1. CASE Ask(c) /\ d = c
      BY <1>5, <3>1
    <3>2. CASE ~(Ask(c) /\ d = c)
      BY <1>3, <1>5, <2>1, <3>2 DEF OobWaits
    <3> QED
      BY <3>1, <3>2
  <2> QED
    BY <1>2, <1>7, <2>1, <2>2, <2>3 DEF OobWaits
<1>11. ASSUME NEW d \in Client, d = o_client PROVE OobServed(d)'
  <2>1. OobServed(d)
    BY <1>11
  <2>2. client'[d] # "new" /\ d \notin Range(backlog')
    BY <1>3, <1>4, <2>1 DEF OobServed
  <2>3. CASE Ask(c) /\ d = c
    <3>1. Len(answer'[d]) = 0 /\ LineTaken(d)' = 0
      BY <1>2, <1>5, <1>8, <2>3
    <3> QED
      BY <1>2, <1>7, <2>1, <2>2, <3>1 DEF OobServed
  <2>4. CASE ~(Ask(c) /\ d = c)
    <3>1. asked'[d] = asked[d] /\ toServer'[d] = toServer[d]
      BY <1>3, <1>5, <2>4
    <3> QED
      BY <1>2, <1>6, <1>9, <2>1, <2>2, <3>1 DEF OobServed
  <2> QED
    BY <2>3, <2>4
<1>12. OobCalls'
  BY <1>2 DEF OobCalls
<1>13. o_pc = "write" => o_client \in Client /\ ~(Ask(c) /\ o_client = c)
  BY <1>5 DEF OobCalls, OobBuffer
<1>14. o_pc = "write" => asked'[o_client] = asked[o_client] /\ toServer'[o_client] = toServer[o_client]
  BY <1>3, <1>5, <1>13
<1>15. ASSUME NEW m \in 0..LineLen, OobText(m) PROVE OobText(m)'
  <2>1. \A k \in 1..MaxLine' : o_buf'[k] = NUL <=> k > m
    BY <1>2, <1>7, <1>15 DEF OobText
  <2>2. ASSUME o_pc' = "write", ~Closed(o_client)'
        PROVE  /\ Len(answer'[o_client']) + m = LineTaken(o_client)'
               /\ \A k \in 1..m : o_buf'[k] = <<o_client', Len(answer'[o_client']) + k>>
    <3>1. o_pc = "write" /\ o_client \in Client /\ Closed(o_client)' = Closed(o_client)'
      BY <1>2, <1>13, <2>2
    <3>2. ~Closed(o_client)
      BY <1>2, <1>6, <2>2, <3>1 DEF Closed
    <3>3. LineTaken(o_client)' = LineTaken(o_client)
      BY <1>2, <1>14, <3>1 DEF LineTaken, Taken, MaxLine
    <3> QED
      BY <1>2, <1>15, <3>1, <3>2, <3>3 DEF OobText
  <2> QED
    BY <2>1, <2>2 DEF OobText
<1>16. ASSUME NEW k \in 1..MaxLine
       PROVE  o_buf'[k] = NUL \/ (asked'[o_client] # <<>> /\ \E j \in 1..LineLen : o_buf'[k] = <<o_client, j>>)
  <2>1. o_buf[k] = NUL \/ (asked[o_client] # <<>> /\ \E j \in 1..LineLen : o_buf[k] = <<o_client, j>>)
    BY DEF OobBuffer
  <2>2. asked[o_client] # <<>> => asked'[o_client] # <<>>
    <3>1. CASE ~Ask(c)
      BY <1>3, <3>1
    <3>2. CASE Ask(c) /\ o_client \in Client
      BY <1>5, <3>2
    <3>3. CASE Ask(c) /\ o_client \notin Client
      BY <3>3 DEF Ask, NetOK, NetTypeOK
    <3> QED
      BY <3>1, <3>2, <3>3
  <2> QED
    BY <1>2, <2>1, <2>2
<1>17. OobBuffer'
  <2>1. ~shrunk' => \E m \in 0..LineLen : OobText(m)'
    BY <1>2, <1>15 DEF OobBuffer
  <2>2. o_pc' = "write" => asked'[o_client'] # <<>>
    BY <1>2, <1>14 DEF OobBuffer
  <2>3. o_pc' = "accept" => o_buf' = Zeroed'
    BY <1>2 DEF OobBuffer, Zeroed, MaxLine
  <2>4. o_buf' \in Bytes' /\ Len(o_buf') = MaxLine' /\ o_buf'[MaxLine'] = NUL
    BY <1>2, <1>7 DEF OobBuffer, Bytes
  <2> QED
    BY <1>2, <1>7, <1>16, <2>1, <2>2, <2>3, <2>4 DEF OobBuffer
<1>18. \A d \in Client : IF d = o_client' THEN OobServed(d)' ELSE OobWaits(d)'
  BY <1>2, <1>10, <1>11
<1> QED
  BY <1>1, <1>12, <1>17, <1>18

\* A call that neither reads nor writes.
LEMMA OobQuiet ==
  ASSUME OobIInv, UNCHANGED <<client, asked, toServer, answer, o_client, o_buf, shrunk>>, OobCalls',
         backlog' = backlog \/ (backlog' = <<>> /\ o_pc' = "dead"),
         o_pc' = o_pc \/ o_pc' = "dead" \/ (o_pc' = "read" /\ o_pc \in {"own", "read"}),
         o_pc = "dead" => o_pc' = "dead"
  PROVE  OobIInv'
<1> USE DEF OobIInv
<1>1. IsInjective(backlog') /\ backlog' \in Seq(Client) /\ Range(backlog') \subseteq Range(backlog)
      /\ (o_pc' # "dead" => Range(backlog') = Range(backlog))
  <2>1. CASE backlog' = backlog
    BY <2>1 DEF NetOK, NetTypeOK, Range
  <2>2. CASE backlog' = <<>> /\ o_pc' = "dead"
    <3>1. Range(<<>>) = {} /\ IsInjective(<<>>) /\ <<>> \in Seq(Client)
      BY DEF Range, IsInjective
    <3> QED
      BY <2>2, <3>1
  <2> QED
    BY <2>1, <2>2 DEF Range
<1>2. NetOK'
  <2>1. \A c \in Client : LineOK(c)'
    BY LineKept DEF NetOK
  <2> QED
    BY <1>1, <2>1 DEF NetOK, NetTypeOK
<1>3. MaxLine' = MaxLine /\ Zeroed' = Zeroed
  BY DEF MaxLine, Zeroed
<1>4. \A c \in Client : LineTaken(c)' = LineTaken(c) /\ Closed(c)' = Closed(c)
  BY <1>3 DEF LineTaken, Taken, Closed
<1>5. \A c \in Client : IF c = o_client' THEN OobServed(c)' ELSE OobWaits(c)'
  <2>1. ASSUME NEW c \in Client, c = o_client PROVE OobServed(c)'
    <3>1. OobServed(c) /\ (o_pc' \in {"own", "read"} => o_pc \in {"own", "read"})
      BY <2>1
    <3> QED
      BY <1>1, <1>4, <3>1 DEF OobServed
  <2>2. ASSUME NEW c \in Client, c # o_client PROVE OobWaits(c)'
    BY <1>1, <1>3, <2>2 DEF OobWaits
  <2> QED
    BY <2>1, <2>2
<1>6. ASSUME NEW m \in 0..LineLen, OobText(m) PROVE OobText(m)'
  <2>1. o_pc' = "write" => o_pc = "write" /\ o_client \in Client
    BY DEF OobCalls
  <2> QED
    BY <1>3, <1>4, <1>6, <2>1 DEF OobText, LineTaken, Taken, Closed
<1>7. OobBuffer'
  <2>1. ~shrunk' => \E m \in 0..LineLen : OobText(m)'
    BY <1>6 DEF OobBuffer
  <2>2. o_pc' = "write" => asked'[o_client'] # <<>>
    BY DEF OobBuffer
  <2>3. o_pc' = "accept" => o_buf' = Zeroed'
    BY <1>3 DEF OobBuffer
  <2> QED
    BY <1>3, <2>1, <2>2, <2>3 DEF OobBuffer, Bytes
<1> QED
  BY <1>2, <1>5, <1>7

LEMMA OobAccepts == ASSUME OobIInv, Oob!Accept PROVE OobIInv'
<1> USE DEF OobIInv
<1>1. /\ o_pc = "accept" /\ o_pc' = "own" /\ backlog # <<>> /\ o_client' = Head(backlog) /\ open' = TRUE
      /\ backlog' = Tail(backlog)
      /\ UNCHANGED <<client, asked, toServer, answer, o_buf, shrunk, urgent, sigurg>>
  BY DEF Oob!Accept, Oob!TakeNext, Oob!oob
<1>2. NoClient \notin Client /\ MaxLine' = MaxLine /\ Zeroed' = Zeroed /\ MaxLine \in Nat /\ LineLen \in Nat
      /\ \A k \in 1..MaxLine : Zeroed[k] = NUL
  BY EchoServersAssumption, ClientAssumption DEF Oob!OobAssumption, MaxLine, Zeroed
<1>3. /\ o_client' \in Client /\ o_client' \in Range(backlog) /\ Range(backlog') = Range(backlog) \ {o_client'}
      /\ backlog' \in Seq(Client) /\ IsInjective(backlog')
  BY <1>1, QueueTail DEF NetOK, NetTypeOK
<1>4. NetOK'
  <2>1. \A c \in Client : LineOK(c)'
    BY <1>1, LineKept DEF NetOK
  <2> QED
    BY <1>1, <1>3, <2>1 DEF NetOK, NetTypeOK
<1>5. \A c \in Client : OobWaits(c)
  BY <1>1, <1>2 DEF OobCalls
<1>6. OobCalls'
  BY <1>1, <1>3 DEF OobCalls
<1>7. OobServed(o_client)'
  <2>1. Len(answer[o_client']) = 0 /\ answer'[o_client'] = answer[o_client']
    BY <1>1, <1>3, <1>5 DEF OobWaits
  <2>2. asked[o_client'] # <<>> => LineTaken(o_client)' = 0
    <3>1. ASSUME asked[o_client'] # <<>> PROVE Taken(o_client)' = 0
      <4>1. Len(toServer'[o_client']) = MaxLine
        BY <1>1, <1>3, <1>5, <3>1 DEF OobWaits
      <4>2. Taken(o_client)' = MaxLine - Len(toServer'[o_client'])
        BY <1>2 DEF Taken
      <4> QED
        BY <1>2, <4>1, <4>2
    <3> QED
      BY <1>2, <3>1 DEF LineTaken
  <2>3. client'[o_client'] # "new" /\ o_client' \notin Range(backlog')
    BY <1>1, <1>3 DEF NetOK
  <2> QED
    BY <1>1, <1>2, <2>1, <2>2, <2>3 DEF OobServed
<1>8. ASSUME NEW c \in Client, c # o_client' PROVE OobWaits(c)'
  BY <1>1, <1>2, <1>3, <1>5, <1>8 DEF OobWaits
<1>9. OobBuffer'
  <2>1. o_buf' = Zeroed
    BY <1>1 DEF OobBuffer
  <2>2. OobText(0)' /\ 0 \in 0..LineLen
    BY <1>1, <1>2, <2>1 DEF OobText
  <2> QED
    BY <1>1, <1>2, <2>1, <2>2 DEF OobBuffer, Bytes
<1> QED
  BY <1>4, <1>6, <1>7, <1>8, <1>9

\* The read: what comes is written over the front of the buffer.
LEMMA OobReads == ASSUME OobIInv, Oob!Read PROVE OobIInv'
<1> USE DEF OobIInv
<1>1. PICK n \in 1..MaxLine :
        /\ Oob!Take(o_client, n) /\ o_buf' = ReadInto(o_buf, o_client, n)
        /\ shrunk' = (shrunk \/ n < FirstZero(o_buf) - 1)
  BY OobSame DEF Oob!Read, Oob!SelectInSeq, Oob!Min, FirstZero, Min
<1>2. /\ o_pc = "read" /\ o_pc' = "write" /\ UNCHANGED <<o_client, open, urgent, sigurg>>
      /\ o_client \in Client
  BY DEF Oob!Read, Oob!oob, OobCalls
<1> PICK d \in Client : d = o_client
  BY <1>2
<1>3. /\ n \in 1..Len(toServer[d]) /\ n \in Nat /\ d = o_client
      /\ toServer' = [toServer EXCEPT ![d] = SubSeq(@, n + 1, Len(@))]
      /\ UNCHANGED <<client, asked, answer, backlog>>
  BY <1>1, ClientAssumption DEF Oob!Take, MaxLine
<1>4. toServer'[d] = SubSeq(toServer[d], n + 1, Len(toServer[d]))
      /\ \A c \in Client : c # d => toServer'[c] = toServer[c]
  BY <1>3 DEF NetOK, NetTypeOK
<1>5. LineOK(d)' /\ toServer'[d] \in Bytes
  BY <1>3, <1>4, LineRead
<1>6. NetOK'
  <2>1. ASSUME NEW c \in Client PROVE LineOK(c)'
    BY <1>3, <1>4, <1>5, LineKept DEF NetOK
  <2>2. NetTypeOK'
    BY <1>3, <1>4, <1>5 DEF NetOK, NetTypeOK, Bytes
  <2> QED
    BY <1>3, <2>1, <2>2 DEF NetOK, Range
<1>7. o_buf \in Bytes /\ Len(o_buf) = MaxLine /\ o_buf[MaxLine] = NUL
  BY DEF OobBuffer
<1>8. /\ n \in 1..MaxLine /\ asked[d] # <<>> /\ n <= Len(toServer[d])
      /\ Len(toServer'[d]) = Len(toServer[d]) - n
      /\ o_buf' \in Bytes /\ Len(o_buf') = MaxLine
      /\ \A k \in 1..MaxLine : o_buf'[k] = IF k <= n THEN Unit(d, Taken(d) + k, LineLen) ELSE o_buf[k]
  <2> DEFINE rest == SubSeq(toServer[d], n + 1, Len(toServer[d]))
  <2>1. /\ n \in 1..MaxLine /\ asked[d] # <<>> /\ n <= Len(toServer[d])
        /\ Len(rest) = Len(toServer[d]) - n
        /\ ReadInto(o_buf, d, n) \in Bytes /\ Len(ReadInto(o_buf, d, n)) = MaxLine
        /\ \A k \in 1..MaxLine :
             ReadInto(o_buf, d, n)[k] = IF k <= n THEN Unit(d, Taken(d) + k, LineLen) ELSE o_buf[k]
    BY <1>3, <1>7, ReadUnits
  <2>2. rest = toServer'[d] /\ ReadInto(o_buf, d, n) = o_buf'
    BY <1>1, <1>3, <1>4
  <2> HIDE DEF rest
  <2> QED
    BY <2>1, <2>2
<1>9. /\ LineLen \in Nat \ {0} /\ MaxLine \in Nat /\ MaxLine' = MaxLine
      /\ \A k \in 1..LineLen : <<d, k>> # NUL
  BY ClientAssumption DEF MaxLine
<1>10. Len(toServer[d]) \in Nat /\ Len(toServer[d]) <= MaxLine /\ Taken(d) = MaxLine - Len(toServer[d])
  BY NetBytes DEF Taken
<1>11. MaxLine = LineLen + 1
  BY DEF MaxLine
<1>12. Taken(d) \in Nat /\ Taken(d) <= LineLen
  BY <1>8, <1>9, <1>10, <1>11
<1>13. Taken(d)' = Taken(d) + n
  <2>1. Taken(d)' = MaxLine - Len(toServer'[d])
    BY <1>9 DEF Taken
  <2> QED
    BY <1>3, <1>8, <1>9, <1>10, <2>1
<1>14. o_buf'[MaxLine] = NUL
  <2>0. MaxLine \in 1..MaxLine
    BY <1>8, <1>9
  <2>1. CASE MaxLine <= n
    <3>1. Taken(d) = 0
      BY <1>3, <1>8, <1>9, <1>10, <2>1
    <3>2. ~(MaxLine <= LineLen)
      BY <1>9, <1>11
    <3>3. Taken(d) + MaxLine = MaxLine
      BY <1>9, <3>1
    <3>4. o_buf'[MaxLine] = Unit(d, Taken(d) + MaxLine, LineLen)
      BY <1>8, <2>0, <2>1
    <3> QED
      BY <3>2, <3>3, <3>4 DEF Unit
  <2>2. CASE ~(MaxLine <= n)
    BY <1>7, <1>8, <2>0, <2>2
  <2> QED
    BY <2>1, <2>2
<1>15. ASSUME NEW k \in 1..MaxLine, k <= n
       PROVE  /\ Taken(d) + k <= LineLen => Taken(d) + k \in 1..LineLen /\ o_buf'[k] = <<d, Taken(d) + k>> /\ o_buf'[k] # NUL
              /\ ~(Taken(d) + k <= LineLen) => o_buf'[k] = NUL
  <2>1. o_buf'[k] = Unit(d, Taken(d) + k, LineLen)
    BY <1>8, <1>15
  <2>2. CASE Taken(d) + k <= LineLen
    <3>1. Taken(d) + k \in 1..LineLen
      BY <1>9, <1>12, <2>2
    <3> QED
      BY <1>9, <2>1, <2>2, <3>1 DEF Unit
  <2>3. CASE ~(Taken(d) + k <= LineLen)
    BY <2>1, <2>3 DEF Unit
  <2> QED
    BY <2>2, <2>3
<1>16. ASSUME NEW k \in 1..MaxLine
       PROVE  o_buf'[k] = NUL \/ (asked[d] # <<>> /\ \E j \in 1..LineLen : o_buf'[k] = <<d, j>>)
  <2>1. CASE k <= n
    BY <1>8, <1>15, <2>1
  <2>2. CASE ~(k <= n)
    <3>1. o_buf'[k] = o_buf[k]
      BY <1>8, <2>2
    <3> QED
      BY <1>3, <3>1 DEF OobBuffer
  <2> QED
    BY <2>1, <2>2
<1>17. ASSUME ~shrunk' PROVE \E m \in 0..LineLen : OobText(m)'
  <2>1. PICK old \in 0..LineLen : OobText(old)
    <3>1. ~shrunk
      BY <1>1, <1>17, Zenon
    <3> QED
      BY <3>1 DEF OobBuffer
  <2>2. FirstZero(o_buf) = old + 1
    <3>1. old \in Nat /\ old + 1 \in 1..MaxLine /\ old + 1 > old
      BY <1>9, <1>11
    <3>2. o_buf[old + 1] = NUL
      BY <2>1, <3>1 DEF OobText
    <3>3. \A k \in 1..old : o_buf[k] # NUL
      <4>1. \A k \in 1..old : k \in 1..MaxLine /\ ~(k > old)
        BY <1>9, <1>11
      <4> QED
        BY <2>1, <4>1 DEF OobText
    <3> QED
      BY <1>7, <3>1, <3>2, <3>3, TextOf
  <2>3. old <= n
    <3>1. ~(n < (old + 1) - 1)
      BY <1>1, <1>17, <2>2, Zenon
    <3> QED
      BY <1>3, <1>9, <3>1
  <2> DEFINE m == IF Taken(d) + n <= LineLen THEN n ELSE LineLen - Taken(d)
  <2>4. m \in 0..LineLen /\ m <= n /\ m \in Nat
    BY <1>3, <1>9, <1>12
  <2>5. ASSUME NEW k \in 1..MaxLine PROVE o_buf'[k] = NUL <=> k > m
    <3>1. CASE k <= n
      <4>1. Taken(d) + k <= LineLen <=> ~(k > m)
        BY <1>3, <1>9, <1>12, <3>1
      <4> HIDE DEF m
      <4> QED
        BY <1>15, <3>1, <4>1
    <3>2. CASE ~(k <= n)
      <4>1. k > m /\ k > old
        BY <1>3, <1>9, <2>3, <2>4, <3>2
      <4> HIDE DEF m
      <4>2. o_buf'[k] = o_buf[k] /\ o_buf[k] = NUL
        BY <1>8, <2>1, <3>2, <4>1 DEF OobText
      <4> QED
        BY <4>1, <4>2
    <3> QED
      BY <3>1, <3>2
  <2>6. ASSUME ~Closed(d)
        PROVE  /\ Len(answer[d]) + m = LineTaken(d)'
               /\ \A k \in 1..m : o_buf'[k] = <<d, Len(answer[d]) + k>>
    <3>1. Len(answer[d]) = Taken(d)
      <4>1. ~shrunk
        BY <1>1, <1>17, Zenon
      <4>2. Len(answer[d]) = LineTaken(d)
        BY <1>2, <1>3, <1>8, <2>6, <4>1 DEF OobServed
      <4> QED
        BY <1>12, <4>2 DEF LineTaken
    <3>2. LineTaken(d)' = IF Taken(d) + n <= LineLen THEN Taken(d) + n ELSE LineLen
      BY <1>13 DEF LineTaken
    <3>3. Taken(d) + m = LineTaken(d)'
      BY <1>3, <1>9, <1>12, <3>2
    <3>4. ASSUME NEW k \in 1..m PROVE o_buf'[k] = <<d, Taken(d) + k>>
      <4>1. k \in 1..MaxLine /\ k <= n /\ Taken(d) + k <= LineLen
        BY <1>3, <1>8, <1>9, <1>12, <2>4
      <4> HIDE DEF m
      <4> QED
        BY <1>15, <4>1
    <3> HIDE DEF m
    <3> QED
      BY <3>1, <3>3, <3>4
  <2>7. PICK t \in 0..LineLen : t = m
    BY <2>4
  <2> HIDE DEF m
  <2>8. OobText(t)'
    <3>1. Closed(d)' = Closed(d)
      BY <1>3 DEF Closed
    <3> QED
      BY <1>2, <1>3, <1>9, <2>5, <2>6, <2>7, <3>1 DEF OobText, Closed, LineTaken, Taken
  <2> QED
    BY <2>8
<1>18. OobBuffer'
  BY <1>2, <1>3, <1>8, <1>9, <1>14, <1>16, <1>17 DEF OobBuffer, Bytes
<1>19. OobCalls'
  <2>1. shrunk' \in BOOLEAN
    BY <1>1
  <2> QED
    BY <1>2, <2>1 DEF OobCalls
<1>20. ASSUME NEW c \in Client, c # o_client PROVE OobWaits(c)'
  BY <1>2, <1>3, <1>4, <1>9, <1>20 DEF OobWaits, Range
<1>21. OobServed(d)'
  <2>1. ~shrunk' => ~shrunk
    BY <1>1, Zenon
  <2>2. OobServed(d)
    BY <1>3
  <2> QED
    BY <1>2, <1>3, <2>1, <2>2 DEF OobServed, Range
<1> QED
  BY <1>2, <1>3, <1>6, <1>18, <1>19, <1>20, <1>21

\* The text of a buffer that ends with a zero.
LEMMA FirstNul ==
  ASSUME NEW b \in Bytes, Len(b) = MaxLine, b[MaxLine] = NUL
  PROVE  \E m \in 0..LineLen : b[m + 1] = NUL /\ \A k \in 1..m : b[k] # NUL
<1>1. LineLen \in Nat \ {0}
  BY ClientAssumption
<1>2. MaxLine = LineLen + 1
  BY DEF MaxLine
<1> DEFINE S == {m \in 0..LineLen : b[m + 1] = NUL}
<1>3. LineLen \in S /\ S \subseteq Nat
  BY <1>1, <1>2
<1>4. \E m \in S : \A k \in S : <<k, m>> \notin OpToRel(<, Nat)
  BY <1>3, NatLessThanWellFounded, WFMin
<1>5. \A k, m \in S : <<k, m>> \notin OpToRel(<, Nat) => m <= k
  BY <1>3 DEF OpToRel
<1>6. PICK m \in S : \A k \in S : m <= k
  BY <1>4, <1>5
<1>7. ASSUME NEW k \in 1..m, b[k] = NUL PROVE FALSE
  <2>1. k - 1 \in 0..LineLen /\ (k - 1) + 1 = k /\ ~(m <= k - 1)
    BY <1>1, <1>3, <1>6
  <2>2. k - 1 \in S
    BY <1>7, <2>1
  <2> QED
    BY <1>6, <2>1, <2>2
<1> QED
  BY <1>6, <1>7

\* The write of the buffer's text.
LEMMA OobWrites == ASSUME OobIInv, Oob!Write PROVE OobIInv'
<1> USE DEF OobIInv
<1>1. /\ o_pc = "write" /\ o_pc' = "read" /\ ~sigurg
      /\ UNCHANGED <<o_client, o_buf, shrunk, urgent, sigurg, client, asked, toServer, backlog>>
      /\ open' = (UpToNul(o_buf) # <<>>)
      /\ answer' = IF Closed(o_client) THEN answer ELSE [answer EXCEPT ![o_client] = @ \o UpToNul(o_buf)]
  BY OobSame DEF Oob!Write, Oob!Give, Oob!Text, Oob!oob
<1>2. o_client \in Client /\ asked[o_client] # <<>>
  BY <1>1 DEF OobCalls, OobBuffer
<1> PICK d \in Client : d = o_client
  BY <1>2
<1>3. /\ LineLen \in Nat \ {0} /\ MaxLine \in Nat /\ MaxLine' = MaxLine /\ Zeroed' = Zeroed
      /\ \A k \in 0..LineLen : k \in Nat /\ k + 1 \in 1..MaxLine
      /\ \A m \in 0..LineLen : \A k \in 1..m : k \in 1..MaxLine /\ ~(k > m)
  BY ClientAssumption DEF MaxLine, Zeroed
<1>4. o_buf \in Bytes /\ Len(o_buf) = MaxLine /\ o_buf[MaxLine] = NUL
  BY DEF OobBuffer
<1>5. PICK m \in 0..LineLen : o_buf[m + 1] = NUL /\ \A k \in 1..m : o_buf[k] # NUL
  BY <1>4, FirstNul
<1>6. /\ UpToNul(o_buf) \in Bytes /\ Len(UpToNul(o_buf)) = m
      /\ \A k \in 1..m : UpToNul(o_buf)[k] = o_buf[k]
  BY <1>3, <1>4, <1>5, TextOf
<1>7. answer \in [Client -> Bytes] /\ answer[d] \in Bytes /\ Len(answer[d]) \in Nat
  BY NetBytes DEF NetOK, NetTypeOK, Bytes
<1>8. /\ answer[d] \o UpToNul(o_buf) \in Bytes /\ Len(answer[d] \o UpToNul(o_buf)) = Len(answer[d]) + m
      /\ \A k \in 1 .. Len(answer[d]) + m :
           (answer[d] \o UpToNul(o_buf))[k] = IF k <= Len(answer[d]) THEN answer[d][k]
                                              ELSE UpToNul(o_buf)[k - Len(answer[d])]
  BY <1>6, <1>7, BytesConcat
<1>9. /\ answer' \in [Client -> Bytes]
      /\ \A c \in Client : c # d => answer'[c] = answer[c]
      /\ answer'[d] = IF Closed(d) THEN answer[d] ELSE answer[d] \o UpToNul(o_buf)
  BY <1>1, <1>7, <1>8
<1>10. NetOK'
  <2>1. ASSUME NEW c \in Client PROVE LineOK(c)'
    <3>1. asked[c] # <<>> \/ answer'[c] = answer[c]
      BY <1>2, <1>9
    <3> QED
      BY <1>1, <3>1, LineKept DEF NetOK
  <2>2. NetTypeOK'
    BY <1>1, <1>9 DEF NetOK, NetTypeOK, Bytes
  <2> QED
    BY <1>1, <2>1, <2>2 DEF NetOK, Range
<1>11. OobCalls'
  BY <1>1 DEF OobCalls
<1>12. OobBuffer'
  <2>1. ~shrunk' => \E t \in 0..LineLen : OobText(t)'
    BY <1>1, <1>3 DEF OobBuffer, OobText
  <2> QED
    BY <1>1, <1>3, <2>1 DEF OobBuffer, Bytes
<1>13. ASSUME NEW c \in Client, c # o_client PROVE OobWaits(c)'
  BY <1>1, <1>3, <1>9, <1>13 DEF OobWaits, Range
<1>14. OobServed(d)'
  <2>1. OobServed(d) /\ client'[d] # "new" /\ d \notin Range(backlog')
    BY <1>1 DEF OobServed
  <2>2. CASE Closed(d)
    <3>1. answer'[d] = answer[d] /\ Closed(d)'
      BY <1>1, <1>9, <2>2 DEF Closed
    <3> QED
      BY ZenonT(60), <1>1, <2>1, <3>1 DEF OobServed
  <2>3. CASE ~Closed(d)
    <3> DEFINE old == Len(answer[d])
    <3>0. /\ Len(answer'[d]) = old + m /\ old \in Nat /\ m \in Nat
          /\ \A k \in 1 .. old + m : answer'[d][k] = IF k <= old THEN answer[d][k] ELSE UpToNul(o_buf)[k - old]
      BY <1>3, <1>7, <1>8, <1>9, <2>3
    <3>1. ASSUME NEW k \in 1 .. old + m
          PROVE  /\ k <= old => k \in 1..old /\ answer'[d][k] = answer[d][k]
                 /\ ~(k <= old) => k - old \in 1..m /\ old + (k - old) = k /\ answer'[d][k] = o_buf[k - old]
      <4>1. CASE k <= old
        BY <3>0, <4>1
      <4>2. CASE ~(k <= old)
        <5>1. k - old \in 1..m /\ old + (k - old) = k
          BY <3>0, <4>2
        <5> QED
          BY <1>6, <3>0, <4>2, <5>1
      <4> QED
        BY <4>1, <4>2
    <3> HIDE DEF old
    <3>2. \A k \in 1..m : \E j \in 1..LineLen : o_buf[k] = <<d, j>>
      BY <1>1, <1>3, <1>5 DEF OobBuffer
    <3>3. \A k \in 1..Len(answer'[d]) : \E j \in 1..LineLen : answer'[d][k] = <<d, j>>
      <4> SUFFICES ASSUME NEW k \in 1 .. old + m PROVE \E j \in 1..LineLen : answer'[d][k] = <<d, j>>
        BY <3>0
      <4>1. CASE k <= old
        BY SMTT(30), <2>1, <3>1, <4>1 DEF OobServed, old
      <4>2. CASE ~(k <= old)
        BY <3>1, <3>2, <4>2
      <4> QED
        BY <4>1, <4>2
    <3>4. ASSUME ~shrunk
          PROVE  /\ Len(answer'[d]) = LineTaken(d) /\ Len(answer'[d]) <= LineLen
                 /\ \A k \in 1..Len(answer'[d]) : answer'[d][k] = <<d, k>>
      <4>1. PICK t \in 0..LineLen : OobText(t)
        BY <3>4 DEF OobBuffer
      <4>2. t = m
        <5>1. m + 1 \in 1..MaxLine /\ t \in Nat /\ m \in Nat /\ \A k \in 1..m : k \in 1..MaxLine
          BY <1>3
        <5>2. m + 1 > t
          BY <1>5, <4>1, <5>1 DEF OobText
        <5>3. \A k \in 1..m : ~(k > t)
          BY <1>5, <4>1, <5>1 DEF OobText
        <5> QED
          BY <5>1, <5>2, <5>3
      <4>3. old + m = LineTaken(d) /\ \A k \in 1..m : o_buf[k] = <<d, old + k>>
        BY <1>1, <2>3, <4>1, <4>2 DEF OobText, old
      <4>4. LineTaken(d) <= LineLen
        <5>1. Taken(d) \in Int /\ LineLen \in Int
          BY NetBytes
        <5> QED
          BY <5>1 DEF LineTaken
      <4>5. \A k \in 1..old : answer[d][k] = <<d, k>>
        BY <2>1, <3>4 DEF OobServed, old
      <4>6. ASSUME NEW k \in 1 .. old + m PROVE answer'[d][k] = <<d, k>>
        <5>1. CASE k <= old
          BY <3>1, <4>5, <5>1
        <5>2. CASE ~(k <= old)
          BY <3>1, <4>3, <5>2
        <5> QED
          BY <5>1, <5>2
      <4> QED
        BY <3>0, <4>3, <4>4, <4>6
    <3>5. LineTaken(d)' = LineTaken(d)
      BY <1>1, <1>3 DEF LineTaken, Taken
    <3> QED
      BY <1>1, <2>1, <3>3, <3>4, <3>5 DEF OobServed
  <2> QED
    BY <2>2, <2>3
<1> QED
  BY <1>1, <1>10, <1>11, <1>12, <1>13, <1>14

\* The invariant of the third server is inductive.
LEMMA OobNext ==
  ASSUME OobIInv, Oob!Next \/ UNCHANGED o_vars PROVE OobIInv'
<1>1. OobCalls
  BY DEF OobIInv
<1>2. CASE Oob!Own \/ Oob!Handler
  <2>1. /\ UNCHANGED <<client, asked, toServer, answer, backlog, o_client, o_buf, shrunk, open>>
        /\ o_pc' = o_pc \/ (o_pc = "own" /\ o_pc' = "read")
        /\ \/ UNCHANGED <<urgent, sigurg>>
           \/ /\ sigurg /\ sigurg' = FALSE
              /\ \E fate \in Oob!Fate : urgent' = [urgent EXCEPT ![o_client] = fate]
    BY <1>2 DEF Oob!Own, Oob!Handler, Oob!Fetched, Oob!Fate, Oob!net, Oob!oob, Oob!server
  <2>2. OobCalls'
    <3>1. CASE UNCHANGED <<urgent, sigurg>>
      BY <1>1, <2>1, <3>1 DEF OobCalls
    <3>2. CASE sigurg' = FALSE /\ \E fate \in Oob!Fate : urgent' = [urgent EXCEPT ![o_client] = fate]
      <4>1. urgent' \in [Client -> Oob!Fate]
        BY <1>1, <3>2 DEF OobCalls
      <4> QED
        BY <1>1, <2>1, <3>2, <4>1 DEF OobCalls
    <3> QED
      BY <2>1, <3>1, <3>2
  <2> QED
    BY <2>1, <2>2, OobQuiet
<1>3. CASE Oob!ReadEnd
  <2>1. /\ UNCHANGED <<client, asked, toServer, answer, backlog, o_client, o_buf, shrunk, urgent, sigurg>>
        /\ o_pc = "read" /\ o_pc' = "read" /\ ~sigurg /\ open' = FALSE
    BY <1>3 DEF Oob!ReadEnd, Oob!AfterEnd, Oob!net, Oob!oob
  <2>2. OobCalls'
    BY <1>1, <2>1 DEF OobCalls
  <2> QED
    BY <2>1, <2>2, OobQuiet
<1>4. CASE Oob!BrokenPipe
  <2>1. /\ UNCHANGED <<client, asked, toServer, answer, o_client, o_buf, shrunk, urgent, sigurg>>
        /\ o_pc = "write" /\ o_pc' = "dead" /\ ~sigurg /\ open' = FALSE /\ backlog' = <<>>
    BY <1>4 DEF Oob!BrokenPipe, Oob!oob
  <2>2. OobCalls'
    BY <1>1, <2>1 DEF OobCalls
  <2> QED
    BY <2>1, <2>2, OobQuiet
<1>5. ASSUME NEW c \in Client, Oob!Urgent(c) \/ Oob!UrgentByte(c) PROVE OobIInv'
  <2>1. /\ UNCHANGED <<client, asked, toServer, answer, backlog, o_pc, o_client, o_buf, shrunk, open>>
        /\ \/ /\ c = o_client /\ open /\ sigurg' = TRUE
              /\ \E fate \in {"noticed", "arrived"} : urgent' = [urgent EXCEPT ![c] = fate]
           \/ /\ urgent[c] = "none" /\ sigurg' = sigurg
              /\ urgent' = [urgent EXCEPT ![c] = "early"]
           \/ sigurg' = sigurg /\ urgent' = [urgent EXCEPT ![c] = "arrived"]
    <3>1. CASE Oob!UrgentByte(c)
      BY <3>1 DEF Oob!UrgentByte, Oob!net, Oob!server
    <3>2. CASE Oob!Urgent(c) /\ Oob!Owned(c)
      <4>1. sigurg' = (sigurg \/ Oob!Owned(c))
        BY <3>2 DEF Oob!Urgent
      <4>2. sigurg' = TRUE
        BY <3>2, <4>1
      <4> QED
        BY <3>2, <4>2 DEF Oob!Urgent, Oob!Owned, Oob!net, Oob!server
    <3>3. CASE Oob!Urgent(c) /\ ~Oob!Owned(c)
      <4>1. sigurg' = (sigurg \/ Oob!Owned(c))
        BY <3>3 DEF Oob!Urgent
      <4>2. sigurg' = sigurg
        BY <1>1, <3>3, <4>1 DEF OobCalls
      <4> QED
        BY <3>3, <4>2 DEF Oob!Urgent, Oob!net, Oob!server
    <3> QED
      BY <1>5, <3>1, <3>2, <3>3
  <2>2. urgent' \in [Client -> Oob!Fate] /\ sigurg' \in BOOLEAN
    BY <1>1, <2>1 DEF OobCalls, Oob!Fate
  <2>3. sigurg => o_client \in Client /\ open /\ urgent[o_client] \in {"noticed", "arrived"}
    BY <1>1 DEF OobCalls
  <2>4. sigurg' => urgent'[o_client] \in {"noticed", "arrived"} /\ open
    BY <1>1, <2>1, <2>3 DEF OobCalls
  <2>5. OobCalls'
    BY <1>1, <2>1, <2>2, <2>4 DEF OobCalls
  <2> QED
    BY <2>1, <2>5, OobQuiet
<1>6. CASE UNCHANGED o_vars
  <2>1. UNCHANGED <<client, asked, toServer, answer, backlog, o_pc, o_client, open, o_buf, shrunk, urgent, sigurg>>
    BY <1>6 DEF o_vars, net, o_server
  <2>2. OobCalls'
    BY <1>1, <2>1 DEF OobCalls
  <2> QED
    BY <2>1, <2>2, OobQuiet
<1>7. ASSUME NEW c \in Client, Oob!ClientReads(c) \/ Oob!UserActs(c) PROVE OobIInv'
  BY <1>7, OobClients, OobClientActs
<1> QED
  BY <1>2, <1>3, <1>4, <1>5, <1>6, <1>7, OobAccepts, OobReads, OobWrites DEF Oob!Next, Oob!Serve

(* The three together. *)

\* Of the program that runs, its invariant; the others have done nothing.
EchoIInv ==
  /\ program \in {"echo_server", "echo_server_nonblocking", "echo_server_oob"}
  /\ program = "echo_server" => IterativeIInv
  /\ program = "echo_server_nonblocking" => PollingIInv
  /\ program = "echo_server_oob" => OobIInv
  /\ program # "echo_server_nonblocking" => fdtab = [fd \in Polling!Fd |-> NoClient]
  /\ program # "echo_server_oob" => o_client = NoClient

LEMMA EchoInitHolds == EchoInit => EchoIInv
<1> SUFFICES ASSUME EchoInit PROVE EchoIInv
  OBVIOUS
<1>1. NetInit /\ i_pc = "accept" /\ i_client = NoClient /\ i_buf = Zeroed
  BY IterativeSame DEF EchoInit, Iterative!Init
<1>2. Polling!ServerInit /\ fdtab = [fd \in Polling!Fd |-> NoClient]
  BY DEF EchoInit, Polling!ServerInit
<1>3. Oob!ServerInit /\ o_client = NoClient
  BY DEF EchoInit, Oob!ServerInit
<1> QED
  BY <1>1, <1>2, <1>3, IterativeInit, PollingInit, OobInit DEF EchoInit, EchoIInv

LEMMA EchoStepHolds == EchoIInv /\ [EchoNext]_servers => EchoIInv'
<1> SUFFICES ASSUME EchoIInv, [EchoNext]_servers PROVE EchoIInv'
  OBVIOUS
<1> USE DEF EchoIInv
<1>1. /\ program' = program
      /\ program # "echo_server_nonblocking" => fdtab' = fdtab
      /\ program # "echo_server_oob" => o_client' = o_client
  BY DEF EchoNext, servers, p_server, o_server
<1>2. Polling!Fd' = Polling!Fd
  BY DEF Polling!Fd
<1>3. CASE program = "echo_server"
  <2>1. Iterative!Next \/ UNCHANGED i_vars
    BY <1>3 DEF EchoNext, servers, i_vars
  <2> QED
    BY <1>1, <1>2, <1>3, <2>1, IterativeNext
<1>4. CASE program = "echo_server_nonblocking"
  <2>1. Polling!Next \/ UNCHANGED p_vars
    BY <1>4 DEF EchoNext, servers, p_vars
  <2> QED
    BY <1>1, <1>4, <2>1, PollingNext
<1>5. CASE program = "echo_server_oob"
  <2>1. Oob!Next \/ UNCHANGED o_vars
    BY <1>5 DEF EchoNext, servers, o_vars
  <2> QED
    BY <1>1, <1>2, <1>5, <2>1, OobNext
<1> QED
  BY <1>3, <1>4, <1>5

\* Whichever of the three servers runs: its variables have their types; the
\* polling one's buffer has only bytes of this round, and its clients their own
\* answer while TCP cuts nothing; the third echoes exactly until a piece is
\* shorter than one before it, and its handler runs on an open connection with
\* an urgent byte that nobody has asked for yet.
THEOREM ServersSafety == EchoSpec => []ServersInv
<1>1. EchoIInv => ServersInv
  BY OobInvHolds DEF EchoIInv, ServersInv, IterativeIInv, PollingIInv
<1> QED
  BY <1>1, EchoInitHolds, EchoStepHolds, PTL DEF EchoSpec

\* The iterative server implements the echo service: what its client prints is
\* the beginning of its own line, wherever TCP cuts it and whoever came before.
THEOREM IterativeRefinement == EchoSpec => IterativeImplementsEcho
<1>1. EchoInit => IterativeEcho!Init
  <2> SUFFICES ASSUME EchoInit PROVE IterativeEcho!Init
    OBVIOUS
  <2>1. asked = [c \in Client |-> <<>>] /\ answer = [c \in Client |-> <<>>]
    BY IterativeSame DEF EchoInit, Iterative!Init, NetInit
  <2>2. Iterative!Printed = [c \in Client |-> <<>>]
    <3>1. Iterative!UpToNul(<<>>) = SubSeq(<<>>, 1, 0 - 1)
      BY DEF Iterative!UpToNul, Iterative!SelectInSeq
    <3>2. SubSeq(<<>>, 1, 0 - 1) = <<>>
      OBVIOUS
    <3> QED
      BY <2>1, <3>1, <3>2 DEF Iterative!Printed
  <2> QED
    BY <2>1, <2>2 DEF IterativeEcho!Init, Untouched
<1>2. ASSUME EchoIInv, [EchoNext]_servers
      PROVE  \/ \E c \in Client : IterativeEcho!Ask(c) \/ IterativeEcho!Answer(c)
             \/ UNCHANGED <<IF program = "echo_server" THEN asked ELSE Untouched,
                            IF program = "echo_server" THEN Iterative!Printed ELSE Untouched>>
  <2>1. program' = program /\ Untouched' = Untouched
    BY <1>2 DEF EchoNext, servers, Untouched
  <2>2. CASE program # "echo_server"
    BY <2>1, <2>2
  <2>3. CASE program = "echo_server"
    <3>1. Iterative!Next \/ UNCHANGED i_vars
      BY <1>2, <2>3 DEF EchoNext, servers, i_vars
    <3>2. \/ UNCHANGED <<asked, Iterative!Printed>>
          \/ \E c \in Client :
               \/ /\ asked[c] = <<>> /\ asked' = [asked EXCEPT ![c] = Line(c)]
                  /\ UNCHANGED Iterative!Printed
               \/ /\ UNCHANGED asked
                  /\ \E n \in Len(Iterative!Printed[c]) + 1 .. Len(asked[c]) :
                       Iterative!Printed' = [Iterative!Printed EXCEPT ![c] = SubSeq(asked[c], 1, n)]
      BY <1>2, <2>3, <3>1, IterativeStep DEF EchoIInv
    <3>3. \A c : IterativeEcho!Line(c) = Line(c)
      BY DEF IterativeEcho!Line, Line
    <3> QED
      BY <2>1, <2>3, <3>2, <3>3 DEF IterativeEcho!Ask, IterativeEcho!Answer
  <2> QED
    BY <2>2, <2>3
<1> QED
  BY <1>1, <1>2, EchoInitHolds, EchoStepHolds, PTL DEF EchoSpec, IterativeImplementsEcho, IterativeEcho!Spec

\* Once the polling server has given away its last descriptor it stays so: nobody
\* is answered again and no descriptor is given back.
THEOREM PollingWedged == EchoSpec => Polling!WedgedForGood
<1>1. ASSUME EchoIInv, [EchoNext]_servers, Polling!Wedged
      PROVE  Polling!Wedged' /\ UNCHANGED <<fdtab, answer>>
  <2>1. program = "echo_server_nonblocking"
    <3>1. 1 \in Polling!Fd
      BY EchoServersAssumption DEF Polling!PollAssumption, Polling!Fd
    <3> QED
      BY <1>1, <3>1 DEF EchoIInv, Polling!Wedged, Polling!Free
  <2>2. p_pc # "scan" /\ Polling!Free = {}
    BY <1>1, <2>1 DEF Polling!Wedged, EchoIInv, PollingIInv, Polling!Inv, Polling!ReadsBelowLimit
  <2>3. Polling!Next \/ UNCHANGED p_vars
    BY <1>1, <2>1 DEF EchoNext, servers, p_vars
  <2>4. ~Polling!Serve /\ ~Polling!Killed
    BY <2>2 DEF Polling!Serve, Polling!Accept, Polling!StartRound, Polling!AcceptSettled,
                Polling!EndRound, Polling!Poll, Polling!Killed
  <2>5. UNCHANGED <<fdtab, answer>>
    <3>1. CASE UNCHANGED p_vars
      BY <3>1 DEF p_vars, net, p_server
    <3>2. ASSUME NEW c \in Client, ClientActs(c), UNCHANGED p_server
          PROVE  UNCHANGED <<fdtab, answer>>
      BY <3>2 DEF ClientActs, Connect, ReadAnswer, Ask, HangUp, p_server
    <3> QED
      BY <2>3, <2>4, <3>1, <3>2, PollingClients DEF Polling!Next
  <2> QED
    BY <2>2, <2>5 DEF Polling!Wedged, Polling!Free, Polling!Fd
<1> QED
  BY <1>1, EchoInitHolds, EchoStepHolds, PTL DEF EchoSpec, Polling!WedgedForGood

\* The server of the urgent bytes serves its first client and never another: no
\* byte is written to the others, and none of them sees the end of its
\* connection while the server runs.
THEOREM OobServesOne == EchoSpec => Oob!FirstOnly
<1>1. ASSUME EchoIInv, [EchoNext]_servers, o_client # NoClient
      PROVE  /\ o_client' = o_client
             /\ \A c \in Client \ {o_client} :
                  answer'[c] = answer[c] /\ (client'[c] = "closed" /\ client[c] # "closed" => o_pc = "dead")
  <2>1. program = "echo_server_oob" /\ OobIInv /\ (Oob!Next \/ UNCHANGED o_vars)
    BY <1>1 DEF EchoIInv, EchoNext, servers, o_vars
  <2>2. o_pc # "accept" /\ o_client \in Client /\ answer \in [Client -> Bytes]
    BY <1>1, <2>1 DEF OobIInv, OobCalls, NetOK, NetTypeOK, Bytes
  <2>3. CASE Oob!Serve \/ Oob!BrokenPipe \/ UNCHANGED o_vars
    BY <2>2, <2>3 DEF Oob!Serve, Oob!Accept, Oob!Own, Oob!Handler, Oob!Read, Oob!Take, Oob!ReadEnd, Oob!Write,
                      Oob!Give, Oob!BrokenPipe, Oob!net, Oob!server, Oob!oob, o_vars, o_server, net
  <2>4. ASSUME NEW d \in Client, Oob!Urgent(d) \/ Oob!UrgentByte(d)
        PROVE  UNCHANGED <<o_client, answer, client>>
    BY <2>4 DEF Oob!Urgent, Oob!UrgentByte, Oob!net, Oob!server
  <2>5. ASSUME NEW d \in Client, Oob!UserActs(d)
        PROVE  UNCHANGED <<o_client, answer>> /\ \A c \in Client : client'[c] = "closed" => client[c] = "closed"
    BY <2>1, <2>5 DEF Oob!UserActs, Oob!Connect, Oob!Ask, Oob!HangUp, Oob!server, OobIInv, NetOK, NetTypeOK
  <2>6. ASSUME NEW d \in Client, Oob!ClientReads(d)
        PROVE  /\ UNCHANGED <<o_client, answer>>
               /\ \A c \in Client \ {o_client} : client'[c] = "closed" /\ client[c] # "closed" => o_pc = "dead"
    <3>1. /\ UNCHANGED <<o_client, answer>> /\ client[d] = "waiting" /\ (answer[d] # <<>> \/ Oob!Gone(d))
          /\ client' = [client EXCEPT ![d] = "closed"]
      BY <2>6 DEF Oob!ClientReads, Oob!ReadAnswer, Oob!server
    <3>2. d # o_client => o_pc = "dead"
      <4>1. Oob!Range(backlog) = Range(backlog)
        BY DEF Oob!Range, Range
      <4> QED
        BY <2>1, <3>1, <4>1 DEF OobIInv, OobWaits, Oob!Gone
    <3> QED
      BY <2>1, <3>1, <3>2 DEF OobIInv, NetOK, NetTypeOK
  <2> QED
    BY <2>1, <2>3, <2>4, <2>5, <2>6 DEF Oob!Next
<1> QED
  BY <1>1, EchoInitHolds, EchoStepHolds, PTL DEF EchoSpec, Oob!FirstOnly
=============================================================================
