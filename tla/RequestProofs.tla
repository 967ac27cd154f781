---------------------------- MODULE RequestProofs ----------------------------
(***************************************************************************)
(* Proofs about the servers that answer a request per connection or        *)
(* datagram, for every number of clients, files and blocks, and every      *)
(* bound on faults.                                                        *)
(*                                                                         *)
(* FileServer: the invariant follows each block, an upload from the client *)
(* through the connection to its position in the file, a download from the *)
(* file through the child and the connection to where it is saved.         *)
(*                                                                         *)
(* WebServer: by where a child is one knows what it has read and written,  *)
(* and, while nobody edits the files, what it still has to write.          *)
(*                                                                         *)
(* UdpCalculator: the datagrams of a client are counted; its questions and *)
(* answers on their way are what it waits for, plus what was duplicated,   *)
(* less what was lost.                                                     *)
(*                                                                         *)
(* TcpCalculator: the two low bytes of an int that was turned round are    *)
(* its two high ones; the struct and the result are those of the client    *)
(* before.                                                                 *)
(***************************************************************************)
EXTENDS FileServer, Requests, QueueLemmas, FiniteSetTheorems

-----------------------------------------------------------------------------
(* The file server. *)


\* The contents of files, and of connections after the query.
Block == (Client \cup {Server}) \X Nat
Content == Seq(Block)

\* Types of what TypeOK leaves open.
DataOK ==
  /\ up \in [Client -> Seq({Query} \cup Block)] /\ down \in [Client -> Content]
  /\ local \in [Client -> Content]
  /\ block \in [Client -> Content] /\ before \in [Client -> Content]
  /\ \A c \in Client : Len(block[c]) <= 1

\* A connection has at most one child, which the parent forks while it has the
\* connection open.
Forked ==
  /\ parent = "fork" =>
       cur \in held /\ cur \notin Range(backlog) /\ child[cur] = "none" /\ client[cur] # "new"
  /\ \A c \in Client : client[c] = "new" => c \notin Range(backlog)
  /\ \A c \in Client : client[c] = "new" \/ c \in Range(backlog) => child[c] = "none"

Waiting(c) == child[c] \in {"none", "query"}

\* How far the client and its child have come together.
Stage(c) ==
  /\ client[c] \in {"new", "open"} => up[c] = <<>> /\ sent[c] = 0 /\ off[c] = -1
  /\ client[c] = "send" => request[c].command = "upload"
  /\ client[c] = "recv" => request[c].command \in {"download", "list"}
  /\ client[c] \in {"send", "recv"} /\ Waiting(c) /\ Open(c) => up[c] # <<>>
  /\ Waiting(c) => off[c] = -1 /\ block[c] = <<>> /\ down[c] = <<>> /\ got[c] = 0
  /\ child[c] \in {"upload", "download", "list"} => child[c] = request[c].command
  /\ child[c] \in {"upload", "download", "list", "saved", "sent"} => off[c] # -1
  /\ child[c] = "saved" => request[c].command = "upload" /\ Ended(c)
  /\ child[c] = "sent" => request[c].command # "upload"
  /\ child[c] = "sleep" /\ off[c] # -1 => request[c].command = "upload" \/ Ended(c)
  /\ off[c] # -1 => request[c].command = "list" \/ (request[c].command # "none" /\ Found(c))

\* Where the query and each block of an upload are: in the connection, in this
\* order, or in the file at their own position; until the server closes the
\* connection before a child is forked for it.
UploadOK(c) ==
  /\ Waiting(c) /\ Open(c) /\ up[c] = <<>> => sent[c] = 0
  /\ Waiting(c) /\ Open(c) /\ up[c] # <<>> =>
       /\ request[c].command # "none" /\ Len(up[c]) = sent[c] + 1
       /\ \A k \in 1..sent[c] : up[c][k + 1] = <<c, k>>
  /\ child[c] = "upload" =>
       /\ Len(up[c]) = sent[c] - off[c]
       /\ \A k \in 1..Len(up[c]) : up[c][k] = <<c, off[c] + k>>
  /\ Opened(c, "upload") => off[c] <= Size /\ off[c] <= Len(File(c))
  /\ client[c] = "done" /\ request[c].command = "upload" => sent[c] = Size
  /\ Opened(c, "upload") /\ ~overlap[c] =>
       File(c) = Overlaid(before[c], SubSeq(Mine(c), 1, off[c]))
  /\ child[c] = "saved" /\ client[c] = "done" => off[c] = Size

\* Where each block of a download is: in the file, with the child, in the
\* connection or saved; and that all of them are saved at the end.
DownloadOK(c) ==
  /\ request[c].command = "download" => got[c] <= Len(local[c])
  /\ client[c] = "done" /\ request[c].command = "download" => ~Open(c)
  /\ Opened(c, "download") => off[c] <= Len(File(c))
  /\ Opened(c, "download") /\ ~overlap[c] =>
       /\ File(c) = before[c]
       /\ child[c] \in {"sent", "gone"} /\ ~Ended(c) /\ faults = 0 =>
            off[c] = Len(before[c]) /\ block[c] = <<>>
       /\ ~Ended(c) => SubSeq(local[c], 1, got[c]) \o down[c] \o block[c] = SubSeq(before[c], 1, off[c])
       /\ client[c] = "done" /\ faults = 0 => got[c] = Len(before[c])

Served(c) == Stage(c) /\ UploadOK(c) /\ DownloadOK(c)

BlocksInPlace ==
  \A n \in Stored : \A k \in DOMAIN files[n] :
    \/ files[n][k] = <<Server, k>> /\ k <= OldSize[n]
    \/ \E c \in Client :
         Opened(c, "upload") /\ request[c].name = n /\ files[n][k] = <<c, k>> /\ k <= Size

IInv == TypeOK /\ DataOK /\ Forked /\ (\A c \in Client : Served(c)) /\ BlocksInPlace

-----------------------------------------------------------------------------
(* Contents. *)

\* Two contents of the same blocks are one.
LEMMA ContentEqual ==
  ASSUME NEW s \in Content, NEW t \in Content, Len(s) = Len(t), \A k \in 1..Len(s) : s[k] = t[k]
  PROVE  s = t
BY SeqEqual DEF Content

\* One content after the other.
LEMMA ContentConcat ==
  ASSUME NEW s \in Content, NEW t \in Content
  PROVE  /\ s \o t \in Content /\ Len(s) \in Nat /\ Len(t) \in Nat /\ Len(s \o t) = Len(s) + Len(t)
         /\ \A k \in 1 .. Len(s) + Len(t) : (s \o t)[k] = IF k <= Len(s) THEN s[k] ELSE t[k - Len(s)]
BY ConcatProperties DEF Content

\* The beginning of a content.
LEMMA ContentPrefix ==
  ASSUME NEW s \in Content, NEW n \in 0..Len(s)
  PROVE  /\ SubSeq(s, 1, n) \in Content /\ Len(SubSeq(s, 1, n)) = n
         /\ \A k \in 1..n : SubSeq(s, 1, n)[k] = s[k]
BY DEF Content

\* What the client sends is its file, block by block.
LEMMA MineContent ==
  ASSUME NEW c \in Client
  PROVE  /\ Mine(c) \in Content /\ Len(Mine(c)) = Size /\ \A k \in 1..Size : Mine(c)[k] = <<c, k>>
BY FileAssumption DEF Mine, Blocks, Content, Block

\* A file overlaid with blocks from its beginning.
LEMMA OverlaidContent ==
  ASSUME NEW old \in Content, NEW new \in Content
  PROVE  /\ Overlaid(old, new) \in Content
         /\ Len(Overlaid(old, new)) = IF Len(old) > Len(new) THEN Len(old) ELSE Len(new)
         /\ \A k \in 1..Len(Overlaid(old, new)) :
              Overlaid(old, new)[k] = IF k <= Len(new) THEN new[k] ELSE old[k]
<1> DEFINE n == IF Len(old) > Len(new) THEN Len(old) ELSE Len(new)
           f == [k \in 1..n |-> IF k <= Len(new) THEN new[k] ELSE old[k]]
<1>1. Overlaid(old, new) = f
  BY DEF Overlaid
<1>2. Len(old) \in Nat /\ Len(new) \in Nat /\ n \in Nat
  BY DEF Content
<1>3. ASSUME NEW k \in 1..n PROVE f[k] \in Block
  <2>1. CASE k <= Len(new)
    BY <1>2, <2>1 DEF Content
  <2>2. CASE ~(k <= Len(new))
    BY <1>2, <2>2 DEF Content
  <2> QED
    BY <2>1, <2>2
<1>4. f \in [1..n -> Block]
  BY <1>3
<1>5. f \in Content /\ Len(f) = n
  BY <1>2, <1>4 DEF Content
<1> QED
  BY <1>1, <1>5

\* One block is written at an offset that is in the file or at its end.
LEMMA WrittenBlock ==
  ASSUME NEW s \in Content, NEW n \in 0..Len(s), NEW b \in Block
  PROVE  LET w == Overlaid(s, Append(SubSeq(s, 1, n), b))
         IN  /\ w \in Content
             /\ Len(w) \in Nat /\ Len(w) >= n + 1 /\ Len(w) = IF Len(s) > n THEN Len(s) ELSE n + 1
             /\ \A k \in 1..Len(w) : w[k] = IF k = n + 1 THEN b ELSE s[k]
<1> DEFINE p == Append(SubSeq(s, 1, n), b)
           w == Overlaid(s, p)
<1>1. SubSeq(s, 1, n) \in Content /\ Len(SubSeq(s, 1, n)) = n /\ \A k \in 1..n : SubSeq(s, 1, n)[k] = s[k]
  BY ContentPrefix
<1>2. n \in Nat /\ Len(s) \in Nat /\ n <= Len(s)
  BY DEF Content
<1>3. /\ p \in Content /\ Len(p) = n + 1
      /\ p[n + 1] = b /\ \A k \in 1..n : p[k] = s[k]
  BY <1>1, <1>2, AppendProperties DEF Content
<1> HIDE DEF p
<1>4. /\ w \in Content /\ Len(w) = IF Len(s) > n + 1 THEN Len(s) ELSE n + 1
      /\ \A k \in 1..Len(w) : w[k] = IF k <= n + 1 THEN p[k] ELSE s[k]
  BY <1>3, OverlaidContent
<1> HIDE DEF w
<1>5. Len(w) \in Nat /\ Len(w) >= n + 1 /\ Len(w) = IF Len(s) > n THEN Len(s) ELSE n + 1
  BY <1>2, <1>4
<1>6. ASSUME NEW k \in 1..Len(w) PROVE w[k] = IF k = n + 1 THEN b ELSE s[k]
  <2>1. CASE k \in 1..n
    <3>1. k <= n + 1 /\ k # n + 1
      BY <1>2, <2>1
    <3> QED
      BY <1>3, <1>4, <2>1, <3>1
  <2>2. CASE k = n + 1
    <3>1. k <= n + 1
      BY <1>2, <2>2
    <3> QED
      BY <1>3, <1>4, <2>2, <3>1
  <2>3. CASE k > n + 1
    <3>1. ~(k <= n + 1) /\ k # n + 1
      BY <1>2, <2>3
    <3> QED
      BY <1>4, <3>1
  <2>4. k \in 1..n \/ k = n + 1 \/ k > n + 1
    BY <1>2
  <2> QED
    BY <2>1, <2>2, <2>3, <2>4
<1> QED
  BY <1>4, <1>5, <1>6 DEF w, p

\* A file that has been overlaid with the beginning of a client's, and now gets
\* the block that follows.
LEMMA OverlaidNext ==
  ASSUME NEW c \in Client, NEW old \in Content, NEW n \in 0 .. Size - 1,
         NEW s, s = Overlaid(old, SubSeq(Mine(c), 1, n))
  PROVE  /\ s \in Content /\ n <= Len(s)
         /\ Overlaid(s, Append(SubSeq(s, 1, n), <<c, n + 1>>)) = Overlaid(old, SubSeq(Mine(c), 1, n + 1))
<1> DEFINE m == SubSeq(Mine(c), 1, n)
           m1 == SubSeq(Mine(c), 1, n + 1)
           w == Overlaid(s, Append(SubSeq(s, 1, n), <<c, n + 1>>))
           t == Overlaid(old, m1)
<1>1. n \in Nat /\ n + 1 <= Size /\ Size \in Nat /\ n \in 0..Size /\ n + 1 \in 0..Size
  BY FileAssumption
<1>2. /\ m \in Content /\ Len(m) = n /\ \A k \in 1..n : m[k] = <<c, k>>
      /\ m1 \in Content /\ Len(m1) = n + 1 /\ \A k \in 1 .. n + 1 : m1[k] = <<c, k>>
  BY <1>1, MineContent, ContentPrefix
<1> HIDE DEF m, m1
<1>3. /\ s \in Content /\ Len(old) \in Nat /\ Len(s) = IF Len(old) > n THEN Len(old) ELSE n
      /\ \A k \in 1..Len(s) : s[k] = IF k <= n THEN m[k] ELSE old[k]
  <2>1. s = Overlaid(old, m)
    BY DEF m
  <2>2. Len(old) \in Nat
    BY DEF Content
  <2> QED
    BY <1>2, <2>1, <2>2, OverlaidContent
<1>4. n \in 0..Len(s) /\ <<c, n + 1>> \in Block
  BY <1>1, <1>3 DEF Block
<1>5. /\ w \in Content /\ Len(w) = IF Len(s) > n THEN Len(s) ELSE n + 1
      /\ \A k \in 1..Len(w) : w[k] = IF k = n + 1 THEN <<c, n + 1>> ELSE s[k]
  BY ZenonT(60), <1>3, <1>4, WrittenBlock
<1>6. /\ t \in Content /\ Len(t) = IF Len(old) > n + 1 THEN Len(old) ELSE n + 1
      /\ \A k \in 1..Len(t) : t[k] = IF k <= n + 1 THEN m1[k] ELSE old[k]
  BY <1>2, OverlaidContent
<1> HIDE DEF w, t
<1>7. Len(w) = Len(t) /\ Len(t) \in Nat
  BY <1>1, <1>3, <1>5, <1>6
<1>8. ASSUME NEW k \in 1..Len(w) PROVE w[k] = t[k]
  <2>1. CASE k \in 1..n
    <3>1. k <= n + 1 /\ k # n + 1 /\ k <= n /\ k \in 1 .. n + 1 /\ k \in 1..Len(s) /\ k \in 1..Len(t)
      BY <1>1, <1>3, <1>7, <2>1
    <3> QED
      BY <1>2, <1>3, <1>5, <1>6, <2>1, <3>1
  <2>2. CASE k = n + 1
    <3>1. k <= n + 1 /\ k \in 1 .. n + 1 /\ k \in 1..Len(t)
      BY <1>1, <1>7, <2>2
    <3> QED
      BY <1>2, <1>5, <1>6, <2>2, <3>1
  <2>3. CASE k > n + 1
    <3>1. ~(k <= n + 1) /\ ~(k <= n) /\ k # n + 1 /\ k \in 1..Len(s) /\ k \in 1..Len(t)
      BY <1>1, <1>3, <1>5, <1>7, <2>3
    <3> QED
      BY <1>3, <1>5, <1>6, <3>1
  <2>4. k \in 1..n \/ k = n + 1 \/ k > n + 1
    BY <1>1
  <2> QED
    BY <2>1, <2>2, <2>3, <2>4
<1>9. w = t
  BY <1>5, <1>6, <1>7, <1>8, ContentEqual
<1> QED
  BY <1>3, <1>4, <1>9 DEF w, t, m1

\* Before anything is written, nothing is overlaid.
LEMMA OverlaidNothing ==
  ASSUME NEW s \in Content PROVE Overlaid(s, <<>>) = s
<1>1. <<>> \in Content /\ Len(<<>>) = 0 /\ Len(s) \in Nat
  BY DEF Content
<1>2. /\ Overlaid(s, <<>>) \in Content /\ Len(Overlaid(s, <<>>)) = Len(s)
      /\ \A k \in 1..Len(s) : Overlaid(s, <<>>)[k] = s[k]
  BY <1>1, OverlaidContent
<1> QED
  BY <1>2, ContentEqual

\* What the server has sent of a file, on its way in three places: saved, in the
\* connection and with the child.  A block moves on and nothing changes.
LEMMA SentOn ==
  ASSUME NEW s \in Content, NEW d \in Content, NEW b \in Content
  PROVE  s \o (d \o b) \o <<>> = s \o d \o b
<1>1. d \o b \in Content /\ s \o (d \o b) \in Content
  BY ContentConcat
<1>2. s \o (d \o b) \o <<>> = s \o (d \o b)
  BY <1>1, ConcatEmptySeq DEF Content
<1>3. s \o (d \o b) = s \o d \o b
  BY SMTT(30), ConcatAssociative DEF Content
<1> QED
  BY <1>2, <1>3

\* A block is received: it is saved behind the others.
LEMMA Received ==
  ASSUME NEW s \in Content, NEW n \in 0..Len(s), NEW d \in Content, d # <<>>,
         NEW t, t = Overlaid(s, Append(SubSeq(s, 1, n), Head(d)))
  PROVE  SubSeq(t, 1, n + 1) \o Tail(d) = SubSeq(s, 1, n) \o d
<1> DEFINE h == Head(d)
           p == SubSeq(s, 1, n)
<1>1. /\ h \in Block /\ <<h>> \in Content /\ Tail(d) \in Content
      /\ Len(Tail(d)) = Len(d) - 1 /\ d = <<h>> \o Tail(d)
  BY DEF Content
<1>2. p \in Content /\ Len(p) = n /\ \A k \in 1..n : p[k] = s[k]
  BY ContentPrefix
<1> HIDE DEF h, p
<1>3. t = Overlaid(s, Append(SubSeq(s, 1, n), h))
  BY DEF h
<1>4. /\ t \in Content /\ Len(t) \in Nat /\ Len(t) >= n + 1
      /\ \A k \in 1..Len(t) : t[k] = IF k = n + 1 THEN h ELSE s[k]
  BY <1>1, <1>3, WrittenBlock
<1>5. n \in Nat /\ n + 1 \in 0..Len(t) /\ n + 1 <= Len(t)
  BY <1>4
<1>6. /\ SubSeq(t, 1, n + 1) \in Content /\ Len(SubSeq(t, 1, n + 1)) = n + 1
      /\ \A k \in 1 .. n + 1 : SubSeq(t, 1, n + 1)[k] = t[k]
  BY <1>4, <1>5, ContentPrefix
<1>7. /\ p \o <<h>> \in Content /\ Len(p \o <<h>>) = n + 1
      /\ \A k \in 1 .. n + 1 : (p \o <<h>>)[k] = IF k <= n THEN p[k] ELSE h
  <2>1. Len(<<h>>) = 1 /\ <<h>>[1] = h
    OBVIOUS
  <2>2. /\ p \o <<h>> \in Content /\ Len(p \o <<h>>) = n + 1
        /\ \A k \in 1 .. n + 1 : (p \o <<h>>)[k] = IF k <= n THEN p[k] ELSE <<h>>[k - n]
    BY <1>1, <1>2, <2>1, ContentConcat
  <2>3. ASSUME NEW k \in 1 .. n + 1, ~(k <= n) PROVE k - n = 1
    BY <1>5, <2>3
  <2> QED
    BY <2>1, <2>2, <2>3
<1>8. ASSUME NEW k \in 1 .. n + 1 PROVE SubSeq(t, 1, n + 1)[k] = (p \o <<h>>)[k]
  <2>1. CASE k <= n
    <3>1. k \in 1..n /\ k \in 1..Len(t) /\ k # n + 1
      BY <1>5, <2>1
    <3>2. SubSeq(t, 1, n + 1)[k] = t[k] /\ t[k] = s[k]
      BY <1>4, <1>6, <3>1
    <3>3. (p \o <<h>>)[k] = p[k]
      BY <1>7, <2>1
    <3>4. p[k] = s[k]
      BY <1>2, <3>1
    <3> QED
      BY <3>2, <3>3, <3>4
  <2>2. CASE ~(k <= n)
    <3>1. k = n + 1 /\ k \in 1..Len(t)
      BY <1>5, <2>2
    <3> QED
      BY <1>4, <1>6, <1>7, <2>2, <3>1
  <2> QED
    BY <2>1, <2>2
<1>9. SubSeq(t, 1, n + 1) = p \o <<h>>
  BY <1>6, <1>7, <1>8, ContentEqual
<1>10. p \o <<h>> \o Tail(d) = p \o d
  BY <1>1, <1>2, ConcatAssociative DEF Content
<1> QED
  BY <1>1, <1>4, <1>5, <1>9, <1>10 DEF p

\* The child reads the next block of the file.
LEMMA Loaded ==
  ASSUME NEW s \in Content, NEW f \in Content, NEW n \in 0 .. Len(f) - 1,
         s \o <<>> = SubSeq(f, 1, n)
  PROVE  s \o <<f[n + 1]>> = SubSeq(f, 1, n + 1)
<1>1. s \o <<>> = s
  BY ConcatEmptySeq DEF Content
<1>2. n + 1 \in 1..Len(f) /\ 1 \in 1..Len(f) /\ n + 1 \in 1 .. Len(f) /\ (n + 1) - 1 = n /\ n + 1 \in Nat
  BY DEF Content
<1>3. SubSeq(f, 1, n + 1) = SubSeq(f, 1, (n + 1) - 1) \o <<f[n + 1]>>
  BY <1>2, SubSeqRecursiveSecond DEF Content
<1> QED
  BY <1>1, <1>2, <1>3


-----------------------------------------------------------------------------
(* The invariant. *)

\* What the run checks is part of it.
LEMMA IInvInv == IInv => Inv
<1> SUFFICES ASSUME IInv PROVE Inv
  OBVIOUS
<1> USE DEF IInv, Served
<1>1. InPlace
  <2> SUFFICES ASSUME NEW n \in Stored, NEW k \in DOMAIN files[n], NEW c \in Client,
                      files[n][k] = <<c, k>>, k <= Size
               PROVE  files[n][k] = Mine(c)[k]
    BY DEF InPlace, BlocksInPlace
  <2>1. k \in 1..Size
    BY FileAssumption DEF TypeOK
  <2> QED
    BY <2>1, MineContent
<1>2. LoneUploadExact
  BY DEF LoneUploadExact, UploadOK
<1>3. WholeUpload
  BY DEF WholeUpload, UploadOK
<1>4. DownloadExact
  BY DEF DownloadExact, DownloadOK
<1> QED
  BY <1>1, <1>2, <1>3, <1>4 DEF Inv

\* Nobody has connected; the server has its old files.
LEMMA InitIInv == Init => IInv
<1> SUFFICES ASSUME Init PROVE IInv
  OBVIOUS
<1> USE FileAssumption, ServerAssumption DEF Init, ClientInit
<1>1. Range(backlog) = {}
  BY DEF Range
<1>2. \A n \in Stored : OldSize[n] \in Nat /\ files[n] = Blocks(Server, OldSize[n])
  BY DEF Stored
<1>3. files \in [Stored -> Content]
  <2>1. ASSUME NEW n \in Nat PROVE Blocks(Server, n) \in Content
    <3>1. Blocks(Server, n) \in [1..n -> Block]
      BY DEF Blocks, Block
    <3> QED
      BY <3>1 DEF Content
  <2> QED
    BY <1>2, <2>1
<1>4. local \in [Client -> Content] /\ \A c \in Client : Len(local[c]) \in Nat
  BY MineContent DEF Content
<1>5. TypeOK
  <2>1. request \in [Client -> Request]
    BY DEF Request
  <2>2. backlog \in Seq(Client) /\ IsInjective(backlog)
    BY DEF IsInjective
  <2> QED
    BY <1>3, <2>1, <2>2 DEF TypeOK, ClientTypeOK, Content, Block
<1>6. DataOK
  BY <1>4 DEF DataOK, Content
<1>7. Forked
  BY <1>1 DEF Forked
<1>8. ASSUME NEW c \in Client PROVE Served(c)
  <2>1. Stage(c)
    BY DEF Stage, NoRequest
  <2>2. UploadOK(c)
    BY DEF UploadOK, Opened, NoRequest
  <2>3. DownloadOK(c)
    BY DEF DownloadOK, Opened, NoRequest
  <2> QED
    BY <2>1, <2>2, <2>3 DEF Served
<1>9. BlocksInPlace
  <2> SUFFICES ASSUME NEW n \in Stored, NEW k \in DOMAIN files[n]
               PROVE  files[n][k] = <<Server, k>> /\ k <= OldSize[n]
    BY DEF BlocksInPlace
  <2> QED
    BY <1>2 DEF Blocks
<1> QED
  BY <1>5, <1>6, <1>7, <1>8, <1>9 DEF IInv

\* A step in which neither c nor its child acts.
ClientSame(c) ==
  /\ client'[c] = client[c] /\ request'[c] = request[c] /\ up'[c] = up[c] /\ down'[c] = down[c]
  /\ sent'[c] = sent[c] /\ got'[c] = got[c] /\ local'[c] = local[c]

ChildSame(c) ==
  /\ child'[c] = child[c] /\ off'[c] = off[c] /\ block'[c] = block[c] /\ before'[c] = before[c]
  /\ overlap[c] => overlap'[c]

\* Its file does not shrink, and who writes to it once its child has opened it is
\* noted; its connection is not opened again.
Around(c) ==
  /\ Found(c) => Len(File(c)) <= Len(files'[request[c].name])
  /\ Found(c) /\ off[c] # -1 /\ ~overlap'[c] => files'[request[c].name] = File(c)
  /\ faults' = 0 => faults = 0
  /\ c \in held' \cup Range(backlog') => c \in held \cup Range(backlog)

\* It leaves everything about c as it is.
LEMMA Kept ==
  ASSUME IInv, TypeOK', NEW c \in Client, ClientSame(c), ChildSame(c), Around(c)
  PROVE  Served(c)'
<1> USE DEF IInv, Served, ClientSame, ChildSame, Around
<1>0. Open(c)' => Open(c)
  BY DEF Open, Alive
<1>1. Stage(c)'
  BY <1>0 DEF Stage, Waiting, Ended, Found
<1>2. Found(c) => Len(File(c)) \in Nat /\ Len(File(c)') \in Nat /\ Len(File(c)) <= Len(File(c)')
  BY DEF TypeOK, Found, File
<1>3. off[c] \in Nat \cup {-1}
  BY DEF TypeOK
<1>4. /\ Opened(c, "upload") => Found(c)
      /\ Opened(c, "download") => Found(c)
      /\ Opened(c, "upload")' = Opened(c, "upload") /\ Opened(c, "download")' = Opened(c, "download")
      /\ Opened(c, "upload") \/ Opened(c, "download") => off[c] # -1
  BY DEF Stage, Opened
<1>5. Found(c) /\ off[c] # -1 /\ ~overlap'[c] => File(c)' = File(c) /\ ~overlap[c]
  BY DEF File
<1>6. UploadOK(c)'
  <2>1. Opened(c, "upload")' => off[c] <= Len(File(c)')
    BY <1>2, <1>3, <1>4 DEF UploadOK
  <2>2. (Opened(c, "upload") /\ ~overlap[c])' =>
           File(c)' = Overlaid(before'[c], SubSeq(Mine(c), 1, off'[c]))
    BY <1>4, <1>5 DEF UploadOK
  <2> QED
    BY <1>0, <1>4, <2>1, <2>2 DEF UploadOK, Waiting
<1>7. DownloadOK(c)'
  <2>1. Opened(c, "download")' => off[c] <= Len(File(c)')
    BY <1>2, <1>3, <1>4 DEF DownloadOK
  <2> QED
    BY <1>0, <1>4, <1>5, <2>1 DEF DownloadOK, Ended
<1> QED
  BY <1>1, <1>6, <1>7

-----------------------------------------------------------------------------
(* The steps of the clients. *)

\* A client starts.
LEMMA ConnectKeeps ==
  ASSUME IInv, TypeOK', DataOK', NEW c \in Client, Connect(c, Listening),
         UNCHANGED <<files, parent, cur, held, child, progress, faults, history>>
  PROVE  Served(c)'
<1> USE DEF IInv, Served
<1>1. /\ client[c] = "new" /\ client'[c] = "open" /\ child[c] = "none" /\ c \notin Range(backlog)
      /\ UNCHANGED <<up, down, sent, got, local, files, child, off, block, before, overlap>>
  BY DEF Connect, Goto, Forked, progress, history, TypeOK, ClientTypeOK
<1>2. Stage(c)'
  BY <1>1 DEF Stage, Waiting, Ended
<1>3. UploadOK(c)'
  BY <1>1 DEF Stage, UploadOK, Waiting, Opened
<1>4. DownloadOK(c)'
  <2>1. got[c] = 0 /\ local[c] \in Content /\ Len(local[c]) \in Nat /\ off[c] = -1
    BY <1>1 DEF Stage, Waiting, DataOK, Content
  <2> QED
    BY <1>1, <2>1 DEF DownloadOK, Opened
<1> QED
  BY <1>2, <1>3, <1>4

\* A client that ends, well or not: with a whole upload, or with what came until
\* the connection ended.
LEMMA ClientEnds ==
  ASSUME IInv, TypeOK', NEW c \in Client,
         ~Ended(c), client[c] # "new", Ended(c)',
         UNCHANGED <<request, up, down, sent, got, local, backlog>>,
         UNCHANGED <<files, held, child, off, block, before, overlap>>,
         faults' = 0 => faults = 0,
         client'[c] = "done" =>
           \/ request[c].command = "none"
           \/ request[c].command = "upload" /\ sent[c] = Size
           \/ request[c].command # "upload" /\ client[c] = "recv" /\ down[c] = <<>> /\ ~Open(c)
  PROVE  Served(c)'
<1> USE DEF IInv, Served
<1>0. Open(c)' = Open(c)
  BY DEF Open, Alive
<1>1. client'[c] \in {"done", "failed", "killed"}
  BY DEF Ended
<1>2. Stage(c)'
  BY <1>0, <1>1 DEF Stage, Waiting, Ended, Found
<1>3. UploadOK(c)'
  <2>1. child[c] # "saved"
    BY DEF Stage
  <2>2. client'[c] = "done" /\ request[c].command = "upload" => sent[c] = Size
    OBVIOUS
  <2> QED
    BY <1>0, <2>1, <2>2 DEF UploadOK, Waiting, Opened, File
<1>4. DownloadOK(c)'
  <2>1. ASSUME client'[c] = "done", request[c].command = "download"
        PROVE  client[c] = "recv" /\ down[c] = <<>> /\ ~Open(c) /\ ~Open(c)'
    BY <1>0, <2>1
  <2>2. ASSUME client'[c] = "done", faults' = 0, Opened(c, "download"), ~overlap[c]
        PROVE  got[c] = Len(before[c])
    <3>1. down[c] = <<>> /\ ~Alive(c) /\ ~Waiting(c)
      BY <2>1, <2>2 DEF Open, Opened, Stage
    <3>2. child[c] = "gone"
      BY <3>1 DEF Alive, Waiting
    <3>3. off[c] = Len(before[c]) /\ block[c] = <<>>
      BY <2>2, <3>2 DEF DownloadOK
    <3>4. /\ local[c] \in Content /\ before[c] \in Content /\ got[c] \in 0..Len(local[c])
      BY <2>2 DEF DownloadOK, Opened, DataOK, TypeOK, ClientTypeOK, Content
    <3>5. SubSeq(local[c], 1, got[c]) \o <<>> \o <<>> = SubSeq(before[c], 1, off[c])
      BY <2>2, <3>1, <3>3 DEF DownloadOK
    <3>6. SubSeq(before[c], 1, off[c]) = before[c]
      BY <3>3, <3>4, SubSeqFull DEF Content
    <3>7. SubSeq(local[c], 1, got[c]) \in Content /\ Len(SubSeq(local[c], 1, got[c])) = got[c]
      BY <3>4, ContentPrefix
    <3>8. SubSeq(local[c], 1, got[c]) \o <<>> \o <<>> = SubSeq(local[c], 1, got[c])
      BY <3>7, ConcatEmptySeq DEF Content
    <3> QED
      BY <3>5, <3>6, <3>7, <3>8
  <2>3. Opened(c, "download")' = Opened(c, "download") /\ File(c)' = File(c) /\ Ended(c)'
    BY DEF Opened, File
  <2> QED
    BY <2>1, <2>2, <2>3 DEF DownloadOK
<1> QED
  BY <1>2, <1>3, <1>4

\* The query is the first thing in the connection, unless the server has closed
\* it.
LEMMA SendQueryKeeps ==
  ASSUME IInv, TypeOK', DataOK', NEW c \in Client, SendQuery(c, Open(c)),
         UNCHANGED <<files, parent, cur, held, child, progress, faults, history>>
  PROVE  Served(c)'
<1> USE DEF IInv, Served
<1>1. /\ client[c] = "open" /\ request[c] # NoRequest
      /\ client'[c] = IF request[c].command = "upload" THEN "send" ELSE "recv"
      /\ up[c] = <<>> /\ up'[c] = IF Open(c) THEN <<Query>> ELSE <<>>
      /\ UNCHANGED <<request, down, sent, got, local, backlog, held>>
      /\ UNCHANGED <<files, child, off, block, before, overlap, faults>>
  <2>1. up[c] = <<>>
    BY DEF SendQuery, Stage
  <2>2. Append(<<>>, Query) = <<Query>>
    OBVIOUS
  <2> QED
    BY <2>1, <2>2 DEF SendQuery, Carried, Goto, progress, history, TypeOK, ClientTypeOK, DataOK
<1>0. Open(c)' = Open(c)
  BY <1>1 DEF Open, Alive
<1>2. request[c].command \in {"upload", "download", "list"}
  BY <1>1 DEF TypeOK, ClientTypeOK, Request, NoRequest
<1>3. Stage(c)'
  BY <1>0, <1>1, <1>2 DEF Stage, Waiting, Ended, Found
<1>4. UploadOK(c)'
  <2>1. /\ sent[c] = 0 /\ off[c] = -1 /\ child[c] \notin {"upload", "saved"}
        /\ Len(<<Query>>) = 1 /\ <<Query>> # <<>>
    BY <1>1 DEF Stage
  <2> QED
    BY <1>0, <1>1, <1>2, <2>1 DEF UploadOK, Waiting, Opened
<1>5. DownloadOK(c)'
  <2>1. off[c] = -1
    BY <1>1 DEF Stage
  <2> QED
    BY <1>1, <2>1 DEF DownloadOK, Opened
<1> QED
  BY <1>3, <1>4, <1>5

\* The next block of the file joins the stream behind the others, unless the
\* server has closed the connection.
LEMMA SendBlockKeeps ==
  ASSUME IInv, TypeOK', DataOK', NEW c \in Client, SendBlock(c, Open(c)),
         UNCHANGED <<files, parent, cur, held, child, progress, faults, history>>
  PROVE  Served(c)'
<1> USE DEF IInv, Served
<1>1. /\ client[c] = "send" /\ client' = client /\ sent[c] < Size /\ sent'[c] = sent[c] + 1
      /\ up'[c] = IF Open(c) THEN Append(up[c], Mine(c)[sent[c] + 1]) ELSE up[c]
      /\ UNCHANGED <<request, down, got, local, backlog, held>>
      /\ UNCHANGED <<files, child, off, block, before, overlap, faults>>
  BY DEF SendBlock, Carried, progress, history, TypeOK, ClientTypeOK, DataOK
<1>2. sent[c] \in Nat /\ sent[c] + 1 \in 1..Size /\ request[c].command = "upload"
  BY <1>1, FileAssumption DEF Stage, TypeOK, ClientTypeOK
<1>3. Mine(c)[sent[c] + 1] = <<c, sent[c] + 1>> /\ <<c, sent[c] + 1>> \in Block
  BY <1>2, MineContent DEF Block
<1>4. /\ up[c] \in Seq({Query} \cup Block) /\ Len(up[c]) \in Nat
      /\ Open(c) =>
           /\ Len(up'[c]) = Len(up[c]) + 1 /\ up'[c] # <<>>
           /\ up'[c][Len(up[c]) + 1] = <<c, sent[c] + 1>>
           /\ \A k \in 1..Len(up[c]) : up'[c][k] = up[c][k]
  BY <1>1, <1>3, AppendProperties DEF DataOK
<1>0. Open(c)' = Open(c)
  BY <1>1 DEF Open, Alive
<1>5. Stage(c)'
  BY <1>0, <1>1, <1>4 DEF Stage, Waiting, Ended, Found
<1>6. UploadOK(c)'
  <2>1. ASSUME Waiting(c), Open(c)
        PROVE  /\ request[c].command # "none" /\ Len(up'[c]) = sent'[c] + 1
               /\ \A k \in 1..sent'[c] : up'[c][k + 1] = <<c, k>>
    <3>1. /\ Len(up[c]) = sent[c] + 1 /\ \A k \in 1..sent[c] : up[c][k + 1] = <<c, k>>
      BY <1>1, <2>1 DEF Stage, UploadOK
    <3>2. ASSUME NEW k \in 1..sent'[c] PROVE up'[c][k + 1] = <<c, k>>
      <4>1. k \in 1..sent[c] \/ k = sent[c] + 1
        BY <1>1, <1>2
      <4>2. k \in 1..sent[c] => k + 1 \in 1..Len(up[c])
        BY <1>2, <3>1
      <4> QED
        BY <1>4, <2>1, <3>1, <4>1, <4>2
    <3> QED
      BY <1>1, <1>2, <1>4, <2>1, <3>1, <3>2
  <2>2. ASSUME child[c] = "upload"
        PROVE  /\ Len(up'[c]) = sent'[c] - off[c]
               /\ \A k \in 1..Len(up'[c]) : up'[c][k] = <<c, off[c] + k>>
    <3>1. /\ Len(up[c]) = sent[c] - off[c] /\ \A k \in 1..Len(up[c]) : up[c][k] = <<c, off[c] + k>>
          /\ off[c] \in Nat /\ Open(c)
      BY <2>2 DEF Stage, UploadOK, TypeOK, Open, Alive
    <3>2. ASSUME NEW k \in 1..Len(up'[c]) PROVE up'[c][k] = <<c, off[c] + k>>
      <4>1. k \in 1..Len(up[c]) \/ k = Len(up[c]) + 1
        BY <1>4, <3>1
      <4>2. off[c] + (Len(up[c]) + 1) = sent[c] + 1
        BY <1>2, <3>1
      <4> QED
        BY <1>4, <3>1, <4>1, <4>2
    <3>3. Len(up'[c]) = sent'[c] - off[c]
      BY <1>1, <1>2, <1>4, <3>1
    <3> QED
      BY <3>2, <3>3
  <2>3. child[c] # "saved"
    BY <1>1 DEF Stage, Ended
  <2> QED
    BY <1>0, <1>1, <1>4, <2>1, <2>2, <2>3 DEF UploadOK, Waiting, Opened, File
<1>7. DownloadOK(c)'
  BY <1>1, <1>2 DEF DownloadOK, Opened
<1> QED
  BY <1>5, <1>6, <1>7

\* What a client receives leaves the connection and joins what it has.
LEMMA ReceiveKeeps ==
  ASSUME IInv, TypeOK', DataOK', NEW c \in Client, Receive(c),
         UNCHANGED <<files, parent, cur, held, child, progress, faults, history>>
  PROVE  Served(c)'
<1> USE DEF IInv, Served
<1>1. /\ client[c] = "recv" /\ down[c] # <<>> /\ down'[c] = Tail(down[c]) /\ got'[c] = got[c] + 1
      /\ request[c].command # "list" =>
           local'[c] = Overlaid(local[c], Append(SubSeq(local[c], 1, got[c]), Head(down[c])))
      /\ UNCHANGED <<client, request, up, sent, backlog, held>>
      /\ UNCHANGED <<files, child, off, block, before, overlap, faults>>
  BY DEF Receive, progress, history, TypeOK, ClientTypeOK, DataOK
<1>2. request[c].command \in {"download", "list"} /\ ~Waiting(c)
  BY <1>1 DEF Stage
<1>3. Stage(c)'
  BY <1>1, <1>2 DEF Stage, Waiting, Ended, Found
<1>4. UploadOK(c)'
  BY <1>1, <1>2 DEF UploadOK, Stage, Waiting, Opened
<1>5. DownloadOK(c)'
  <2>1. CASE request[c].command = "list"
    BY <1>1, <2>1 DEF DownloadOK, Opened
  <2>2. CASE request[c].command = "download"
    <3>1. /\ local[c] \in Content /\ down[c] \in Content /\ block[c] \in Content
          /\ got[c] \in 0..Len(local[c])
      BY <2>2, SMTT(30) DEF DownloadOK, DataOK, TypeOK, ClientTypeOK, Content
    <3>2. local'[c] = Overlaid(local[c], Append(SubSeq(local[c], 1, got[c]), Head(down[c]))) /\ down[c] # <<>>
      BY <1>1, <2>2
    <3>3. /\ got[c] + 1 <= Len(local'[c])
          /\ SubSeq(local'[c], 1, got[c] + 1) \o Tail(down[c]) = SubSeq(local[c], 1, got[c]) \o down[c]
      <4>1. SubSeq(local'[c], 1, got[c] + 1) \o Tail(down[c]) = SubSeq(local[c], 1, got[c]) \o down[c]
        BY ZenonT(60), <3>1, <3>2, Received
      <4>2. Head(down[c]) \in Block
        BY <3>1, <3>2 DEF Content
      <4>3. got[c] + 1 <= Len(local'[c])
        BY <3>1, <3>2, <4>2, WrittenBlock
      <4> QED
        BY <4>1, <4>3
    <3>4. client[c] # "done" /\ ~Ended(c)
      BY <1>1 DEF Ended
    <3> QED
      BY <1>1, <2>2, <3>3, <3>4 DEF DownloadOK, Opened, File, Ended
  <2> QED
    BY <1>2, <2>1, <2>2
<1> QED
  BY <1>3, <1>4, <1>5

-----------------------------------------------------------------------------
(* The steps of the children. *)

\* A child is forked.
LEMMA ForkKeeps ==
  ASSUME IInv, TypeOK', NEW c \in Client, Fork, c = cur
  PROVE  Served(c)'
<1> USE DEF IInv, Served
<1>1. /\ child[c] = "none" /\ child'[c] = "query" /\ c \in held
      /\ UNCHANGED <<client, request, up, down, sent, got, local, backlog>>
      /\ UNCHANGED <<files, held, off, block, before, overlap, faults>>
  BY DEF Fork, Forked, TypeOK, clients, progress, history
<1>2. off[c] = -1
  BY <1>1 DEF Stage, Waiting
<1>3. Stage(c)'
  BY <1>1 DEF Stage, Waiting, Open, Ended, Found
<1>4. UploadOK(c)'
  BY <1>1, <1>2 DEF UploadOK, Waiting, Open, Opened
<1>5. DownloadOK(c)'
  BY <1>1, <1>2 DEF DownloadOK, Opened, Open
<1> QED
  BY <1>3, <1>4, <1>5

\* A child goes from one part of the program to the next, or is over: with a
\* whole file sent, if its client still waits for it and nothing has failed.
LEMMA ChildMoves ==
  ASSUME IInv, TypeOK', NEW c \in Client,
         UNCHANGED <<client, request, up, down, sent, got, local>>,
         UNCHANGED <<files, off, block, before, overlap>>,
         Alive(c), faults' = 0 => faults = 0,
         \/ child[c] = "query" /\ Ended(c) /\ child'[c] = "sleep"
         \/ child[c] = "upload" /\ child'[c] = "sleep"
         \/ child[c] = "upload" /\ EndOfFile(c) /\ child'[c] = "saved"
         \/ child[c] = "download" /\ AtEnd(c) /\ block[c] = <<>> /\ child'[c] = "sent"
         \/ child[c] = "list" /\ child'[c] = "sent"
         \/ child'[c] = "gone" /\ child[c] \in {"sleep", "saved", "sent"}
         \/ child'[c] = "gone" /\ (Ended(c) \/ faults' # 0)
  PROVE  Served(c)'
<1> USE DEF IInv, Served
<1>1. ~Waiting(c)' /\ child'[c] \notin {"upload", "download", "list"}
  BY DEF Waiting
<1>2. Stage(c)'
  BY <1>1 DEF Stage, Waiting, Ended, Found, EndOfFile
<1>3. UploadOK(c)'
  <2>1. ASSUME child'[c] = "saved", client[c] = "done" PROVE off[c] = Size
    <3>1. child[c] = "upload" /\ up[c] = <<>> /\ Len(up[c]) = sent[c] - off[c] /\ sent[c] = Size
      BY <2>1 DEF UploadOK, Stage, EndOfFile
    <3>2. Len(up[c]) = 0 /\ off[c] \in Int /\ Size \in Nat
      BY <3>1, FileAssumption DEF TypeOK
    <3> QED
      BY <3>1, <3>2
  <2> QED
    BY <1>1, <2>1 DEF UploadOK, Opened, File
<1>4. DownloadOK(c)'
  <2>1. Open(c) /\ ~(client[c] = "done" /\ request[c].command = "download")
    BY DEF Open, DownloadOK
  <2>2. ASSUME Opened(c, "download"), ~overlap[c], child'[c] \in {"sent", "gone"}, ~Ended(c), faults' = 0
        PROVE  off[c] = Len(before[c]) /\ block[c] = <<>>
    <3>1. CASE child[c] = "sent"
      BY <2>2, <3>1 DEF DownloadOK
    <3>2. CASE child[c] = "download" /\ AtEnd(c) /\ block[c] = <<>>
      <4>1. off[c] >= Len(before[c]) /\ off[c] <= Len(before[c])
        BY <2>2, <3>2 DEF DownloadOK, AtEnd
      <4>2. off[c] \in Int /\ Len(before[c]) \in Nat
        BY DEF TypeOK, DataOK, Content
      <4> QED
        BY <3>2, <4>1, <4>2
    <3> QED
      BY <2>2, <3>1, <3>2 DEF Stage, Opened
  <2>3. Opened(c, "download")' = Opened(c, "download") /\ File(c)' = File(c) /\ Ended(c)' = Ended(c)
    BY DEF Opened, File, Ended
  <2> QED
    BY <2>1, <2>2, <2>3 DEF DownloadOK
<1> QED
  BY <1>2, <1>3, <1>4

\* The query leaves the connection, and the child starts at the beginning of
\* the file; or it does not find the file, and is over.
LEMMA ReceiveQueryKeeps ==
  ASSUME IInv, TypeOK', DataOK', NEW c \in Client, ReceiveQuery(c)
  PROVE  Served(c)'
<1> USE DEF IInv, Served
<1>1. /\ child[c] = "query" /\ up[c] # <<>> /\ up'[c] = Tail(up[c])
      /\ UNCHANGED <<client, request, down, sent, got, local, backlog, files, held, block, faults, overlap>>
  BY DEF ReceiveQuery, DataOK
<1>2. /\ off[c] = -1 /\ block[c] = <<>> /\ down[c] = <<>> /\ got[c] = 0 /\ Alive(c) /\ Open(c)
      /\ client[c] \notin {"new", "open"} /\ request[c].command \in {"upload", "download", "list"}
      /\ ~(client[c] = "done" /\ request[c].command = "download")
  <2>1. Waiting(c) /\ Alive(c) /\ Open(c)
    BY <1>1 DEF Waiting, Alive, Open
  <2>2. off[c] = -1 /\ block[c] = <<>> /\ down[c] = <<>> /\ got[c] = 0 /\ client[c] \notin {"new", "open"}
    BY <1>1, <2>1 DEF Stage
  <2>3. request[c].command # "none"
    BY <1>1, <2>1 DEF UploadOK
  <2>4. request[c] \in Request
    BY DEF TypeOK, ClientTypeOK
  <2>5. request[c].command \in {"none", "upload", "download", "list"}
    BY <2>4 DEF Request, NoRequest
  <2>6. ~(client[c] = "done" /\ request[c].command = "download")
    BY <2>1 DEF DownloadOK
  <2> QED
    BY <2>1, <2>2, <2>3, <2>5, <2>6
<1>3. CASE request[c].command = "list" \/ Found(c)
  <2>1. /\ child'[c] = request[c].command /\ off'[c] = 0
        /\ before'[c] = IF Found(c) THEN File(c) ELSE <<>>
    <3>1. child'[c] = request[c].command /\ off'[c] = 0
      BY <1>3 DEF ReceiveQuery, At, TypeOK
    <3>2. before'[c] = IF Found(c) THEN File(c) ELSE <<>>
      BY <1>3 DEF ReceiveQuery, DataOK
    <3> QED
      BY <3>1, <3>2
  <2>2. Stage(c)'
    BY <1>1, <1>2, <1>3, <2>1 DEF Stage, Waiting, Ended, Found
  <2>3. Found(c) => File(c) \in Content /\ Len(File(c)) \in Nat /\ File(c)' = File(c)
    BY <1>1 DEF TypeOK, Found, File, Content, Block
  <2>4. UploadOK(c)'
    <3>1. ASSUME request[c].command = "upload"
          PROVE  /\ Len(up'[c]) = sent[c] - 0
                 /\ \A k \in 1..Len(up'[c]) : up'[c][k] = <<c, 0 + k>>
      <4>1. /\ Len(up[c]) = sent[c] + 1 /\ \A k \in 1..sent[c] : up[c][k + 1] = <<c, k>>
            /\ sent[c] \in Nat /\ up[c] \in Seq({Query} \cup Block)
        <5>1. /\ Len(up[c]) = sent[c] + 1 /\ \A k \in 1..sent[c] : up[c][k + 1] = <<c, k>>
          <6>1. UploadOK(c)
            OBVIOUS
          <6>2. Waiting(c) /\ Open(c) /\ up[c] # <<>>
            BY <1>1, <1>2 DEF Waiting
          <6> HIDE DEF IInv, Served
          <6> QED
            BY <6>1, <6>2 DEF UploadOK
        <5>2. sent[c] \in 0..Size /\ Size \in Nat
          BY FileAssumption DEF TypeOK, ClientTypeOK
        <5>3. up[c] \in Seq({Query} \cup Block)
          BY DEF DataOK
        <5> QED
          BY <5>1, <5>2, <5>3
      <4>2. Len(up'[c]) = Len(up[c]) - 1 /\ \A k \in 1..Len(up'[c]) : up'[c][k] = up[c][k + 1]
        BY <1>1, <4>1, HeadTailProperties
      <4>3. Len(up'[c]) = sent[c]
        BY <4>1, <4>2
      <4>4. ASSUME NEW k \in 1..Len(up'[c]) PROVE up'[c][k] = <<c, 0 + k>>
        <5>1. 0 + k = k
          OBVIOUS
        <5> QED
          BY <4>1, <4>2, <4>3, <5>1
      <4>5. sent[c] - 0 = sent[c]
        BY <4>1
      <4> QED
        BY <4>3, <4>4, <4>5
    <3>2. ASSUME request[c].command = "upload"
          PROVE  File(c)' = Overlaid(before'[c], SubSeq(Mine(c), 1, off'[c]))
      <4>1. Found(c) /\ before'[c] = File(c)
        BY <1>3, <2>1, <3>2
      <4>2. SubSeq(Mine(c), 1, 0) = <<>>
        BY SubSeqEmpty
      <4> QED
        BY <2>1, <2>3, <4>1, <4>2, OverlaidNothing
    <3>3. request[c].command = "upload" => 0 <= Size /\ 0 <= Len(File(c)')
      BY <1>3, <2>3, FileAssumption
    <3> QED
      BY <1>1, <1>2, <2>1, <3>1, <3>2, <3>3 DEF UploadOK, Waiting, Opened
  <2>5. DownloadOK(c)'
    <3>1. ASSUME request[c].command = "download"
          PROVE  /\ off'[c] <= Len(File(c)') /\ File(c)' = before'[c]
                 /\ SubSeq(local'[c], 1, got'[c]) \o down'[c] \o block'[c] = SubSeq(before'[c], 1, off'[c])
      <4>1. Found(c) /\ before'[c] = File(c)
        BY <1>3, <2>1, <3>1
      <4>2. SubSeq(local'[c], 1, got'[c]) = <<>> /\ SubSeq(before'[c], 1, off'[c]) = <<>>
        BY <1>1, <1>2, <2>1, SubSeqEmpty
      <4>3. <<>> \o <<>> \o <<>> = <<>>
        BY ConcatEmptySeq, EmptySeq
      <4> QED
        BY <1>1, <1>2, <2>1, <2>3, <4>1, <4>2, <4>3
    <3> QED
      BY <1>1, <1>2, <2>1, <3>1 DEF DownloadOK, Opened
  <2> QED
    BY <2>2, <2>4, <2>5
<1>4. CASE request[c].command # "list" /\ ~Found(c)
  <2>1. child'[c] = "sleep" /\ off' = off /\ before' = before
    BY <1>4 DEF ReceiveQuery, At, TypeOK
  <2>2. Stage(c)'
    BY <1>1, <1>2, <2>1 DEF Stage, Waiting, Ended, Found
  <2>3. UploadOK(c)'
    BY <1>1, <1>2, <2>1 DEF UploadOK, Waiting, Opened
  <2>4. DownloadOK(c)'
    BY <1>1, <1>2, <2>1 DEF DownloadOK, Opened
  <2> QED
    BY <2>2, <2>3, <2>4
<1> QED
  BY <1>3, <1>4

\* A block that is received is saved at its own position.
LEMMA SaveBlockData ==
  ASSUME IInv, NEW c \in Client, SaveBlock(c)
  PROVE  LET n == request[c].name
             k == off[c]
         IN  /\ child[c] = "upload" /\ n \in Stored /\ Opened(c, "upload")
             /\ k \in 0 .. Size - 1 /\ k \in 0..Len(files[n]) /\ Head(up[c]) = <<c, k + 1>>
             /\ <<c, k + 1>> \in Block
             /\ files' = [files EXCEPT ![n] =
                            Overlaid(files[n], Append(SubSeq(files[n], 1, k), <<c, k + 1>>))]
<1> USE DEF IInv, Served
<1> DEFINE n == request[c].name
           k == off[c]
<1>1. child[c] = "upload" /\ up[c] # <<>> /\ request[c].command = "upload" /\ k # -1 /\ n \in Stored
  BY DEF SaveBlock, Stage, Found
<1>2. /\ Len(up[c]) = sent[c] - k /\ \A j \in 1..Len(up[c]) : up[c][j] = <<c, k + j>>
      /\ k <= Len(files[n])
  BY <1>1 DEF UploadOK, Opened, File
<1>3. /\ k \in Nat /\ sent[c] \in Nat /\ sent[c] <= Size /\ Size \in Nat /\ files[n] \in Content
      /\ Len(files[n]) \in Nat
  <2>1. k \in Nat /\ sent[c] \in 0..Size /\ Size \in Nat
    BY <1>1, FileAssumption DEF TypeOK, ClientTypeOK
  <2>2. files[n] \in Content /\ Len(files[n]) \in Nat
    BY <1>1 DEF TypeOK, Content, Block
  <2> QED
    BY <2>1, <2>2
<1>4. Len(up[c]) \in Nat /\ Len(up[c]) >= 1 /\ Head(up[c]) = up[c][1] /\ 1 \in 1..Len(up[c])
  BY <1>1 DEF DataOK
<1>5. k \in 0 .. Size - 1 /\ k \in 0..Len(files[n])
  BY <1>2, <1>3, <1>4
<1>6. Head(up[c]) = <<c, k + 1>>
  BY <1>2, <1>4
<1>7. <<c, k + 1>> \in Block
  BY <1>3 DEF Block
<1> QED
  BY <1>1, <1>5, <1>6, <1>7 DEF SaveBlock, Written, File, Opened

\* It changes one block of one file, and shortens none.
LEMMA SavedFile ==
  ASSUME IInv, NEW c \in Client, SaveBlock(c)
  PROVE  LET n == request[c].name
         IN  /\ files[n] \in Content /\ files' \in [Stored -> Content]
             /\ \A m \in Stored : m # n => files'[m] = files[m]
             /\ Len(files[n]) \in Nat /\ Len(files'[n]) \in Nat
             /\ Len(files'[n]) = IF Len(files[n]) > off[c] THEN Len(files[n]) ELSE off[c] + 1
             /\ \A k \in 1..Len(files'[n]) :
                  files'[n][k] = IF k = off[c] + 1 THEN <<c, off[c] + 1>> ELSE files[n][k]
<1> DEFINE n == request[c].name
           f == files[n]
           o == off[c]
           b == <<c, o + 1>>
           w == Overlaid(f, Append(SubSeq(f, 1, o), b))
<1>1. n \in Stored /\ o \in 0..Len(f) /\ b \in Block /\ files' = [files EXCEPT ![n] = w]
  BY SaveBlockData
<1>2. files \in [Stored -> Content] /\ f \in Content /\ Len(f) \in Nat
  BY <1>1 DEF IInv, TypeOK, Content, Block
<1> HIDE DEF f, o, b
<1>3. /\ w \in Content /\ Len(w) \in Nat /\ Len(w) = IF Len(f) > o THEN Len(f) ELSE o + 1
      /\ \A k \in 1..Len(w) : w[k] = IF k = o + 1 THEN b ELSE f[k]
  BY <1>1, <1>2, WrittenBlock
<1> HIDE DEF w
<1>4. files' \in [Stored -> Content] /\ files'[n] = w /\ \A m \in Stored : m # n => files'[m] = files[m]
  BY <1>1, <1>2, <1>3
<1> QED
  BY <1>2, <1>3, <1>4 DEF f, o, b

\* It is the next one: an upload that has the file to itself stays exact.
LEMMA SaveBlockKeeps ==
  ASSUME IInv, TypeOK', DataOK', NEW c \in Client, SaveBlock(c)
  PROVE  Served(c)'
<1> USE DEF IInv, Served
<1> DEFINE n == request[c].name
           k == off[c]
           w == Overlaid(files[n], Append(SubSeq(files[n], 1, k), <<c, k + 1>>))
<1>1. /\ child[c] = "upload" /\ n \in Stored /\ Opened(c, "upload") /\ request[c].command = "upload"
      /\ k \in 0 .. Size - 1 /\ k \in 0..Len(files[n]) /\ <<c, k + 1>> \in Block
      /\ files'[n] = w /\ files[n] \in Content
  BY SaveBlockData DEF TypeOK, Content, Block, Opened
<1>2. /\ up[c] # <<>> /\ up'[c] = Tail(up[c]) /\ off'[c] = k + 1 /\ k \in Nat
      /\ overlap'[c] = overlap[c]
      /\ UNCHANGED <<client, request, down, sent, got, local, backlog, held, child, block, faults, before>>
  BY <1>1 DEF SaveBlock, DataOK, TypeOK
<1> HIDE DEF w
<1>3. Len(w) \in Nat /\ Len(w) >= k + 1
  <2>1. /\ Len(files[n]) \in Nat /\ Len(files'[n]) \in Nat
        /\ Len(files'[n]) = IF Len(files[n]) > k THEN Len(files[n]) ELSE k + 1
    BY SavedFile
  <2> QED
    BY <1>1, <1>2, <2>1
<1>4. Stage(c)'
  BY <1>1, <1>2 DEF Stage, Waiting, Ended, Found
<1>5. UploadOK(c)'
  <2>1. Len(up'[c]) = sent'[c] - off'[c] /\ \A j \in 1..Len(up'[c]) : up'[c][j] = <<c, off'[c] + j>>
    <3>1. /\ Len(up[c]) = sent[c] - k /\ \A j \in 1..Len(up[c]) : up[c][j] = <<c, k + j>>
          /\ sent[c] \in Nat /\ up[c] \in Seq({Query} \cup Block) /\ Len(up[c]) \in Nat
      <4>1. /\ Len(up[c]) = sent[c] - k /\ \A j \in 1..Len(up[c]) : up[c][j] = <<c, k + j>>
        BY <1>1 DEF UploadOK
      <4>2. sent[c] \in 0..Size /\ Size \in Nat
        BY FileAssumption DEF TypeOK, ClientTypeOK
      <4>3. up[c] \in Seq({Query} \cup Block)
        BY DEF DataOK
      <4> QED
        BY <4>1, <4>2, <4>3
    <3>2. /\ Len(up'[c]) = Len(up[c]) - 1 /\ \A j \in 1..Len(up'[c]) : up'[c][j] = up[c][j + 1]
      BY <1>2, <3>1, HeadTailProperties
    <3>3. ASSUME NEW j \in 1..Len(up'[c]) PROVE up'[c][j] = <<c, off'[c] + j>>
      <4>1. j + 1 \in 1..Len(up[c]) /\ k + (j + 1) = (k + 1) + j
        <5>1. k \in Nat /\ Len(up[c]) \in Nat /\ Len(up'[c]) = Len(up[c]) - 1
          BY <1>2, <3>1, <3>2
        <5> QED
          BY <5>1
      <4> QED
        BY <1>2, <3>1, <3>2, <4>1
    <3>4. Len(up'[c]) = sent[c] - (k + 1)
      BY <1>2, <3>1, <3>2
    <3> QED
      BY <1>2, <3>3, <3>4
  <2>2. File(c)' = w
    BY <1>1, <1>2 DEF File
  <2>3. off'[c] <= Size /\ off'[c] <= Len(File(c)')
    BY <1>1, <1>2, <1>3, <2>2, FileAssumption
  <2>4. ~overlap'[c] => File(c)' = Overlaid(before'[c], SubSeq(Mine(c), 1, off'[c]))
    <3> SUFFICES ASSUME ~overlap'[c] PROVE w = Overlaid(before[c], SubSeq(Mine(c), 1, k + 1))
      BY <1>2, <2>2
    <3>1. files[n] = Overlaid(before[c], SubSeq(Mine(c), 1, k)) /\ before[c] \in Content
      BY <1>1, <1>2 DEF UploadOK, File, DataOK
    <3> QED
      BY <1>1, <3>1, OverlaidNext DEF w
  <2> QED
    BY <1>1, <1>2, <2>1, <2>3, <2>4 DEF UploadOK, Waiting
<1>6. DownloadOK(c)'
  BY <1>1, <1>2 DEF DownloadOK, Opened
<1> QED
  BY <1>4, <1>5, <1>6

\* The next block of the file, or the next row, is with the child.
LEMMA LoadKeeps ==
  ASSUME IInv, TypeOK', DataOK', NEW c \in Client, LoadBlock(c) \/ LoadRow(c)
  PROVE  Served(c)'
<1> USE DEF IInv, Served
<1>1. /\ child[c] \in {"download", "list"} /\ block[c] = <<>> /\ off'[c] = off[c] + 1
      /\ UNCHANGED <<client, request, up, down, sent, got, local, backlog>>
      /\ UNCHANGED <<files, held, child, faults, before, overlap>>
  BY DEF LoadBlock, LoadRow, clients, history, TypeOK
<1>2. /\ request[c].command = child[c] /\ off[c] \in Nat /\ Alive(c)
      /\ ~(client[c] = "done" /\ request[c].command = "download")
  BY <1>1 DEF Stage, TypeOK, Alive, DownloadOK, Open
<1>3. Stage(c)'
  BY <1>1, <1>2 DEF Stage, Waiting, Ended, Found
<1>4. UploadOK(c)'
  BY <1>1, <1>2 DEF UploadOK, Waiting, Opened
<1>5. DownloadOK(c)'
  <2>1. CASE request[c].command = "list"
    BY <1>1, <1>2, <2>1 DEF DownloadOK, Opened
  <2>2. CASE request[c].command = "download"
    <3>1. /\ ~AtEnd(c) /\ block'[c] = <<File(c)[off[c] + 1]>> /\ Found(c)
      BY <1>1, <1>2, <2>2 DEF LoadBlock, LoadRow, DataOK, Stage
    <3>2. File(c) \in Content /\ Len(File(c)) \in Nat /\ File(c)' = File(c)
      BY <1>1, <3>1 DEF TypeOK, Found, File, Content, Block
    <3>3. off[c] \in 0 .. Len(File(c)) - 1 /\ off[c] + 1 <= Len(File(c))
      BY <1>2, <3>1, <3>2 DEF AtEnd
    <3>4. ASSUME ~overlap[c], ~Ended(c)
          PROVE  SubSeq(local[c], 1, got[c]) \o down[c] \o block'[c] = SubSeq(before[c], 1, off[c] + 1)
      <4> DEFINE s == SubSeq(local[c], 1, got[c]) \o down[c]
      <4>1. s \o <<>> = SubSeq(File(c), 1, off[c]) /\ before[c] = File(c)
        <5>1. Opened(c, "download")
          BY <1>2, <2>2 DEF Opened
        <5>2. s \o block[c] = SubSeq(before[c], 1, off[c]) /\ File(c) = before[c]
          BY <3>4, <5>1 DEF DownloadOK
        <5> HIDE DEF s
        <5> QED
          BY <1>1, <5>2
      <4>2. s \in Content
        <5>1. local[c] \in Content /\ down[c] \in Content /\ got[c] \in 0..Len(local[c])
          BY SMTT(30), <2>2 DEF DownloadOK, DataOK, TypeOK, ClientTypeOK, Content
        <5>2. SubSeq(local[c], 1, got[c]) \in Content
          BY <5>1, ContentPrefix
        <5> QED
          BY <5>1, <5>2, ContentConcat
      <4> HIDE DEF s
      <4>3. s \o <<File(c)[off[c] + 1]>> = SubSeq(File(c), 1, off[c] + 1)
        BY <3>2, <3>3, <4>1, <4>2, Loaded
      <4> QED
        BY <3>1, <4>1, <4>3 DEF s
    <3>5. (Opened(c, "download") /\ File(c) = before[c]) \/ overlap[c]
      BY <1>1, <1>2, <2>2 DEF DownloadOK, Opened
    <3> QED
      BY <1>1, <1>2, <2>2, <3>2, <3>3, <3>4, <3>5 DEF DownloadOK, Opened, Ended
  <2> QED
    BY <1>1, <1>2, <2>1, <2>2
<1> QED
  BY <1>3, <1>4, <1>5

\* A block goes into the connection, or is lost with a client that has gone.
LEMMA SendKeeps ==
  ASSUME IInv, TypeOK', DataOK', NEW c \in Client, SendOn(c) \/ SendIsLost(c)
  PROVE  Served(c)'
<1> USE DEF IInv, Served
<1>1. /\ Alive(c) /\ block[c] # <<>> /\ block'[c] = <<>>
      /\ ~Ended(c) => down'[c] = down[c] \o block[c]
      /\ UNCHANGED <<client, request, up, sent, got, local, backlog>>
      /\ UNCHANGED <<files, held, off, faults, before, overlap>>
      /\ child'[c] = child[c] \/ (child[c] = "download" /\ Ended(c) /\ child'[c] = "sleep")
  BY DEF SendOn, SendIsLost, At, clients, history, DataOK, TypeOK
<1>2. /\ ~Waiting(c) /\ ~Waiting(c)' /\ Open(c)
      /\ ~(client[c] = "done" /\ request[c].command = "download")
  BY <1>1 DEF Stage, Waiting, DownloadOK, Open
<1>3. Stage(c)'
  BY <1>1, <1>2 DEF Stage, Ended, Found
<1>4. UploadOK(c)'
  BY <1>1, <1>2 DEF UploadOK, Opened, File
<1>5. DownloadOK(c)'
  <2>1. ASSUME request[c].command = "download", ~Ended(c)
        PROVE  SubSeq(local[c], 1, got[c]) \o down'[c] \o block'[c]
                 = SubSeq(local[c], 1, got[c]) \o down[c] \o block[c]
    <3>1. /\ local[c] \in Content /\ down[c] \in Content /\ block[c] \in Content
          /\ got[c] \in 0..Len(local[c])
      BY SMTT(30), <2>1 DEF DownloadOK, DataOK, TypeOK, ClientTypeOK, Content
    <3>2. SubSeq(local[c], 1, got[c]) \in Content
      BY <3>1, ContentPrefix
    <3> DEFINE s == SubSeq(local[c], 1, got[c])
    <3> HIDE DEF s
    <3>3. s \o (down[c] \o block[c]) \o <<>> = s \o down[c] \o block[c]
      BY <3>1, <3>2, SentOn DEF s
    <3> QED
      BY <1>1, <2>1, <3>3 DEF s
  <2>2. \/ child'[c] \notin {"sent", "gone"} \/ Ended(c) \/ faults # 0
        \/ overlap[c] \/ ~Opened(c, "download")
    BY <1>1 DEF DownloadOK
  <2>3. Opened(c, "download")' = Opened(c, "download") /\ File(c)' = File(c) /\ Ended(c)' = Ended(c)
    BY <1>1 DEF Opened, File, Ended
  <2> QED
    BY <1>1, <1>2, <2>1, <2>2, <2>3 DEF DownloadOK, Opened
<1> QED
  BY <1>3, <1>4, <1>5

-----------------------------------------------------------------------------
(* The types. *)

\* What a client sends fits into its connection, or is lost.
LEMMA CarriedTypes ==
  ASSUME IInv, NEW c \in Client, NEW data \in {Query} \cup Block, Carried(c, data, Open(c))
  PROVE  up' \in [Client -> Seq({Query} \cup Block)] /\ \A d \in Client : Len(up'[d]) <= Room + 1
<1> USE DEF IInv
<1>1. /\ up \in [Client -> Seq({Query} \cup Block)] /\ \A d \in Client : Len(up[d]) <= Room + 1
      /\ Room \in Nat
  BY FileAssumption DEF TypeOK, ClientTypeOK, DataOK
<1>2. CASE Open(c)
  <2>1. Len(up[c]) < Room /\ up' = [up EXCEPT ![c] = Append(@, data)]
    BY <1>2 DEF Carried
  <2>2. Append(up[c], data) \in Seq({Query} \cup Block) /\ Len(Append(up[c], data)) <= Room + 1
    BY <1>1, <2>1, AppendProperties
  <2> QED
    BY <1>1, <2>1, <2>2
<1>3. CASE ~Open(c)
  BY <1>1, <1>3 DEF Carried
<1> QED
  BY <1>2, <1>3

\* The steps of the clients keep them: no two connections of one client wait,
\* and no connection carries more than it holds.
LEMMA ClientTypes ==
  ASSUME IInv, NEW c \in Client, UserActs(c) \/ ClientActs(c) \/ ClientWriteFails(c)
  PROVE  TypeOK' /\ DataOK'
<1> USE FileAssumption DEF IInv, clients, progress, history
<1>1. CASE UserActs(c) /\ Connect(c, Listening)
  <2>1. backlog' = Append(backlog, c) /\ c \notin Range(backlog)
    BY <1>1 DEF Connect, Forked
  <2>2. backlog' \in Seq(Client) /\ IsInjective(backlog')
    BY <2>1, QueueAppend DEF TypeOK, ClientTypeOK
  <2>3. client' \in [Client -> {"new", "open", "send", "recv", "done", "failed", "killed"}]
    BY <1>1 DEF Connect, Goto, TypeOK, ClientTypeOK
  <2>4. request' \in [Client -> Request]
    BY <1>1 DEF Connect, TypeOK, ClientTypeOK
  <2> QED
    BY <1>1, <2>2, <2>3, <2>4 DEF UserActs, Connect, TypeOK, ClientTypeOK, DataOK
<1>2. CASE UserActs(c) /\ Kill(c)
  BY <1>2 DEF UserActs, Kill, Goto, TypeOK, ClientTypeOK, DataOK
<1>3. CASE ClientWriteFails(c)
  <2>1. faults' \in 0..MaxFaults
    BY <1>3, ServerAssumption DEF ClientWriteFails, TypeOK
  <2> QED
    BY <1>3, <2>1 DEF ClientWriteFails, ReceiveFails, Goto, TypeOK, ClientTypeOK, DataOK
<1>4. CASE ClientActs(c) /\ (GiveUp(c) \/ SendFails(c, Open(c)) \/ Finish(c, Open(c)))
  <2>1. /\ client' \in [Client -> {"new", "open", "send", "recv", "done", "failed", "killed"}]
        /\ UNCHANGED <<request, up, down, sent, got, local, backlog>>
    BY <1>4 DEF GiveUp, SendFails, Finish, Goto, TypeOK, ClientTypeOK
  <2> QED
    BY <1>4, <2>1 DEF ClientActs, TypeOK, ClientTypeOK, DataOK
<1>5. CASE ClientActs(c) /\ SendQuery(c, Open(c))
  <2>1. client' \in [Client -> {"new", "open", "send", "recv", "done", "failed", "killed"}]
    BY <1>5 DEF SendQuery, Goto, TypeOK, ClientTypeOK
  <2>2. up' \in [Client -> Seq({Query} \cup Block)] /\ \A d \in Client : Len(up'[d]) <= Room + 1
    BY <1>5, CarriedTypes DEF SendQuery
  <2> QED
    BY <1>5, <2>1, <2>2 DEF ClientActs, SendQuery, TypeOK, ClientTypeOK, DataOK
<1>6. CASE ClientActs(c) /\ SendBlock(c, Open(c))
  <2>1. /\ sent[c] + 1 \in 1..Size /\ sent' = [sent EXCEPT ![c] = @ + 1]
    BY <1>6 DEF SendBlock, TypeOK, ClientTypeOK
  <2>2. Mine(c)[sent[c] + 1] \in Block
    <3>1. Mine(c)[sent[c] + 1] = <<c, sent[c] + 1>>
      BY <2>1, MineContent
    <3>2. sent[c] + 1 \in Nat
      BY <2>1
    <3> QED
      BY <3>1, <3>2 DEF Block
  <2>5. up' \in [Client -> Seq({Query} \cup Block)] /\ \A d \in Client : Len(up'[d]) <= Room + 1
    BY <1>6, <2>2, CarriedTypes DEF SendBlock
  <2>6. sent' \in [Client -> 0..Size]
    BY <2>1 DEF TypeOK, ClientTypeOK
  <2> QED
    BY <1>6, <2>5, <2>6 DEF ClientActs, SendBlock, TypeOK, ClientTypeOK, DataOK
<1>7. CASE ClientActs(c) /\ Receive(c)
  <2>1. /\ client[c] = "recv" /\ down[c] # <<>> /\ down' = [down EXCEPT ![c] = Tail(@)]
        /\ got' = [got EXCEPT ![c] = @ + 1]
    BY <1>7 DEF Receive
  <2>2. /\ down[c] \in Content /\ Tail(down[c]) \in Content /\ Head(down[c]) \in Block
        /\ Len(Tail(down[c])) <= Len(down[c])
        /\ Len(down[c]) \in Nat /\ Len(Tail(down[c])) \in Nat
    BY <2>1 DEF DataOK, Content
  <2>3. down' \in [Client -> Content] /\ \A d \in Client : Len(down'[d]) <= Room
    <3>1. \A d \in Client : Len(down[d]) <= Room
      BY DEF TypeOK, ClientTypeOK
    <3>2. Len(Tail(down[c])) <= Room
      BY <2>2, <3>1
    <3> QED
      BY <2>1, <2>2, <3>1, <3>2 DEF DataOK
  <2>4. got' \in [Client -> Nat]
    BY <2>1 DEF TypeOK, ClientTypeOK
  <2>5. local' \in [Client -> Content]
    <3>1. CASE request[c].command = "list"
      BY <1>7, <3>1 DEF Receive, DataOK
    <3>2. CASE request[c].command # "list"
      <4>1. request[c].command = "download" /\ got[c] <= Len(local[c])
        BY <2>1, <3>2 DEF Served, Stage, DownloadOK
      <4>2. local[c] \in Content /\ got[c] \in 0..Len(local[c])
        BY <4>1 DEF TypeOK, ClientTypeOK, DataOK, Content
      <4>3. Overlaid(local[c], Append(SubSeq(local[c], 1, got[c]), Head(down[c]))) \in Content
        BY <2>2, <4>2, WrittenBlock
      <4> QED
        BY <1>7, <3>2, <4>3 DEF Receive, DataOK
    <3> QED
      BY <3>1, <3>2
  <2> QED
    BY <1>7, <2>3, <2>4, <2>5 DEF ClientActs, Receive, TypeOK, ClientTypeOK, DataOK
<1> QED
  BY <1>1, <1>2, <1>3, <1>4, <1>5, <1>6, <1>7 DEF UserActs, ClientActs, ClientRuns

\* No connection waits.
LEMMA NoBacklog == <<>> \in Seq(Client) /\ IsInjective(<<>>)
BY DEF IsInjective

\* The steps of the parent keep them.
LEMMA ParentTypes ==
  ASSUME IInv, ParentStep \/ ParentExits
  PROVE  TypeOK' /\ DataOK'
<1> USE FileAssumption DEF IInv, clients, progress, history
<1>1. CASE Accept
  <2>1. /\ backlog # <<>> /\ backlog \in Seq(Client) /\ IsInjective(backlog)
        /\ cur' = Head(backlog) /\ backlog' = Tail(backlog)
    BY <1>1 DEF Accept, SetBacklog, TypeOK, ClientTypeOK
  <2>2. cur' \in Client /\ backlog' \in Seq(Client) /\ IsInjective(backlog')
    BY <2>1, QueueTail
  <2> QED
    BY <1>1, <2>2 DEF Accept, SetBacklog, TypeOK, ClientTypeOK, DataOK
<1>2. CASE Fork
  <2>1. child' \in [Client -> {"none", "query", "upload", "download", "list",
                               "saved", "sent", "sleep", "gone"}]
    BY <1>2 DEF Fork, TypeOK
  <2> QED
    BY <1>2, <2>1 DEF Fork, TypeOK, ClientTypeOK, DataOK
<1>3. CASE ParentCloses
  BY <1>3 DEF ParentCloses, TypeOK, ClientTypeOK, DataOK
<1>4. CASE ParentExits
  <2>1. faults' \in 0..MaxFaults
    BY <1>4, ServerAssumption DEF ParentExits, TypeOK
  <2>2. backlog' \in Seq(Client) /\ IsInjective(backlog')
    <3>1. backlog' = backlog \/ backlog' = <<>>
      BY <1>4 DEF ParentExits, SetBacklog
    <3> QED
      BY <3>1, NoBacklog DEF TypeOK, ClientTypeOK
  <2> QED
    BY <1>4, <2>1, <2>2 DEF ParentExits, SetBacklog, TypeOK, ClientTypeOK, DataOK
<1> QED
  BY <1>1, <1>2, <1>3, <1>4 DEF ParentStep

\* A connection that has room has room for one block.
LEMMA OneMore ==
  ASSUME NEW n \in Nat, NEW k \in Nat, k <= 1, NEW max \in Nat, n < max
  PROVE  n + k <= max
OBVIOUS

\* The steps of the children keep them: what is written is a file again, and
\* what is sent fits.
LEMMA ChildTypes ==
  ASSUME IInv, NEW c \in Client, ChildStep(c) \/ SaveFails(c) \/ BrokenPipe(c) \/ KillChild(c)
  PROVE  TypeOK' /\ DataOK'
<1> USE FileAssumption DEF IInv, clients, progress, history
<1> DEFINE States == {"none", "query", "upload", "download", "list", "saved", "sent", "sleep", "gone"}
<1>1. CASE ReceiveQuery(c)
  <2>1. /\ child[c] = "query" /\ up[c] # <<>> /\ up' = [up EXCEPT ![c] = Tail(@)]
        /\ UNCHANGED <<client, request, down, sent, got, local, backlog>>
        /\ UNCHANGED <<files, parent, cur, held, block, faults, overlap>>
    BY <1>1 DEF ReceiveQuery
  <2>2. up[c] \in Seq({Query} \cup Block) /\ Len(up[c]) \in Nat /\ Len(up[c]) <= Room + 1
    BY SMTT(30) DEF TypeOK, ClientTypeOK, DataOK
  <2>3. Tail(up[c]) \in Seq({Query} \cup Block) /\ Len(Tail(up[c])) <= Room + 1
    BY <2>1, <2>2
  <2>4. up' \in [Client -> Seq({Query} \cup Block)] /\ \A d \in Client : Len(up'[d]) <= Room + 1
    BY <2>1, <2>3 DEF TypeOK, ClientTypeOK, DataOK
  <2>5. request[c].command \in States
    <3>1. request[c] \in Request
      BY DEF TypeOK, ClientTypeOK
    <3> QED
      BY <3>1 DEF Request, NoRequest
  <2>6. child' \in [Client -> States] /\ off' \in [Client -> Nat \cup {-1}]
    <3>1. "sleep" \in States
      OBVIOUS
    <3>2. \/ At(c, request[c].command) /\ off' = [off EXCEPT ![c] = 0]
          \/ At(c, "sleep") /\ off' = off
      BY <1>1 DEF ReceiveQuery
    <3>3. child \in [Client -> States] /\ off \in [Client -> Nat \cup {-1}]
      BY DEF TypeOK
    <3> HIDE DEF States
    <3>4. child' \in [Client -> States]
      BY <2>5, <3>1, <3>2, <3>3 DEF At
    <3>5. off' \in [Client -> Nat \cup {-1}]
      BY <3>2, <3>3
    <3> QED
      BY <3>4, <3>5
  <2>7. before' \in [Client -> Content]
    <3>1. Found(c) => File(c) \in Content
      BY DEF Found, File, TypeOK, Content, Block
    <3>2. <<>> \in Content
      BY DEF Content
    <3> QED
      BY <1>1, <3>1, <3>2 DEF ReceiveQuery, DataOK
  <2> QED
    BY <2>1, <2>4, <2>6, <2>7 DEF TypeOK, ClientTypeOK, DataOK
<1>2. CASE SaveBlock(c)
  <2>1. /\ up[c] # <<>> /\ up' = [up EXCEPT ![c] = Tail(@)]
        /\ off' = [off EXCEPT ![c] = @ + 1]
        /\ overlap' = [d \in Client |->
                         overlap[d] \/ (d # c /\ off[d] # -1 /\ request[d].name = request[c].name)]
        /\ UNCHANGED <<client, request, down, sent, got, local, backlog>>
        /\ UNCHANGED <<parent, cur, held, child, block, faults, before>>
    BY <1>2 DEF SaveBlock
  <2>2. up[c] \in Seq({Query} \cup Block) /\ Len(up[c]) \in Nat /\ Len(up[c]) <= Room + 1
    BY SMTT(30) DEF TypeOK, ClientTypeOK, DataOK
  <2>3. Tail(up[c]) \in Seq({Query} \cup Block) /\ Len(Tail(up[c])) <= Room + 1
    BY <2>1, <2>2
  <2>4. up' \in [Client -> Seq({Query} \cup Block)] /\ \A d \in Client : Len(up'[d]) <= Room + 1
    BY <2>1, <2>3 DEF TypeOK, ClientTypeOK, DataOK
  <2>5. off' \in [Client -> Nat \cup {-1}]
    <3>1. off[c] \in Nat
      <4>1. off[c] # -1 /\ off[c] \in Nat \cup {-1}
        BY <1>2 DEF SaveBlock, Served, Stage, TypeOK
      <4> QED
        BY <4>1
    <3> QED
      BY <2>1, <3>1 DEF TypeOK
  <2>6. files' \in [Stored -> Content]
    BY <1>2, SavedFile
  <2>7. overlap' \in [Client -> BOOLEAN]
    BY <2>1 DEF TypeOK
  <2> QED
    BY <2>1, <2>4, <2>5, <2>6, <2>7 DEF TypeOK, ClientTypeOK, DataOK, Content, Block
<1>3. CASE LoadBlock(c) \/ LoadRow(c)
  <2> DEFINE b == IF child[c] = "download" THEN File(c)[off[c] + 1] ELSE Blocks(Server, Rows)[off[c] + 1]
  <2>1. /\ child[c] \in {"download", "list"} /\ block' = [block EXCEPT ![c] = <<b>>]
        /\ off' = [off EXCEPT ![c] = @ + 1]
        /\ UNCHANGED <<client, request, up, down, sent, got, local, backlog>>
        /\ UNCHANGED <<files, parent, cur, held, child, faults, before, overlap>>
    BY <1>3 DEF LoadBlock, LoadRow
  <2>2. off[c] \in Nat
    BY <2>1 DEF Served, Stage, TypeOK
  <2>3. b \in Block
    <3>1. CASE child[c] = "download"
      <4>1. Found(c) /\ ~AtEnd(c)
        BY <1>3, <3>1 DEF LoadBlock, LoadRow, Served, Stage
      <4>2. File(c) \in Content
        BY <4>1 DEF Found, File, TypeOK, Content, Block
      <4>3. off[c] + 1 \in 1..Len(File(c))
        BY <2>2, <4>1, <4>2 DEF AtEnd, Content
      <4> QED
        BY <3>1, <4>2, <4>3 DEF Content
    <3>2. CASE child[c] = "list"
      <4>1. off[c] + 1 \in 1..Rows
        BY <1>3, <2>2, <3>2, ServerAssumption DEF LoadBlock, LoadRow
      <4> QED
        BY <3>2, <4>1, ServerAssumption DEF Blocks, Block
    <3> QED
      BY <2>1, <3>1, <3>2
  <2> HIDE DEF b
  <2>4. <<b>> \in Content /\ Len(<<b>>) = 1
    BY <2>3 DEF Content
  <2>5. block' \in [Client -> Content] /\ \A d \in Client : Len(block'[d]) <= 1
    BY <2>1, <2>4 DEF DataOK
  <2>6. off' \in [Client -> Nat \cup {-1}]
    BY <2>1, <2>2 DEF TypeOK
  <2> QED
    BY <2>1, <2>5, <2>6 DEF TypeOK, ClientTypeOK, DataOK
<1>4. CASE SendOn(c)
  <2>1. /\ Len(down[c]) < Room /\ down' = [down EXCEPT ![c] = @ \o block[c]]
        /\ block' = [block EXCEPT ![c] = <<>>]
        /\ UNCHANGED <<client, request, up, sent, got, local, backlog>>
        /\ UNCHANGED <<files, parent, cur, held, child, off, faults, before, overlap>>
    BY <1>4 DEF SendOn
  <2>2. down[c] \in Content /\ block[c] \in Content /\ Len(block[c]) <= 1
    BY DEF DataOK
  <2> DEFINE t == down[c] \o block[c]
  <2>3. t \in Content /\ Len(t) = Len(down[c]) + Len(block[c]) /\ Len(down[c]) \in Nat /\ Len(block[c]) \in Nat
    BY <2>2, ContentConcat
  <2> HIDE DEF t
  <2>4. Len(t) <= Room
    <3>1. Room \in Nat
      BY FileAssumption
    <3>2. Len(down[c]) + Len(block[c]) <= Room
      BY <2>1, <2>2, <2>3, <3>1, OneMore
    <3> QED
      BY <2>3, <3>2
  <2>5. down' = [down EXCEPT ![c] = t]
    BY <2>1 DEF t
  <2>6. down' \in [Client -> Content] /\ \A d \in Client : Len(down'[d]) <= Room
    BY <2>3, <2>4, <2>5 DEF TypeOK, ClientTypeOK, DataOK
  <2>7. block' \in [Client -> Content] /\ \A d \in Client : Len(block'[d]) <= 1
    BY <2>1 DEF DataOK, Content
  <2> QED
    BY <2>1, <2>6, <2>7 DEF TypeOK, ClientTypeOK, DataOK
<1>5. CASE SendIsLost(c)
  <2>1. block' \in [Client -> Content] /\ \A d \in Client : Len(block'[d]) <= 1
    BY <1>5 DEF SendIsLost, DataOK, Content
  <2>2. child' \in [Client -> States]
    BY <1>5 DEF SendIsLost, At, TypeOK
  <2> QED
    BY <1>5, <2>1, <2>2 DEF SendIsLost, TypeOK, ClientTypeOK, DataOK
<1>6. CASE NoQuery(c) \/ SaveEnds(c) \/ Sent(c)
  <2>1. child' \in [Client -> States]
    BY <1>6 DEF NoQuery, SaveEnds, Sent, At, TypeOK
  <2> QED
    BY <1>6, <2>1 DEF NoQuery, SaveEnds, Sent, TypeOK, ClientTypeOK, DataOK
<1>7. CASE SaveFails(c)
  <2>1. child' \in [Client -> States] /\ faults' \in 0..MaxFaults
    BY <1>7, ServerAssumption DEF SaveFails, At, TypeOK
  <2> QED
    BY <1>7, <2>1 DEF SaveFails, TypeOK, ClientTypeOK, DataOK
<1>8. CASE ChildExits(c) \/ BrokenPipe(c) \/ KillChild(c)
  <2>1. Leaves(c) /\ faults' \in 0..MaxFaults
    BY <1>8, ServerAssumption DEF ChildExits, BrokenPipe, KillChild, TypeOK
  <2>2. child' \in [Client -> States]
    BY <2>1 DEF Leaves, At, TypeOK
  <2>3. backlog' \in Seq(Client) /\ IsInjective(backlog')
    <3>1. backlog' = backlog \/ backlog' = <<>>
      BY <2>1 DEF Leaves, SetBacklog
    <3> QED
      BY <3>1, NoBacklog DEF TypeOK, ClientTypeOK
  <2> QED
    BY <2>1, <2>2, <2>3 DEF Leaves, SetBacklog, TypeOK, ClientTypeOK, DataOK
<1> QED
  BY <1>1, <1>2, <1>3, <1>4, <1>5, <1>6, <1>7, <1>8 DEF ChildStep

-----------------------------------------------------------------------------
(* The parent's bookkeeping. *)

\* A step that neither forks nor accepts leaves it right.
LEMMA ForkedKept ==
  ASSUME IInv, TypeOK',
         parent' = "fork" => parent = "fork" /\ cur' = cur /\ held' = held,
         Range(backlog') \subseteq Range(backlog),
         \A d \in Client : client'[d] = "new" => client[d] = "new",
         \A d \in Client : child[d] = "none" => child'[d] = "none"
  PROVE  Forked'
<1>1. parent = "fork" => cur \in Client
  BY DEF IInv, Forked, TypeOK
<1> QED
  BY <1>1 DEF IInv, Forked

\* A connection joins the queue once; the parent forks for the one it has
\* accepted, and for no other.
LEMMA NextForked ==
  ASSUME IInv, TypeOK', DataOK', [Next]_vars
  PROVE  Forked'
<1> USE DEF IInv
<1>1. ASSUME NEW c \in Client, UserActs(c), Connect(c, Listening) PROVE Forked'
  <2>1. /\ client[c] = "new" /\ child[c] = "none" /\ c \notin Range(backlog)
        /\ backlog' = Append(backlog, c) /\ client' = [client EXCEPT ![c] = "open"]
        /\ UNCHANGED <<parent, cur, held, child>>
    BY <1>1 DEF UserActs, Connect, Goto, Forked
  <2>2. Range(backlog') = Range(backlog) \cup {c}
    BY <2>1, QueueAppend DEF TypeOK, ClientTypeOK
  <2>3. parent = "fork" => cur \in Client /\ cur # c
    BY <2>1 DEF Forked, TypeOK
  <2>4. \A d \in Client : client'[d] = IF d = c THEN "open" ELSE client[d]
    BY <2>1 DEF TypeOK, ClientTypeOK
  <2> QED
    BY <2>1, <2>2, <2>3, <2>4 DEF Forked
<1>2. ASSUME Accept PROVE Forked'
  <2>1. /\ backlog # <<>> /\ cur' = Head(backlog) /\ held' = held \cup {cur'} /\ backlog' = Tail(backlog)
        /\ UNCHANGED <<client, child>>
    BY <1>2 DEF Accept, SetBacklog
  <2>2. cur' \in Range(backlog) /\ cur' \in Client /\ Range(backlog') = Range(backlog) \ {cur'}
    BY <2>1, QueueTail DEF TypeOK, ClientTypeOK
  <2> QED
    BY <2>1, <2>2 DEF Forked
<1>3. ASSUME Fork PROVE Forked'
  <2>1. /\ cur \notin Range(backlog) /\ client[cur] # "new" /\ parent' = "close"
        /\ child' = [child EXCEPT ![cur] = "query"] /\ UNCHANGED <<client, backlog>>
    BY <1>3 DEF Fork, Forked, clients
  <2>2. \A d \in Client : d # cur => child'[d] = child[d]
    BY <2>1 DEF TypeOK
  <2> QED
    BY <2>1, <2>2 DEF Forked
<1>4. ASSUME ParentCloses \/ ParentExits PROVE Forked'
  <2>1. parent' # "fork" /\ UNCHANGED <<client, child>> /\ (backlog' = backlog \/ backlog' = <<>>)
    BY <1>4 DEF ParentCloses, ParentExits, SetBacklog, clients
  <2>2. Range(backlog') \subseteq Range(backlog)
    BY <2>1 DEF Range
  <2> QED
    BY <2>1, <2>2, ForkedKept
<1>5. ASSUME NEW c \in Client, (UserActs(c) /\ Kill(c)) \/ ClientActs(c) \/ ClientWriteFails(c) PROVE Forked'
  <2>1. UNCHANGED <<backlog, parent, cur, held, child>>
    BY <1>5 DEF UserActs, ClientActs, ClientWriteFails, ClientRuns, Kill, ReceiveFails,
                GiveUp, Receive, SendQuery, SendBlock, SendFails, Finish
  <2>2. \A d \in Client : client'[d] = "new" => client[d] = "new"
    <3>1. \/ client' = client
          \/ \E s \in {"done", "failed", "killed", "send", "recv"} : client' = [client EXCEPT ![c] = s]
      BY <1>5 DEF UserActs, ClientActs, ClientWriteFails, ClientRuns, Kill, ReceiveFails,
                  GiveUp, Receive, SendQuery, SendBlock, SendFails, Finish, Goto
    <3> QED
      BY <3>1 DEF TypeOK, ClientTypeOK
  <2> QED
    BY <2>1, <2>2, ForkedKept
<1>6. ASSUME NEW c \in Client, ChildStep(c) \/ SaveFails(c) \/ BrokenPipe(c) \/ KillChild(c) PROVE Forked'
  <2>1. UNCHANGED <<client, parent, cur, held>> /\ (backlog' = backlog \/ backlog' = <<>>)
    BY <1>6 DEF ChildStep, SaveFails, BrokenPipe, KillChild, ReceiveQuery, NoQuery, SaveBlock, SaveEnds,
                LoadBlock, LoadRow, SendOn, SendIsLost, Sent, ChildExits, Leaves, SetBacklog, clients
  <2>2. Range(backlog') \subseteq Range(backlog)
    BY <2>1 DEF Range
  <2>3. \/ child' = child
        \/ /\ child[c] # "none"
           /\ \E s \in {"upload", "download", "list", "none", "saved", "sent", "sleep", "gone"} :
                child' = [child EXCEPT ![c] = s]
    <3>1. request[c] \in Request
      BY DEF TypeOK, ClientTypeOK
    <3>2. request[c].command \in {"upload", "download", "list", "none"}
      BY <3>1 DEF Request, NoRequest
    <3>3. CASE ReceiveQuery(c)
      BY <3>2, <3>3 DEF ReceiveQuery, At
    <3>4. CASE NoQuery(c) \/ SaveFails(c) \/ SaveEnds(c) \/ SendIsLost(c) \/ Sent(c)
      BY <3>4 DEF NoQuery, SaveFails, SaveEnds, SendIsLost, Sent, At
    <3>5. CASE SaveBlock(c) \/ LoadBlock(c) \/ LoadRow(c) \/ SendOn(c)
      BY <3>5 DEF SaveBlock, LoadBlock, LoadRow, SendOn
    <3>6. CASE ChildExits(c) \/ BrokenPipe(c) \/ KillChild(c)
      BY <3>6 DEF ChildExits, BrokenPipe, KillChild, Leaves, At, Alive
    <3> QED
      BY <1>6, <3>3, <3>4, <3>5, <3>6 DEF ChildStep
  <2>4. \A d \in Client : child[d] = "none" => child'[d] = "none"
    BY <2>3 DEF TypeOK
  <2> QED
    BY <2>1, <2>2, <2>4, ForkedKept
<1>7. ASSUME UNCHANGED vars PROVE Forked'
  BY <1>7 DEF vars, clients, Forked
<1> QED
  BY <1>1, <1>2, <1>3, <1>4, <1>5, <1>6, <1>7 DEF Next, ParentStep, UserActs

-----------------------------------------------------------------------------
(* The files. *)

\* A block that is in place stays in place while nobody writes to a file: who
\* has opened it has opened it.
LEMMA BlocksKept ==
  ASSUME IInv, files' = files,
         \A c \in Client : off[c] # -1 => request'[c] = request[c] /\ off'[c] # -1
  PROVE  BlocksInPlace'
BY DEF IInv, BlocksInPlace, Opened

\* Only SaveBlock writes to a file, and one block.
LEMMA NextBlocks ==
  ASSUME IInv, TypeOK', DataOK', [Next]_vars
  PROVE  BlocksInPlace'
<1> USE DEF IInv
<1>1. ASSUME NEW c \in Client, SaveBlock(c) PROVE BlocksInPlace'
  <2> DEFINE n == request[c].name
             w == files'[n]
  <2>1. n \in Stored /\ Opened(c, "upload") /\ off[c] \in 0 .. Size - 1 /\ off[c] \in 0..Len(files[n])
    BY <1>1, SaveBlockData
  <2>2. /\ files[n] \in Content /\ w \in Content /\ Len(w) \in Nat
        /\ \A m \in Stored : m # n => files'[m] = files[m]
    BY <1>1, <2>1, SavedFile
  <2>3. /\ Len(w) = IF Len(files[n]) > off[c] THEN Len(files[n]) ELSE off[c] + 1
        /\ \A k \in 1..Len(w) : w[k] = IF k = off[c] + 1 THEN <<c, off[c] + 1>> ELSE files[n][k]
    BY <1>1, SavedFile
  <2>4. DOMAIN w = 1..Len(w) /\ DOMAIN files[n] = 1..Len(files[n]) /\ Len(files[n]) \in Nat
    BY <2>2 DEF Content
  <2>5. off[c] \in Nat /\ off[c] + 1 <= Size /\ Size \in Nat
    BY <2>1, FileAssumption
  <2>6. request' = request /\ \A d \in Client : Opened(d, "upload") => Opened(d, "upload")'
    <3>1. request' = request /\ off' = [off EXCEPT ![c] = @ + 1]
      BY <1>1 DEF SaveBlock
    <3>2. off'[c] # -1 /\ \A d \in Client : d # c => off'[d] = off[d]
      BY <2>5, <3>1 DEF TypeOK
    <3> QED
      BY <3>1, <3>2 DEF Opened
  <2>7. ASSUME NEW m \in Stored, NEW k \in DOMAIN files'[m]
        PROVE  \/ files'[m][k] = <<Server, k>> /\ k <= OldSize[m]
               \/ \E d \in Client :
                    Opened(d, "upload")' /\ request[d].name = m /\ files'[m][k] = <<d, k>> /\ k <= Size
    <3>1. CASE m = n /\ k = off[c] + 1
      <4>1. files'[m] = w /\ k \in 1..Len(w) /\ files'[m][k] = <<c, k>>
        BY <2>1, <2>2, <2>3, <2>4, <2>7, <3>1
      <4>2. k <= Size
        BY <2>5, <3>1
      <4> QED
        BY <2>1, <2>6, <3>1, <4>1, <4>2
    <3>2. CASE m = n /\ k # off[c] + 1
      <4>1. files'[m] = w /\ k \in 1..Len(w) /\ files'[m][k] = files[n][k]
        BY <2>1, <2>2, <2>3, <2>4, <2>7, <3>2
      <4>2. k \in DOMAIN files[n]
        <5>1. Len(w) = Len(files[n]) \/ (Len(w) = off[c] + 1 /\ Len(files[n]) = off[c])
          BY <2>1, <2>3, <2>4, <2>5
        <5>2. k \in 1..Len(files[n])
          BY <2>4, <2>5, <3>2, <4>1, <5>1
        <5> QED
          BY <2>4, <5>2
      <4> QED
        BY <2>1, <2>6, <3>2, <4>1, <4>2 DEF BlocksInPlace
    <3>3. CASE m # n
      <4>1. files'[m] = files[m]
        BY <2>1, <2>2, <3>3
      <4> QED
        BY <2>6, <2>7, <4>1 DEF BlocksInPlace
    <3> QED
      BY <3>1, <3>2, <3>3
  <2> QED
    BY <2>6, <2>7 DEF BlocksInPlace
<1>2. ASSUME NEW c \in Client, UserActs(c) \/ ClientActs(c) \/ ClientWriteFails(c) PROVE BlocksInPlace'
  <2>1. UNCHANGED <<files, off>>
    BY <1>2 DEF UserActs, ClientActs, ClientWriteFails, progress
  <2>2. request' = request \/ (off[c] = -1 /\ \E r \in Request : request' = [request EXCEPT ![c] = r])
    BY <1>2 DEF UserActs, ClientActs, ClientWriteFails, ClientRuns, Connect, Kill, ReceiveFails,
                GiveUp, Receive, SendQuery, SendBlock, SendFails, Finish, Served, Stage
  <2>3. \A d \in Client : off[d] # -1 => request'[d] = request[d]
    BY <2>2 DEF TypeOK, ClientTypeOK
  <2> QED
    BY <2>1, <2>3, BlocksKept
<1>3. ASSUME ParentStep \/ ParentExits \/ UNCHANGED vars PROVE BlocksInPlace'
  <2>1. UNCHANGED <<files, off, request>>
    BY <1>3 DEF ParentStep, ParentExits, Accept, Fork, ParentCloses, SetBacklog, vars, clients, progress
  <2> QED
    BY <2>1, BlocksKept
<1>4. ASSUME NEW c \in Client, ChildStep(c) \/ SaveFails(c) \/ BrokenPipe(c) \/ KillChild(c), ~SaveBlock(c)
      PROVE  BlocksInPlace'
  <2>1. UNCHANGED <<files, request>>
    BY <1>4 DEF ChildStep, SaveFails, BrokenPipe, KillChild, ReceiveQuery, NoQuery, SaveEnds,
                LoadBlock, LoadRow, SendOn, SendIsLost, Sent, ChildExits, Leaves, SetBacklog, clients
  <2>2. \/ off' = off
        \/ off' = [off EXCEPT ![c] = 0]
        \/ off' = [off EXCEPT ![c] = @ + 1] /\ off[c] # -1
    BY <1>4 DEF ChildStep, SaveFails, BrokenPipe, KillChild, ReceiveQuery, NoQuery, SaveEnds,
                LoadBlock, LoadRow, SendOn, SendIsLost, Sent, ChildExits, Leaves, progress, Served, Stage
  <2>3. \A d \in Client : off[d] # -1 => off'[d] # -1
    <3>1. \A d \in Client : off[d] \in Nat \cup {-1}
      BY DEF TypeOK
    <3>2. off[c] # -1 => off[c] + 1 # -1
      BY <3>1
    <3> QED
      BY <2>2, <3>2 DEF TypeOK
  <2> QED
    BY <2>1, <2>3, BlocksKept
<1> QED
  BY <1>1, <1>2, <1>3, <1>4 DEF Next

-----------------------------------------------------------------------------
(* What has come of each request. *)

\* A step of one client leaves the others as they are.
LEMMA ClientServed ==
  ASSUME IInv, TypeOK', DataOK', NEW c \in Client, NEW d \in Client,
         UserActs(c) \/ ClientActs(c) \/ ClientWriteFails(c)
  PROVE  Served(d)'
<1> USE DEF IInv
<1>1. CASE d # c
  <2>1. /\ UNCHANGED <<files, parent, cur, held, child, off, block, before, overlap>>
        /\ faults' = faults \/ faults' = faults + 1
    BY DEF UserActs, ClientActs, ClientWriteFails, progress, history
  <2>2. ClientSame(d)
    <3>1. CASE UserActs(c)
      BY <1>1, <3>1 DEF UserActs, Connect, Kill, Goto, ClientSame, TypeOK, ClientTypeOK
    <3>2. CASE ClientActs(c) /\ ~Receive(c)
      <4>1. /\ d \in DOMAIN client /\ d \in DOMAIN request /\ d \in DOMAIN up /\ d \in DOMAIN down
            /\ d \in DOMAIN sent /\ d \in DOMAIN got
        BY DEF TypeOK, ClientTypeOK, DataOK
      <4>2. GiveUp(c) \/ SendQuery(c, Open(c)) \/ SendBlock(c, Open(c)) \/ SendFails(c, Open(c)) \/ Finish(c, Open(c))
        BY <3>2 DEF ClientActs, ClientRuns
      <4> HIDE DEF IInv
      <4>3. CASE GiveUp(c) \/ SendFails(c, Open(c)) \/ Finish(c, Open(c))
        BY <1>1, <4>1, <4>3 DEF GiveUp, SendFails, Finish, Goto, ClientSame
      <4>4. CASE SendQuery(c, Open(c))
        BY <1>1, <4>1, <4>4 DEF SendQuery, Carried, Goto, ClientSame
      <4>5. CASE SendBlock(c, Open(c))
        BY <1>1, <4>1, <4>5 DEF SendBlock, Carried, ClientSame
      <4> QED
        BY <4>2, <4>3, <4>4, <4>5
    <3>3. CASE ClientActs(c) /\ Receive(c)
      BY <1>1, <3>3 DEF Receive, ClientSame, TypeOK, ClientTypeOK, DataOK
    <3>4. CASE ClientWriteFails(c)
      BY <1>1, <3>4 DEF ClientWriteFails, ReceiveFails, Goto, ClientSame, TypeOK, ClientTypeOK
    <3> QED
      BY <3>1, <3>2, <3>3, <3>4
  <2>3. d \in Range(backlog') => d \in Range(backlog)
    <3>1. CASE UserActs(c) /\ Connect(c, Listening)
      <4>1. c \notin Range(backlog) /\ backlog' = Append(backlog, c)
        BY <3>1 DEF Connect, Forked
      <4>2. Range(backlog') = Range(backlog) \cup {c}
        BY <4>1, QueueAppend DEF TypeOK, ClientTypeOK
      <4> QED
        BY <1>1, <4>2
    <3>2. CASE ~(UserActs(c) /\ Connect(c, Listening))
      <4>1. backlog' = backlog
        BY <3>2 DEF UserActs, ClientActs, ClientWriteFails, ClientRuns, Kill, ReceiveFails,
                    GiveUp, Receive, SendQuery, SendBlock, SendFails, Finish
      <4> QED
        BY <4>1
    <3> QED
      BY <3>1, <3>2
  <2>4. faults' = 0 => faults = 0
    BY <2>1 DEF TypeOK
  <2>5. ChildSame(d)
    BY <2>1 DEF ChildSame
  <2>6. Around(d)
    <3>1. Found(d) => Len(File(d)) \in Nat /\ files'[request[d].name] = File(d)
      BY <2>1 DEF Found, File, TypeOK
    <3> QED
      BY <2>1, <2>3, <2>4, <3>1 DEF Around
  <2> QED
    BY <2>2, <2>5, <2>6, Kept
<1>2. CASE d = c
  <2>1. CASE UserActs(c) /\ Connect(c, Listening)
    BY <1>2, <2>1, ConnectKeeps DEF UserActs
  <2>2. CASE ClientActs(c) /\ SendQuery(c, Open(c))
    BY <1>2, <2>2, SendQueryKeeps DEF ClientActs
  <2>3. CASE ClientActs(c) /\ SendBlock(c, Open(c))
    BY <1>2, <2>3, SendBlockKeeps DEF ClientActs
  <2>4. CASE ClientActs(c) /\ Receive(c)
    BY <1>2, <2>4, ReceiveKeeps DEF ClientActs
  <2>5. CASE \/ UserActs(c) /\ Kill(c)
             \/ ClientWriteFails(c)
             \/ ClientActs(c) /\ (GiveUp(c) \/ SendFails(c, Open(c)) \/ Finish(c, Open(c)))
    <3>1. /\ UNCHANGED <<request, up, down, sent, got, local, backlog>>
          /\ UNCHANGED <<files, held, child, off, block, before, overlap>>
          /\ client[c] \in {"open", "send", "recv"}
          /\ faults' = faults \/ faults' = faults + 1
      BY <2>5 DEF UserActs, ClientActs, ClientWriteFails, Kill, ReceiveFails, GiveUp, SendFails, Finish,
                  progress, history
    <3>2. faults' = 0 => faults = 0
      BY <3>1 DEF TypeOK
    <3>3. \/ client' = [client EXCEPT ![c] = "failed"]
          \/ client' = [client EXCEPT ![c] = "killed"]
          \/ /\ client' = [client EXCEPT ![c] = "done"]
             /\ \/ client[c] = "open" /\ request[c] = NoRequest
                \/ client[c] = "send" /\ sent[c] = Size
                \/ client[c] = "recv" /\ down[c] = <<>> /\ ~Open(c)
      BY <2>5 DEF UserActs, ClientActs, ClientWriteFails, Kill, ReceiveFails, GiveUp, SendFails, Finish, Goto
    <3>4. client'[c] \in {"done", "failed", "killed"}
      BY <3>3 DEF TypeOK, ClientTypeOK
    <3>5. client'[c] = "done" =>
            \/ request[c].command = "none"
            \/ request[c].command = "upload" /\ sent[c] = Size
            \/ request[c].command # "upload" /\ client[c] = "recv" /\ down[c] = <<>> /\ ~Open(c)
      <4>1. client[c] = "send" => request[c].command = "upload"
        BY DEF Served, Stage
      <4>2. client[c] = "recv" => request[c].command # "upload"
        BY DEF Served, Stage
      <4> QED
        BY <3>3, <4>1, <4>2 DEF TypeOK, ClientTypeOK, NoRequest
    <3>6. ~Ended(c) /\ client[c] # "new" /\ Ended(c)'
      BY <3>1, <3>4 DEF Ended
    <3>7. Served(c)'
      BY <3>1, <3>2, <3>5, <3>6, ClientEnds
    <3> QED
      BY <1>2, <3>7
  <2> QED
    BY <2>1, <2>2, <2>3, <2>4, <2>5 DEF UserActs, ClientActs, ClientRuns
<1> QED
  BY <1>1, <1>2

\* The parent and the connections it opens, hands over and closes.
LEMMA ParentServed ==
  ASSUME IInv, TypeOK', DataOK', NEW d \in Client, ParentStep \/ ParentExits
  PROVE  Served(d)'
<1> USE DEF IInv
<1>1. CASE Fork /\ d = cur
  BY <1>1, ForkKeeps
<1>2. CASE ~(Fork /\ d = cur)
  <2>1. /\ UNCHANGED <<client, request, up, down, sent, got, local>>
        /\ UNCHANGED <<files, off, block, before, overlap>>
        /\ faults' = faults \/ faults' = faults + 1
    BY DEF ParentStep, ParentExits, Accept, Fork, ParentCloses, SetBacklog, clients, progress, history
  <2>2. faults' = 0 => faults = 0
    BY <2>1 DEF TypeOK
  <2>3. child'[d] = child[d]
    BY <1>2 DEF ParentStep, ParentExits, Accept, Fork, ParentCloses, TypeOK
  <2>4. d \in held' \cup Range(backlog') => d \in held \cup Range(backlog)
    <3>1. CASE Accept
      <4>1. backlog # <<>> /\ held' = held \cup {Head(backlog)} /\ backlog' = Tail(backlog)
        BY <3>1 DEF Accept, SetBacklog
      <4>2. Head(backlog) \in Range(backlog) /\ Range(backlog') = Range(backlog) \ {Head(backlog)}
        BY <4>1, QueueTail DEF TypeOK, ClientTypeOK
      <4> QED
        BY <4>1, <4>2
    <3>2. CASE Fork \/ ParentCloses \/ ParentExits
      <4>1. held' \subseteq held /\ (backlog' = backlog \/ backlog' = <<>>)
        BY <3>2 DEF Fork, ParentCloses, ParentExits, SetBacklog, clients
      <4>2. Range(<<>>) = {}
        BY DEF Range
      <4> QED
        BY <4>1, <4>2
    <3> QED
      BY <3>1, <3>2 DEF ParentStep
  <2>5. ClientSame(d) /\ ChildSame(d)
    BY <2>1, <2>3 DEF ClientSame, ChildSame
  <2>6. Around(d)
    <3>1. Found(d) => Len(File(d)) \in Nat /\ files'[request[d].name] = File(d)
      BY <2>1 DEF Found, File, TypeOK
    <3> QED
      BY <2>2, <2>4, <3>1 DEF Around
  <2> QED
    BY <2>5, <2>6, Kept
<1> QED
  BY <1>1, <1>2

\* A step of one child leaves the other requests as they are, but for what it
\* writes to their file.
LEMMA ChildServed ==
  ASSUME IInv, TypeOK', DataOK', NEW c \in Client, NEW d \in Client,
         ChildStep(c) \/ SaveFails(c) \/ BrokenPipe(c) \/ KillChild(c)
  PROVE  Served(d)'
<1> USE DEF IInv
<1>1. UNCHANGED <<client, request, sent, got, local, held>> /\ (faults' = faults \/ faults' = faults + 1)
  BY DEF ChildStep, SaveFails, BrokenPipe, KillChild, ReceiveQuery, NoQuery, SaveBlock, SaveEnds,
         LoadBlock, LoadRow, SendOn, SendIsLost, Sent, ChildExits, Leaves, SetBacklog, clients
<1>2. faults' = 0 => faults = 0
  BY <1>1 DEF TypeOK
<1>3. CASE d # c
  <2>1. up'[d] = up[d] /\ down'[d] = down[d]
    BY <1>3 DEF ChildStep, SaveFails, BrokenPipe, KillChild, ReceiveQuery, NoQuery, SaveBlock, SaveEnds,
           LoadBlock, LoadRow, SendOn, SendIsLost, Sent, ChildExits, Leaves, SetBacklog, clients, DataOK
  <2>2. ChildSame(d)
    <3>1. child'[d] = child[d]
      BY <1>3 DEF ChildStep, SaveFails, BrokenPipe, KillChild, ReceiveQuery, NoQuery, SaveBlock, SaveEnds,
             LoadBlock, LoadRow, SendOn, SendIsLost, Sent, ChildExits, Leaves, At, TypeOK
    <3>2. off'[d] = off[d] /\ block'[d] = block[d]
      BY <1>3 DEF ChildStep, SaveFails, BrokenPipe, KillChild, ReceiveQuery, NoQuery, SaveBlock, SaveEnds,
             LoadBlock, LoadRow, SendOn, SendIsLost, Sent, ChildExits, Leaves, progress, TypeOK, DataOK
    <3>3. before'[d] = before[d] /\ (overlap[d] => overlap'[d])
      BY <1>3 DEF ChildStep, SaveFails, BrokenPipe, KillChild, ReceiveQuery, NoQuery, SaveBlock, SaveEnds,
             LoadBlock, LoadRow, SendOn, SendIsLost, Sent, ChildExits, Leaves, history, TypeOK, DataOK
    <3> QED
      BY <3>1, <3>2, <3>3 DEF ChildSame
  <2>3. d \in Range(backlog') => d \in Range(backlog)
    <3>1. backlog' = backlog \/ backlog' = <<>>
      BY DEF ChildStep, SaveFails, BrokenPipe, KillChild, ReceiveQuery, NoQuery, SaveBlock, SaveEnds,
             LoadBlock, LoadRow, SendOn, SendIsLost, Sent, ChildExits, Leaves, SetBacklog, clients
    <3>2. Range(<<>>) = {}
      BY DEF Range
    <3> QED
      BY <3>1, <3>2
  <2>4. /\ Found(d) => Len(File(d)) <= Len(files'[request[d].name])
        /\ Found(d) /\ off[d] # -1 /\ ~overlap'[d] => files'[request[d].name] = File(d)
    <3>1. CASE SaveBlock(c)
      <4> DEFINE n == request[c].name
      <4>1. Len(files[n]) <= Len(files'[n]) /\ \A m \in Stored : m # n => files'[m] = files[m]
        <5>1. off[c] \in 0..Len(files[n])
          BY <3>1, SaveBlockData
        <5>2. /\ Len(files[n]) \in Nat /\ \A m \in Stored : m # n => files'[m] = files[m]
              /\ Len(files'[n]) = IF Len(files[n]) > off[c] THEN Len(files[n]) ELSE off[c] + 1
          BY <3>1, SavedFile
        <5> QED
          BY <5>1, <5>2
      <4>2. CASE request[d].name = n
        <5>1. off[d] # -1 => overlap'[d]
          BY <1>3, <3>1, <4>2 DEF SaveBlock
        <5> QED
          BY <4>1, <4>2, <5>1 DEF File
      <4>3. CASE request[d].name # n
        <5>1. Found(d) => files'[request[d].name] = File(d) /\ Len(File(d)) \in Nat
          BY <4>1, <4>3 DEF Found, File, TypeOK
        <5> QED
          BY <5>1
      <4> QED
        BY <4>2, <4>3
    <3>2. CASE ~SaveBlock(c)
      <4>1. files' = files
        BY <3>2 DEF ChildStep, SaveFails, BrokenPipe, KillChild, ReceiveQuery, NoQuery, SaveEnds,
               LoadBlock, LoadRow, SendOn, SendIsLost, Sent, ChildExits, Leaves
      <4>2. Found(d) => Len(File(d)) \in Nat
        BY DEF Found, File, TypeOK
      <4> QED
        BY <4>1, <4>2 DEF File
    <3> QED
      BY <3>1, <3>2
  <2>5. ClientSame(d) /\ Around(d)
    BY <1>1, <1>2, <2>1, <2>3, <2>4 DEF ClientSame, Around
  <2> QED
    BY <2>2, <2>5, Kept
<1>4. CASE d = c
  <2>1. CASE ReceiveQuery(c)
    BY <1>4, <2>1, ReceiveQueryKeeps
  <2>2. CASE SaveBlock(c)
    BY <1>4, <2>2, SaveBlockKeeps
  <2>3. CASE LoadBlock(c) \/ LoadRow(c)
    BY <1>4, <2>3, LoadKeeps
  <2>4. CASE SendOn(c) \/ SendIsLost(c)
    BY <1>4, <2>4, SendKeeps
  <2>5. CASE \/ NoQuery(c) \/ SaveEnds(c) \/ SaveFails(c) \/ Sent(c)
             \/ ChildExits(c) \/ BrokenPipe(c) \/ KillChild(c)
    <3>1. /\ UNCHANGED <<client, request, up, down, sent, got, local>>
          /\ UNCHANGED <<files, off, block, before, overlap>>
      BY <2>5 DEF SaveFails, BrokenPipe, KillChild, NoQuery, SaveEnds,
                  Sent, ChildExits, Leaves, SetBacklog, clients, progress, history
    <3>2. Alive(c)
      BY <2>5 DEF SaveFails, BrokenPipe, KillChild, NoQuery, SaveEnds, Sent, ChildExits, Alive
    <3>3. \/ child[c] = "query" /\ Ended(c) /\ child'[c] = "sleep"
          \/ child[c] = "upload" /\ child'[c] = "sleep"
          \/ child[c] = "upload" /\ EndOfFile(c) /\ child'[c] = "saved"
          \/ child[c] = "download" /\ AtEnd(c) /\ block[c] = <<>> /\ child'[c] = "sent"
          \/ child[c] = "list" /\ child'[c] = "sent"
          \/ child'[c] = "gone" /\ child[c] \in {"sleep", "saved", "sent"}
          \/ child'[c] = "gone" /\ (Ended(c) \/ faults' # 0)
      <4>1. \A s : At(c, s) => child'[c] = s
        BY DEF At, TypeOK
      <4>2. CASE KillChild(c)
        <5>1. faults' # 0
          BY <4>2 DEF KillChild, TypeOK
        <5> QED
          BY <4>1, <4>2, <5>1 DEF KillChild, Leaves
      <4>3. CASE NoQuery(c) \/ SaveEnds(c) \/ SaveFails(c) \/ Sent(c)
        BY <4>1, <4>3 DEF NoQuery, SaveEnds, SaveFails, Sent
      <4>4. CASE ChildExits(c) \/ BrokenPipe(c)
        BY <4>1, <4>4 DEF ChildExits, BrokenPipe, Leaves
      <4> QED
        BY <2>5, <4>2, <4>3, <4>4
    <3>4. Served(c)'
      BY <1>2, <3>1, <3>2, <3>3, ChildMoves
    <3> QED
      BY <1>4, <3>4
  <2> QED
    BY <2>1, <2>2, <2>3, <2>4, <2>5 DEF ChildStep
<1> QED
  BY <1>3, <1>4

-----------------------------------------------------------------------------
(* All of it. *)

\* Every step preserves the invariant.
LEMMA NextIInv == IInv /\ [Next]_vars => IInv'
<1> SUFFICES ASSUME IInv, [Next]_vars PROVE IInv'
  OBVIOUS
<1>1. CASE UNCHANGED vars
  <2>1. /\ UNCHANGED <<client, request, up, down, sent, got, local, backlog>>
        /\ UNCHANGED <<files, parent, cur, held, child, off, block, faults, before, overlap>>
    BY <1>1 DEF vars, clients, progress, history
  <2>2. TypeOK' /\ DataOK'
    BY <2>1 DEF IInv, TypeOK, ClientTypeOK, DataOK, IsInjective
  <2>3. ASSUME NEW d \in Client PROVE Served(d)'
    <3>1. ClientSame(d) /\ ChildSame(d)
      BY <2>1 DEF ClientSame, ChildSame
    <3>2. Around(d)
      <4>1. Found(d) => Len(File(d)) \in Nat /\ files'[request[d].name] = File(d)
        BY <2>1 DEF IInv, Found, File, TypeOK
      <4> QED
        BY <2>1, <4>1 DEF Around
    <3> QED
      BY <2>2, <3>1, <3>2, Kept
  <2> QED
    BY <2>2, <2>3, NextForked, NextBlocks DEF IInv
<1>2. CASE Next
  <2>1. TypeOK' /\ DataOK'
    BY <1>2, ClientTypes, ParentTypes, ChildTypes DEF Next
  <2>2. ASSUME NEW d \in Client PROVE Served(d)'
    BY <1>2, <2>1, ClientServed, ParentServed, ChildServed DEF Next
  <2> QED
    BY <2>1, <2>2, NextForked, NextBlocks DEF IInv
<1> QED
  BY <1>1, <1>2

\* Whatever the clients, their files and requests, whoever else reads or writes
\* the same file meanwhile, and whichever processes are killed: every block of
\* a file is at its own position (InPlace), an upload or a download that has the
\* file to itself is exact (LoneUploadExact, DownloadExact), and a child that
\* met the end of a complete upload has all of it (WholeUpload).
THEOREM Safety == Spec => []Inv
<1>1. Init => IInv
  BY InitIInv
<1>2. IInv /\ [Next]_vars => IInv'
  BY NextIInv
<1>3. IInv => Inv
  BY IInvInv
<1> QED
  BY <1>1, <1>2, <1>3, PTL DEF Spec

-----------------------------------------------------------------------------
(* The web server. *)

\* The module's operators are those of the lemmas about queues and finite sets.
LEMMA WebQueue ==
  ASSUME NEW q PROVE Web!Range(q) = Range(q) /\ (Web!IsInjective(q) <=> IsInjective(q))
BY DEF Range, IsInjective, Web!Range, Web!IsInjective

LEMMA WebCardinality == Web!Cardinality({}) = 0
<1>1. Web!Cardinality({}) = Cardinality({})
  BY DEF Web!Cardinality, Cardinality
<1> QED
  BY <1>1, FS_EmptySet

Steps == {"none", "read", "access", "stat", "open", "copy", "done"}

\* What requests and the names of pages are made of.
Part == STRING \cup {"GET", "HTTP/1.1"}

\* What a child writes after its header.
Output == ((Inode \cup {NoFile}) \X (Nat \ {0})) \cup {"codemsg"}

\* The history, and how much of it is bounded.
WebData ==
  /\ w_backlog \in Seq(Browser) /\ w_stops \in Nat
  /\ page \in [Browser -> Seq(Part)]
  /\ body \in [Browser -> Seq(Output)]
  /\ whole \in [Browser -> BOOLEAN] /\ touched \in [Browser -> BOOLEAN]

\* Child c has the page that was asked for, as far as it has read.
Asked(c) ==
  w_asked[c] # <<>> /\ w_asked[c][1] = "GET" =>
    /\ Web!IsPrefix(page[c], Web!Parsed(c, Len(w_asked[c])))
    /\ whole[c] => page[c] = Web!Parsed(c, Len(w_asked[c]))

\* What is known of connection c where its child is.
Child(c) ==
  /\ browser[c] \in {"new", "silent"} => w_asked[c] = <<>> /\ w_pc[c] \in {"none", "read", "done"}
  /\ browser[c] = "new" => w_pc[c] = "none"
  /\ w_pc[c] \in {"none", "read"} => page[c] = Web!Root
  /\ w_pc[c] \in {"none", "read", "access"} => ~touched[c]
  /\ w_pc[c] \in {"none", "read", "access", "stat"} => status[c] = 0 /\ body[c] = <<>>
  /\ w_pc[c] \in {"access", "stat", "open", "copy"} => Asked(c)
  /\ w_pc[c] = "stat" /\ ~touched[c] => Web!There(page[c])
  /\ w_pc[c] = "open" =>
       /\ status[c] = 200 /\ body[c] = <<>>
       /\ ~touched[c] /\ page[c] # Web!Root => Web!There(page[c]) /\ length[c] = len[dir[page[c]]]
  /\ w_pc[c] = "copy" =>
       /\ status[c] = 200 /\ page[c] # Web!Root /\ fd[c] \in Inode
       /\ ~touched[c] => length[c] = len[fd[c]] /\ Len(body[c]) <= len[fd[c]]

\* What its client gets.
Got(c) ==
  /\ status[c] = 200 => body[c] = [k \in 1..Len(body[c]) |-> <<fd[c], k>>]
  /\ w_pc[c] = "done" /\ status[c] = 200 /\ browser[c] # "left" /\ ~touched[c]
       => Len(body[c]) = IF page[c] = Web!Root THEN 0 ELSE length[c]
  /\ w_pc[c] \notin {"none", "read"} /\ w_asked[c] # <<>> /\ w_asked[c][1] = "GET" =>
       /\ Web!IsPrefix(page[c], Web!Parsed(c, Len(w_asked[c])))
       /\ whole[c] /\ status[c] # 0 => page[c] = Web!Parsed(c, Len(w_asked[c]))

\* Nobody is in the backlog who has not connected.
Connected == \A c \in Range(w_backlog) : browser[c] # "new"

WebIInv ==
  /\ Web!TypeOK /\ WebData /\ Connected /\ Web!WaitersHaveListener
  /\ \A c \in Browser : Child(c) /\ Got(c)

LEMMA WebIInvInv == WebIInv => Web!Inv
BY DEF WebIInv, Got, Web!Inv, Web!BodyOfOneFile, Web!LengthMatchesBody, Web!PageAsked

\* Before the child has read it has the root directory, a beginning of any page.
LEMMA RootIsPrefix == ASSUME NEW s, Len(s) \in Nat PROVE Web!IsPrefix(Web!Root, s)
<1>1. Len(<<>>) = 0 /\ SubSeq(<<>>, 1, 0) = <<>> /\ SubSeq(s, 1, 0) = <<>>
  BY SubSeqEmpty
<1> QED
  BY <1>1 DEF Web!IsPrefix, Web!Root

\* What a GET request is made of.
LEMMA GetIs ==
  ASSUME Web!WebAssumption, NEW r \in Web!Request \cup {<<>>}, r # <<>>, r[1] = "GET"
  PROVE  r \in Seq(Part) /\ Len(r) >= 3
<1>1. <<"POST">>[1] # "GET"
  OBVIOUS
<1>2. PICK p \in Page : r = <<"GET">> \o p \o <<"HTTP/1.1">>
  BY <1>1 DEF Web!Request, Web!Get
<1>3. p \in Seq(Part) /\ p # <<>>
  <2>1. p \in Seq(STRING) /\ p # <<>>
    BY DEF Web!WebAssumption
  <2> QED
    BY <2>1, SeqMonotonic DEF Part
<1>4. Len(p) > 0 /\ Len(p) \in Nat
  BY <1>3
<1>5. <<"GET">> \in Seq(Part) /\ <<"HTTP/1.1">> \in Seq(Part) /\ Len(<<"GET">>) = 1 /\ Len(<<"HTTP/1.1">>) = 1
  <2>1. "GET" \in Part /\ "HTTP/1.1" \in Part
    BY DEF Part
  <2>2. \A x \in Part : <<x>> \in Seq(Part) /\ Len(<<x>>) = 1
    OBVIOUS
  <2> QED
    BY <2>1, <2>2
<1>6. <<"GET">> \o p \in Seq(Part) /\ Len(<<"GET">> \o p) = 1 + Len(p)
  BY <1>3, <1>5
<1>7. r \in Seq(Part) /\ Len(r) = (1 + Len(p)) + 1
  BY <1>2, <1>5, <1>6
<1> QED
  BY <1>4, <1>7

\* A request that is cut names a beginning of the page.
LEMMA ParsedIsPrefix ==
  ASSUME NEW c \in Browser, w_asked[c] \in Seq(Part), Len(w_asked[c]) >= 3, NEW n \in 1..Len(w_asked[c])
  PROVE  /\ Web!Parsed(c, n) \in Seq(Part)
         /\ Web!IsPrefix(Web!Parsed(c, n), Web!Parsed(c, Len(w_asked[c])))
<1> DEFINE r == w_asked[c]
           m == IF n = Len(r) THEN n - 1 ELSE n
           s == SubSeq(r, 2, m)
           t == SubSeq(r, 2, Len(r) - 1)
<1>1. Web!Parsed(c, n) = s /\ Web!Parsed(c, Len(r)) = t
  BY DEF Web!Parsed
<1>2. Len(r) \in Nat /\ Len(r) >= 3 /\ m \in 1 .. Len(r) - 1 /\ r \in Seq(Part)
  OBVIOUS
<1> HIDE DEF r, m
<1>3. /\ s \in Seq(Part) /\ Len(s) = m - 1 /\ \A k \in 1 .. m - 1 : s[k] = r[k + 1]
      /\ t \in Seq(Part) /\ Len(t) = Len(r) - 2 /\ \A k \in 1 .. Len(r) - 2 : t[k] = r[k + 1]
  <2>1. (\A k \in 2..m : r[k] \in Part) /\ (\A k \in 2 .. Len(r) - 1 : r[k] \in Part)
    BY <1>2
  <2>2. /\ s \in Seq(Part) /\ Len(s) = (IF 2 <= m THEN m - 2 + 1 ELSE 0)
        /\ \A k \in 1 .. m - 2 + 1 : s[k] = r[2 + k - 1]
    BY <1>2, <2>1, SubSeqProperties
  <2>3. /\ t \in Seq(Part) /\ Len(t) = (IF 2 <= Len(r) - 1 THEN Len(r) - 1 - 2 + 1 ELSE 0)
        /\ \A k \in 1 .. Len(r) - 1 - 2 + 1 : t[k] = r[2 + k - 1]
    BY <1>2, <2>1, SubSeqProperties
  <2>4. m - 2 + 1 = m - 1 /\ (IF 2 <= m THEN m - 2 + 1 ELSE 0) = m - 1
    BY <1>2
  <2>5. /\ Len(r) - 1 - 2 + 1 = Len(r) - 2
        /\ (IF 2 <= Len(r) - 1 THEN Len(r) - 1 - 2 + 1 ELSE 0) = Len(r) - 2
    BY <1>2
  <2>6. \A k \in Int : 2 + k - 1 = k + 1
    OBVIOUS
  <2> HIDE DEF s, t
  <2>7. \A k \in 1 .. m - 1 : s[k] = r[k + 1]
    BY <2>2, <2>4, <2>6
  <2>8. \A k \in 1 .. Len(r) - 2 : t[k] = r[k + 1]
    <3>1. ASSUME NEW k \in 1 .. Len(r) - 2 PROVE k \in 1 .. Len(r) - 1 - 2 + 1 /\ 2 + k - 1 = k + 1
      BY <1>2, <2>5
    <3>2. \A k \in 1 .. Len(r) - 1 - 2 + 1 : t[k] = r[2 + k - 1]
      BY <2>3
    <3> QED
      BY <3>1, <3>2
  <2> QED
    BY <2>2, <2>3, <2>4, <2>5, <2>7, <2>8
<1> HIDE DEF s, t
<1>4. SubSeq(s, 1, Len(s)) = SubSeq(t, 1, Len(s))
  <2>1. Len(s) <= Len(t)
    BY <1>2, <1>3
  <2> DEFINE u == SubSeq(s, 1, Len(s))
             v == SubSeq(t, 1, Len(s))
  <2>2. u \in Seq(Part) /\ Len(u) = Len(s) /\ \A k \in 1..Len(s) : u[k] = s[k]
    BY <1>3
  <2>3. v \in Seq(Part) /\ Len(v) = Len(s) /\ \A k \in 1..Len(s) : v[k] = t[k]
    BY <1>3, <2>1
  <2>4. \A k \in 1..Len(s) : s[k] = t[k]
    BY <1>2, <1>3
  <2> HIDE DEF u, v
  <2>5. u = v
    BY <2>2, <2>3, <2>4
  <2> QED
    BY <2>5 DEF u, v
<1>5. Len(s) <= Len(t)
  BY <1>2, <1>3
<1> QED
  BY <1>1, <1>3, <1>4, <1>5 DEF Web!IsPrefix, r

\* What is parsed of a whole GET request is a sequence that Root begins.
LEMMA WholeParsed ==
  ASSUME Web!WebAssumption, Web!TypeOK, NEW c \in Browser, w_asked[c] # <<>>, w_asked[c][1] = "GET"
  PROVE  /\ w_asked[c] \in Seq(Part) /\ Len(w_asked[c]) >= 3
         /\ Web!IsPrefix(Web!Root, Web!Parsed(c, Len(w_asked[c])))
<1>1. w_asked[c] \in Seq(Part) /\ Len(w_asked[c]) >= 3
  BY GetIs DEF Web!TypeOK
<1>2. Len(w_asked[c]) \in 1..Len(w_asked[c])
  BY <1>1
<1>3. Web!Parsed(c, Len(w_asked[c])) \in Seq(Part)
  BY <1>1, <1>2, ParsedIsPrefix
<1>4. Len(Web!Parsed(c, Len(w_asked[c]))) \in Nat
  BY <1>3
<1> QED
  BY <1>1, <1>4, RootIsPrefix

LEMMA EmptyBody == ASSUME NEW f PROVE <<>> = [k \in 1..Len(<<>>) |-> <<f, k>>]
<1>1. Len(<<>>) = 0 /\ 1..0 = {}
  OBVIOUS
<1> QED
  BY <1>1

\* A step of somebody else: a connection stays as it is, or ends unaccepted.
LEMMA ChildKept ==
  ASSUME Web!WebAssumption, Web!TypeOK, NEW c \in Browser, Child(c), Got(c),
         browser'[c] = browser[c], w_asked'[c] = w_asked[c], page'[c] = page[c], fd'[c] = fd[c],
         status'[c] = status[c], length'[c] = length[c], body'[c] = body[c],
         whole'[c] = whole[c], touched'[c] = touched[c], dir' = dir, len' = len,
         w_pc'[c] = w_pc[c] \/ (w_pc[c] = "none" /\ browser[c] # "new" /\ w_pc'[c] = "done")
  PROVE  Child(c)' /\ Got(c)'
<1>1. Web!Parsed(c, Len(w_asked[c]))' = Web!Parsed(c, Len(w_asked[c]))
  BY DEF Web!Parsed
<1>2. Web!There(page[c])' = Web!There(page[c])
  BY DEF Web!There, Web!Root
<1>3. Asked(c)' = Asked(c)
  BY <1>1 DEF Asked, Web!IsPrefix
<1>4. Child(c)'
  BY <1>2, <1>3 DEF Child, Web!Root
<1>5. Got(c)'
  <2>1. CASE w_pc'[c] = w_pc[c]
    BY <1>1, <2>1 DEF Got, Web!IsPrefix, Web!Root
  <2>2. CASE w_pc[c] = "none" /\ w_pc'[c] = "done"
    <3>1. status'[c] = 0 /\ page'[c] = Web!Root
      BY <2>2 DEF Child
    <3>2. w_asked[c] # <<>> /\ w_asked[c][1] = "GET" => Web!IsPrefix(Web!Root, Web!Parsed(c, Len(w_asked[c])))
      BY WholeParsed
    <3> QED
      BY <1>1, <3>1, <3>2 DEF Got, Web!IsPrefix, Web!Root
  <2> QED
    BY <2>1, <2>2
<1> QED
  BY <1>4, <1>5

\* Who runs from now on: as long as anybody waits somebody listens.
LEMMA ProcessesStep ==
  ASSUME WebIInv, NEW lives \in BOOLEAN, NEW now \in [Browser -> Steps], Web!Processes(lives, now),
         \A b \in Range(w_backlog) : now[b] = "none"
  PROVE  /\ w_parent' = lives /\ w_pc' \in [Browser -> Steps]
         /\ w_backlog' \in Seq(Browser) /\ IsInjective(w_backlog') /\ Range(w_backlog') \subseteq Range(w_backlog)
         /\ Web!WaitersHaveListener'
         /\ \A b \in Browser : w_pc'[b] = now[b] \/ (b \in Range(w_backlog) /\ w_pc'[b] = "done")
<1>0. /\ w_backlog \in Seq(Browser) /\ IsInjective(w_backlog) /\ Range(w_backlog) \subseteq Browser
  BY WebQueue DEF WebIInv, WebData, Web!TypeOK
<1>1. CASE lives \/ \E c \in Browser : now[c] \notin {"none", "done"}
  <2>1. w_parent' = lives /\ w_pc' = now /\ w_backlog' = w_backlog
    BY <1>1 DEF Web!Processes
  <2>2. Web!Listening'
    BY <1>1, <2>1 DEF Web!Listening, Web!Running
  <2>3. Web!WaitersHaveListener'
    BY <2>1, <2>2, WebQueue DEF Web!WaitersHaveListener
  <2> QED
    BY <1>0, <2>1, <2>3
<1>2. CASE ~(lives \/ \E c \in Browser : now[c] \notin {"none", "done"})
  <2>1. /\ w_parent' = lives /\ w_backlog' = <<>>
        /\ w_pc' = [c \in Browser |-> IF c \in Range(w_backlog) THEN "done" ELSE now[c]]
    BY <1>2, WebQueue DEF Web!Processes
  <2>2. <<>> \in Seq(Browser) /\ Range(<<>>) = {} /\ IsInjective(<<>>)
    BY DEF Range, IsInjective
  <2>3. Web!WaitersHaveListener'
    BY <2>1, <2>2, WebQueue DEF Web!WaitersHaveListener
  <2>4. w_pc' \in [Browser -> Steps]
    BY <2>1 DEF Steps
  <2> QED
    BY <2>1, <2>2, <2>3, <2>4
<1> QED
  BY <1>1, <1>2

\* What a step of child c does to the others, and to the queue.
LEMMA OthersKept ==
  ASSUME Web!WebAssumption, WebIInv, NEW c \in Browser, NEW where \in Steps, w_pc[c] # "none",
         Web!Goto(c, where), UNCHANGED <<browser, w_asked, dir, len>>,
         \A b \in Browser \ {c} :
           /\ page'[b] = page[b] /\ fd'[b] = fd[b] /\ status'[b] = status[b] /\ length'[b] = length[b]
           /\ body'[b] = body[b] /\ whole'[b] = whole[b] /\ touched'[b] = touched[b]
  PROVE  /\ w_parent' = w_parent /\ w_pc' \in [Browser -> Steps] /\ w_pc'[c] = where
         /\ w_backlog' \in Seq(Browser) /\ IsInjective(w_backlog') /\ Range(w_backlog') \subseteq Browser
         /\ Web!WaitersHaveListener' /\ Connected'
         /\ \A b \in Browser \ {c} : Child(b)' /\ Got(b)'
<1> DEFINE now == [w_pc EXCEPT ![c] = where]
<1>1. /\ w_pc \in [Browser -> Steps] /\ w_parent \in BOOLEAN /\ Range(w_backlog) \subseteq Browser
      /\ \A b \in Range(w_backlog) : w_pc[b] = "none" /\ browser[b] # "new"
      /\ \A b \in Browser : Child(b) /\ Got(b)
  BY WebQueue DEF WebIInv, Web!TypeOK, Web!WaitersHaveListener, Connected, Steps
<1>2. now \in [Browser -> Steps] /\ Web!Processes(w_parent, now)
  BY <1>1 DEF Web!Goto
<1>3. now[c] = where /\ \A b \in Browser \ {c} : now[b] = w_pc[b]
  BY <1>1
<1>4. c \notin Range(w_backlog) /\ \A b \in Range(w_backlog) : now[b] = "none"
  BY <1>1, <1>3
<1> HIDE DEF now
<1>5. /\ w_parent' = w_parent /\ w_pc' \in [Browser -> Steps]
      /\ w_backlog' \in Seq(Browser) /\ IsInjective(w_backlog') /\ Range(w_backlog') \subseteq Range(w_backlog)
      /\ Web!WaitersHaveListener'
      /\ \A b \in Browser : w_pc'[b] = now[b] \/ (b \in Range(w_backlog) /\ w_pc'[b] = "done")
  BY <1>1, <1>2, <1>4, ProcessesStep
<1>6. ASSUME NEW b \in Browser \ {c} PROVE Child(b)' /\ Got(b)'
  <2>1. w_pc'[b] = w_pc[b] \/ (w_pc[b] = "none" /\ browser[b] # "new" /\ w_pc'[b] = "done")
    BY <1>1, <1>3, <1>5
  <2>2. Web!TypeOK
    BY DEF WebIInv
  <2> QED
    BY <1>1, <2>1, <2>2, ChildKept
<1>7. Connected'
  BY <1>1, <1>5 DEF Connected
<1> QED
  BY <1>1, <1>3, <1>4, <1>5, <1>6, <1>7

\* A child's step, if what it writes has the types and its own part is right.
LEMMA ChildStepIInv ==
  ASSUME Web!WebAssumption, WebIInv, NEW c \in Browser, NEW where \in Steps, w_pc[c] # "none",
         Web!Goto(c, where), Web!Stay,
         \A b \in Browser \ {c} :
           /\ page'[b] = page[b] /\ fd'[b] = fd[b] /\ status'[b] = status[b] /\ length'[b] = length[b]
           /\ body'[b] = body[b] /\ whole'[b] = whole[b] /\ touched'[b] = touched[b],
         page' \in [Browser -> Seq(Part)], body' \in [Browser -> Seq(Output)],
         whole' \in [Browser -> BOOLEAN], touched' \in [Browser -> BOOLEAN],
         fd' \in [Browser -> Inode \cup {NoFile}], status' \in [Browser -> {0, 200, 404, 500}],
         length' \in [Browser -> Nat],
         w_pc'[c] = where => Child(c)' /\ Got(c)'
  PROVE  WebIInv'
<1>1. UNCHANGED <<browser, w_asked, dir, len, w_stops>>
  BY DEF Web!Stay, Web!files
<1>2. /\ w_parent' = w_parent /\ w_pc' \in [Browser -> Steps] /\ w_pc'[c] = where
      /\ w_backlog' \in Seq(Browser) /\ IsInjective(w_backlog') /\ Range(w_backlog') \subseteq Browser
      /\ Web!WaitersHaveListener' /\ Connected'
      /\ \A b \in Browser \ {c} : Child(b)' /\ Got(b)'
  BY <1>1, OthersKept
<1>3. Child(c)' /\ Got(c)'
  BY <1>2
<1>4. Web!TypeOK'
  <2>1. Web!IsInjective(w_backlog)' /\ (Web!Range(w_backlog) \subseteq Browser)'
    BY <1>2, WebQueue
  <2>2. /\ w_parent \in BOOLEAN /\ browser \in [Browser -> {"new", "silent", "sent", "left"}]
        /\ w_asked \in [Browser -> Web!Request \cup {<<>>}]
        /\ dir \in [Page -> Inode \cup {NoFile}] /\ len \in [Inode -> 0..MaxLen]
    BY DEF WebIInv, Web!TypeOK
  <2> QED
    BY <1>1, <1>2, <2>1, <2>2 DEF Web!TypeOK, Steps, Web!Request, Web!Get
<1>5. WebData'
  BY <1>1, <1>2 DEF WebData, WebIInv, Output
<1> QED
  BY <1>2, <1>3, <1>4, <1>5 DEF WebIInv

\* What a child knows stays true of it while its request does.
LEMMA ParsedKept ==
  ASSUME NEW c \in Browser, w_asked' = w_asked
  PROVE  Web!Parsed(c, Len(w_asked[c]))' = Web!Parsed(c, Len(w_asked[c]))
BY DEF Web!Parsed

\* The types, as the steps need them.
LEMMA WebTypes ==
  ASSUME WebIInv
  PROVE  /\ page \in [Browser -> Seq(Part)] /\ body \in [Browser -> Seq(Output)]
         /\ whole \in [Browser -> BOOLEAN] /\ touched \in [Browser -> BOOLEAN]
         /\ fd \in [Browser -> Inode \cup {NoFile}] /\ status \in [Browser -> {0, 200, 404, 500}]
         /\ length \in [Browser -> Nat] /\ w_pc \in [Browser -> Steps]
         /\ browser \in [Browser -> {"new", "silent", "sent", "left"}]
         /\ dir \in [Page -> Inode \cup {NoFile}] /\ len \in [Inode -> 0..MaxLen]
         /\ \A c \in Browser : Child(c) /\ Got(c)
BY DEF WebIInv, WebData, Web!TypeOK, Steps

\* A document of an error, by a child that has not begun to answer.
LEMMA ErrorStep ==
  ASSUME Web!WebAssumption, WebIInv, NEW c \in Browser, NEW code \in {404, 500},
         w_pc[c] \in {"read", "access"}, browser[c] \in {"sent", "left"} \/ w_pc[c] = "access",
         Web!WriteError(c, code), UNCHANGED <<page, fd, touched>>, Web!Stay,
         whole' \in [Browser -> BOOLEAN], \A b \in Browser \ {c} : whole'[b] = whole[b],
         w_asked[c] # <<>> /\ w_asked[c][1] = "GET" =>
           /\ Web!IsPrefix(page[c], Web!Parsed(c, Len(w_asked[c])))
           /\ whole'[c] => page[c] = Web!Parsed(c, Len(w_asked[c]))
  PROVE  WebIInv'
<1>1. /\ status' = [status EXCEPT ![c] = code] /\ length' = [length EXCEPT ![c] = 1]
      /\ body' = [body EXCEPT ![c] = <<"codemsg">>] /\ Web!Goto(c, "done")
  BY DEF Web!WriteError, Web!Exit
<1>2. UNCHANGED <<browser, w_asked>>
  BY DEF Web!Stay
<1>3. /\ status' \in [Browser -> {0, 200, 404, 500}] /\ length' \in [Browser -> Nat]
      /\ body' \in [Browser -> Seq(Output)] /\ status'[c] = code
  <2>1. "codemsg" \in Output
    BY DEF Output
  <2>2. <<"codemsg">> \in Seq(Output)
    BY <2>1
  <2> QED
    BY <1>1, <2>2, WebTypes
<1>4. \A b \in Browser \ {c} : status'[b] = status[b] /\ length'[b] = length[b] /\ body'[b] = body[b]
  BY <1>1, WebTypes
<1>5. ASSUME w_pc'[c] = "done" PROVE Child(c)' /\ Got(c)'
  <2>1. Child(c)
    BY WebTypes
  <2>2. browser[c] \in {"new", "silent"} => w_asked[c] = <<>>
    BY <2>1 DEF Child
  <2>3. browser[c] # "new"
    BY <2>1 DEF Child
  <2>4. Child(c)'
    BY <1>2, <1>5, <2>2, <2>3 DEF Child
  <2>5. Got(c)'
    BY <1>2, <1>3, <1>5, ParsedKept DEF Got, Web!IsPrefix
  <2> QED
    BY <2>4, <2>5
<1>6. w_pc[c] # "none" /\ "done" \in Steps
  BY DEF Steps
<1> QED
  BY ZenonT(60), <1>1, <1>3, <1>4, <1>5, <1>6, WebTypes, ChildStepIInv

\* The child ends without another word.
LEMMA ExitStep ==
  ASSUME Web!WebAssumption, WebIInv, NEW c \in Browser, w_pc[c] \notin {"none", "done"},
         Web!Exit(c), UNCHANGED <<page, fd, status, length, body, whole, touched>>, Web!Stay,
         \/ browser[c] = "left" /\ w_pc[c] # "open"
         \/ status[c] = 200 /\ ~touched[c] => Len(body[c]) = IF page[c] = Web!Root THEN 0 ELSE length[c]
  PROVE  WebIInv'
<1>1. Web!Goto(c, "done") /\ UNCHANGED <<browser, w_asked>>
  BY DEF Web!Exit, Web!Stay
<1>2. ASSUME w_pc'[c] = "done" PROVE Child(c)' /\ Got(c)'
  <2>1. Child(c) /\ Got(c) /\ w_pc[c] \in Steps
    BY WebTypes
  <2>2. Child(c)'
    BY <1>1, <1>2, <2>1 DEF Child
  <2>3. w_asked[c] # <<>> /\ w_asked[c][1] = "GET" =>
          /\ Web!IsPrefix(page[c], Web!Parsed(c, Len(w_asked[c])))
          /\ whole[c] /\ status[c] # 0 => page[c] = Web!Parsed(c, Len(w_asked[c]))
    <3>1. CASE w_pc[c] = "read"
      BY <2>1, <3>1, WholeParsed DEF Child, WebIInv
    <3>2. CASE w_pc[c] # "read"
      BY <2>1, <3>2 DEF Got
    <3> QED
      BY <3>1, <3>2
  <2>4. Got(c)'
    BY <1>1, <1>2, <2>1, <2>3, ParsedKept DEF Got, Web!IsPrefix, Web!Root
  <2> QED
    BY <2>2, <2>4
<1>3. w_pc[c] # "none" /\ "done" \in Steps
  BY DEF Steps
<1> QED
  BY <1>1, <1>2, <1>3, WebTypes, ChildStepIInv

\* The child reads: a GET request, as far as it has come, or something else.
LEMMA ReadStep ==
  ASSUME Web!WebAssumption, WebIInv, NEW c \in Browser, Web!Read(c) PROVE WebIInv'
<1>1. PICK n \in 0..Len(w_asked[c]) :
        /\ whole' = [whole EXCEPT ![c] = (n = Len(w_asked[c]))]
        /\ IF n > 0 /\ w_asked[c][1] = "GET"
             THEN /\ page' = [page EXCEPT ![c] = Web!Parsed(c, n)]
                  /\ Web!Goto(c, "access") /\ UNCHANGED <<status, length, body>>
             ELSE Web!WriteError(c, 500) /\ UNCHANGED page
  BY DEF Web!Read, Web!answer
<1>2. w_pc[c] = "read" /\ browser[c] \in {"sent", "left"} /\ UNCHANGED <<fd, touched>> /\ Web!Stay
  BY WebTypes DEF Web!Read, Child
<1>3. UNCHANGED <<browser, w_asked>>
  BY <1>2 DEF Web!Stay
<1>4. page[c] = Web!Root /\ ~touched[c] /\ status[c] = 0 /\ body[c] = <<>>
  BY <1>2, WebTypes DEF Child
<1>5. whole' \in [Browser -> BOOLEAN] /\ whole'[c] = (n = Len(w_asked[c]))
      /\ \A b \in Browser \ {c} : whole'[b] = whole[b]
  BY <1>1, WebTypes
<1>6. CASE n > 0 /\ w_asked[c][1] = "GET"
  <2>1. w_asked[c] # <<>>
    BY <1>6
  <2>2. w_asked[c] \in Seq(Part) /\ Len(w_asked[c]) >= 3
    BY <1>6, <2>1, WholeParsed DEF WebIInv
  <2>3. n \in 1..Len(w_asked[c])
    BY <1>6, <2>2
  <2>4. /\ Web!Parsed(c, n) \in Seq(Part)
        /\ Web!IsPrefix(Web!Parsed(c, n), Web!Parsed(c, Len(w_asked[c])))
    BY <2>2, <2>3, ParsedIsPrefix
  <2>5. page' \in [Browser -> Seq(Part)] /\ page'[c] = Web!Parsed(c, n)
        /\ \A b \in Browser \ {c} : page'[b] = page[b]
    <3>1. page \in [Browser -> Seq(Part)] /\ page' = [page EXCEPT ![c] = Web!Parsed(c, n)]
      BY <1>1, <1>6, WebTypes
    <3> QED
      BY <2>4, <3>1
  <2>6. ASSUME w_pc'[c] = "access" PROVE Child(c)' /\ Got(c)'
    <3>1. UNCHANGED <<status, body, touched>>
      BY <1>1, <1>2, <1>6
    <3>2. Asked(c)'
      BY <1>3, <1>5, <2>4, <2>5, ParsedKept DEF Asked, Web!IsPrefix
    <3>3. Child(c)'
      BY <1>2, <1>3, <1>4, <2>6, <3>1, <3>2 DEF Child
    <3>4. Got(c)'
      BY <1>4, <2>6, <3>1, <3>2 DEF Got, Asked
    <3> QED
      BY <3>3, <3>4
  <2>7. w_pc[c] # "none" /\ "access" \in Steps /\ Web!Goto(c, "access") /\ UNCHANGED <<status, length, body>>
    BY <1>1, <1>2, <1>6 DEF Steps
  <2>8. /\ body' \in [Browser -> Seq(Output)] /\ touched' \in [Browser -> BOOLEAN]
        /\ fd' \in [Browser -> Inode \cup {NoFile}] /\ status' \in [Browser -> {0, 200, 404, 500}]
        /\ length' \in [Browser -> Nat]
    BY <1>2, <2>7, WebTypes
  <2>9. ASSUME NEW b \in Browser \ {c}
        PROVE  /\ page'[b] = page[b] /\ fd'[b] = fd[b] /\ status'[b] = status[b] /\ length'[b] = length[b]
               /\ body'[b] = body[b] /\ whole'[b] = whole[b] /\ touched'[b] = touched[b]
    BY <1>2, <1>5, <2>5, <2>7
  <2> QED
    BY <1>2, <1>5, <2>5, <2>6, <2>7, <2>8, <2>9, ChildStepIInv
<1>7. CASE ~(n > 0 /\ w_asked[c][1] = "GET")
  <2>1. ASSUME w_asked[c] # <<>>, w_asked[c][1] = "GET"
        PROVE  /\ Web!IsPrefix(page[c], Web!Parsed(c, Len(w_asked[c])))
               /\ whole'[c] => page[c] = Web!Parsed(c, Len(w_asked[c]))
    <3>1. /\ w_asked[c] \in Seq(Part) /\ Len(w_asked[c]) >= 3
          /\ Web!IsPrefix(Web!Root, Web!Parsed(c, Len(w_asked[c])))
      BY <2>1, WholeParsed DEF WebIInv
    <3>2. n # Len(w_asked[c])
      BY <1>7, <2>1, <3>1
    <3> QED
      BY <1>4, <1>5, <3>1, <3>2
  <2>2. Web!WriteError(c, 500) /\ UNCHANGED page
    BY <1>1, <1>7
  <2> QED
    BY <1>2, <1>5, <2>1, <2>2, ErrorStep
<1> QED
  BY <1>6, <1>7

\* What a child has read of its request it keeps.
LEMMA AskedKept ==
  ASSUME NEW c \in Browser, Asked(c), w_asked' = w_asked, page'[c] = page[c], whole'[c] = whole[c]
  PROVE  Asked(c)'
BY ParsedKept DEF Asked, Web!IsPrefix

\* A child goes on without another word, and has read its request before.
LEMMA GotoStep ==
  ASSUME Web!WebAssumption, WebIInv, NEW c \in Browser, NEW where \in Steps \ {"none", "read", "done"},
         w_pc[c] \in {"access", "stat", "open", "copy"}, Web!Goto(c, where), Web!Stay,
         UNCHANGED <<page, whole, touched>>,
         \A b \in Browser \ {c} :
           fd'[b] = fd[b] /\ status'[b] = status[b] /\ length'[b] = length[b] /\ body'[b] = body[b],
         body' \in [Browser -> Seq(Output)], fd' \in [Browser -> Inode \cup {NoFile}],
         status' \in [Browser -> {0, 200, 404, 500}], length' \in [Browser -> Nat],
         status'[c] = 200 => body'[c] = [k \in 1..Len(body'[c]) |-> <<fd'[c], k>>],
         where \in {"access", "stat"} => status'[c] = 0 /\ body'[c] = <<>>,
         where = "access" => ~touched[c],
         where = "stat" /\ ~touched[c] => Web!There(page[c]),
         where = "open" =>
           /\ status'[c] = 200 /\ body'[c] = <<>>
           /\ ~touched[c] /\ page[c] # Web!Root => Web!There(page[c]) /\ length'[c] = len[dir[page[c]]],
         where = "copy" =>
           /\ status'[c] = 200 /\ page[c] # Web!Root /\ fd'[c] \in Inode
           /\ ~touched[c] => length'[c] = len[fd'[c]] /\ Len(body'[c]) <= len[fd'[c]]
  PROVE  WebIInv'
<1>1. UNCHANGED <<browser, w_asked, dir, len>>
  BY DEF Web!Stay, Web!files
<1>2. Child(c) /\ Asked(c)
  BY WebTypes DEF Child
<1>3. Asked(c)'
  BY <1>1, <1>2, AskedKept
<1>4. Web!There(page[c])' = Web!There(page[c])
  BY <1>1 DEF Web!There, Web!Root
<1>5. ASSUME w_pc'[c] = where PROVE Child(c)' /\ Got(c)'
  <2>1. browser[c] \notin {"new", "silent"}
    BY <1>2 DEF Child
  <2>2. where \in {"access", "stat", "open", "copy"}
    BY DEF Steps
  <2>3. Child(c)'
    BY <1>1, <1>3, <1>4, <1>5, <2>1, <2>2 DEF Child, Web!Root
  <2>4. Got(c)'
    BY <1>3, <1>5, <2>2 DEF Got, Asked
  <2> QED
    BY <2>3, <2>4
<1>6. /\ w_pc[c] # "none" /\ where \in Steps
      /\ page' \in [Browser -> Seq(Part)] /\ whole' \in [Browser -> BOOLEAN] /\ touched' \in [Browser -> BOOLEAN]
  BY WebTypes
<1>7. ASSUME NEW b \in Browser \ {c}
      PROVE  /\ page'[b] = page[b] /\ fd'[b] = fd[b] /\ status'[b] = status[b] /\ length'[b] = length[b]
             /\ body'[b] = body[b] /\ whole'[b] = whole[b] /\ touched'[b] = touched[b]
  OBVIOUS
<1> QED
  BY <1>5, <1>6, <1>7, ChildStepIInv

LEMMA ReadEndStep ==
  ASSUME Web!WebAssumption, WebIInv, NEW c \in Browser, Web!ReadEnd(c) PROVE WebIInv'
<1>1. w_pc[c] = "read" /\ Web!Exit(c) /\ Web!Stay /\ UNCHANGED <<page, fd, status, length, body, whole, touched>>
  BY DEF Web!ReadEnd, Web!answer
<1>2. browser[c] = "left"
  BY DEF Web!ReadEnd
<1> QED
  BY <1>1, <1>2, ExitStep

LEMMA AccessStep ==
  ASSUME Web!WebAssumption, WebIInv, NEW c \in Browser, Web!Access(c) PROVE WebIInv'
<1>1. w_pc[c] = "access" /\ Web!Stay /\ UNCHANGED <<page, fd, whole, touched>>
  BY DEF Web!Access
<1>2. Child(c) /\ Got(c) /\ Asked(c) /\ ~touched[c] /\ status[c] = 0 /\ body[c] = <<>>
  BY <1>1, WebTypes DEF Child
<1>3. CASE Web!There(page[c])
  <2>1. Web!Goto(c, "stat") /\ UNCHANGED <<status, length, body>>
    BY <1>3 DEF Web!Access, Web!answer
  <2>2. "stat" \in Steps \ {"none", "read", "done"}
    BY DEF Steps
  <2>3. /\ body' \in [Browser -> Seq(Output)] /\ fd' \in [Browser -> Inode \cup {NoFile}]
        /\ status' \in [Browser -> {0, 200, 404, 500}] /\ length' \in [Browser -> Nat]
        /\ status'[c] = 0 /\ body'[c] = <<>>
    BY <1>1, <1>2, <2>1, WebTypes
  <2>4. ASSUME NEW b \in Browser \ {c}
        PROVE  fd'[b] = fd[b] /\ status'[b] = status[b] /\ length'[b] = length[b] /\ body'[b] = body[b]
    BY <1>1, <2>1
  <2>5. /\ status'[c] # 200
        /\ "stat" # "access" /\ "stat" # "open" /\ "stat" # "copy"
        /\ w_pc[c] \in {"access", "stat", "open", "copy"}
    BY <1>1, <2>3
  <2> QED
    BY ZenonT(60), <1>1, <1>3, <2>1, <2>2, <2>3, <2>4, <2>5, GotoStep
<1>4. CASE ~Web!There(page[c])
  <2>1. Web!WriteError(c, 404)
    BY <1>4 DEF Web!Access
  <2>2. whole' \in [Browser -> BOOLEAN] /\ whole' = whole
    BY <1>1, WebTypes
  <2> QED
    BY <1>1, <1>2, <2>1, <2>2, ErrorStep DEF Asked
<1> QED
  BY <1>3, <1>4

LEMMA StatStep ==
  ASSUME Web!WebAssumption, WebIInv, NEW c \in Browser, Web!Stat(c) PROVE WebIInv'
<1>1. PICK n \in IF page[c] = Web!Root THEN {DirLen}
                 ELSE IF Web!There(page[c]) THEN {len[dir[page[c]]]} ELSE {0, DirLen} :
        length' = [length EXCEPT ![c] = n]
  BY DEF Web!Stat
<1>2. /\ w_pc[c] = "stat" /\ status' = [status EXCEPT ![c] = 200] /\ Web!Goto(c, "open")
      /\ UNCHANGED <<body, page, fd, whole, touched>> /\ Web!Stay
  BY DEF Web!Stat
<1>3. Child(c) /\ body[c] = <<>> /\ (~touched[c] => Web!There(page[c]))
  BY <1>2, WebTypes DEF Child
<1>4. n \in Nat
  <2>1. DirLen \in Nat /\ 0 \in Nat /\ 0..MaxLen \subseteq Nat
    BY DEF Web!WebAssumption
  <2>2. ASSUME page[c] # Web!Root, Web!There(page[c]) PROVE len[dir[page[c]]] \in Nat
    <3>1. page[c] \in Page /\ dir[page[c]] \in Inode
      BY <2>2, WebTypes DEF Web!There
    <3> QED
      BY <3>1, <2>1, WebTypes
  <2> QED
    BY <1>1, <2>1, <2>2
<1>5. /\ status' \in [Browser -> {0, 200, 404, 500}] /\ length' \in [Browser -> Nat]
      /\ status'[c] = 200 /\ length'[c] = n
      /\ \A b \in Browser \ {c} : status'[b] = status[b] /\ length'[b] = length[b]
  <2>1. status \in [Browser -> {0, 200, 404, 500}] /\ length \in [Browser -> Nat]
    BY WebTypes
  <2>2. status' \in [Browser -> {0, 200, 404, 500}] /\ status'[c] = 200 /\ \A b \in Browser \ {c} : status'[b] = status[b]
    BY <1>2, <2>1
  <2>3. length' \in [Browser -> Nat] /\ length'[c] = n /\ \A b \in Browser \ {c} : length'[b] = length[b]
    BY <1>1, <1>4, <2>1
  <2> QED
    BY <2>2, <2>3
<1>6. body'[c] = <<>> /\ body'[c] = [k \in 1..Len(body'[c]) |-> <<fd'[c], k>>]
  BY <1>2, <1>3, EmptyBody
<1>7. ASSUME ~touched[c], page[c] # Web!Root PROVE Web!There(page[c]) /\ length'[c] = len[dir[page[c]]]
  BY <1>1, <1>3, <1>5, <1>7
<1>8. "open" \in Steps \ {"none", "read", "done"}
  BY DEF Steps
<1> QED
  BY ZenonT(60), <1>2, <1>5, <1>6, <1>7, <1>8, WebTypes, GotoStep

LEMMA OpenStep ==
  ASSUME Web!WebAssumption, WebIInv, NEW c \in Browser, Web!Open(c) PROVE WebIInv'
<1>1. w_pc[c] = "open" /\ Web!Stay /\ UNCHANGED <<page, status, length, body, whole, touched>>
  BY DEF Web!Open, Web!answer
<1>2. Child(c) /\ status[c] = 200 /\ body[c] = <<>> /\ Len(body[c]) = 0
  <2>1. Child(c) /\ status[c] = 200 /\ body[c] = <<>>
    BY <1>1, WebTypes DEF Child
  <2> QED
    BY <2>1
<1>3. ~touched[c] /\ page[c] # Web!Root => Web!There(page[c]) /\ length[c] = len[dir[page[c]]]
  BY <1>1, <1>2 DEF Child
<1>4. CASE page[c] # Web!Root /\ Web!There(page[c])
  <2>1. fd' = [fd EXCEPT ![c] = dir[page[c]]] /\ Web!Goto(c, "copy")
    BY <1>4 DEF Web!Open
  <2>2. page[c] \in Page /\ dir[page[c]] \in Inode
    BY <1>4, WebTypes DEF Web!There
  <2>3. /\ fd' \in [Browser -> Inode \cup {NoFile}] /\ fd'[c] = dir[page[c]]
        /\ \A b \in Browser \ {c} : fd'[b] = fd[b]
    BY <2>1, <2>2, WebTypes
  <2>4. len[fd'[c]] \in Nat
    BY <2>2, <2>3, WebTypes DEF Web!WebAssumption
  <2>5. body'[c] = <<>> /\ body'[c] = [k \in 1..Len(body'[c]) |-> <<fd'[c], k>>]
    BY <1>1, <1>2, EmptyBody
  <2>6. ~touched[c] => length'[c] = len[fd'[c]] /\ Len(body'[c]) <= len[fd'[c]]
    BY <1>1, <1>2, <1>3, <1>4, <2>3, <2>4
  <2>7. "copy" \in Steps \ {"none", "read", "done"}
    BY DEF Steps
  <2> QED
    BY <1>1, <1>2, <1>4, <2>1, <2>2, <2>3, <2>5, <2>6, <2>7, WebTypes, GotoStep
<1>5. CASE ~(page[c] # Web!Root /\ Web!There(page[c]))
  <2>1. Web!Exit(c) /\ UNCHANGED fd
    BY <1>5 DEF Web!Open
  <2>2. ~touched[c] => page[c] = Web!Root
    BY <1>3, <1>5
  <2> QED
    BY <1>1, <1>2, <2>1, <2>2, ExitStep
<1> QED
  BY <1>4, <1>5

LEMMA CopyStep ==
  ASSUME Web!WebAssumption, WebIInv, NEW c \in Browser, Web!Copy(c) PROVE WebIInv'
<1>1. w_pc[c] = "copy" /\ Web!Stay /\ UNCHANGED <<page, fd, whole, touched>>
  BY DEF Web!Copy
<1>2. /\ status[c] = 200 /\ page[c] # Web!Root /\ fd[c] \in Inode
      /\ ~touched[c] => length[c] = len[fd[c]] /\ Len(body[c]) <= len[fd[c]]
  BY <1>1, WebTypes DEF Child
<1>3. body[c] \in Seq(Output) /\ body[c] = [k \in 1..Len(body[c]) |-> <<fd[c], k>>]
  BY <1>2, WebTypes DEF Got
<1>4. len[fd[c]] \in Nat /\ Len(body[c]) \in Nat
  BY <1>2, <1>3, WebTypes DEF Web!WebAssumption
<1>5. CASE Web!HasMore(c)
  <2> DEFINE chunk == <<fd[c], Len(body[c]) + 1>>
  <2>1. /\ body' = [body EXCEPT ![c] = Append(body[c], chunk)]
        /\ UNCHANGED <<w_parent, w_backlog, w_pc, status, length>>
    BY <1>5, WebTypes DEF Web!Copy
  <2>2. chunk \in Output /\ chunk = <<fd[c], Len(body[c]) + 1>>
    BY <1>2, <1>4 DEF Output
  <2> HIDE DEF chunk
  <2>3. /\ body' \in [Browser -> Seq(Output)] /\ body'[c] = Append(body[c], chunk)
        /\ \A b \in Browser \ {c} : body'[b] = body[b]
    BY <1>3, <2>1, <2>2, WebTypes
  <2>4. Len(body'[c]) = Len(body[c]) + 1
    BY <1>3, <2>2, <2>3
  <2>5. body'[c] = [k \in 1..Len(body'[c]) |-> <<fd'[c], k>>]
    <3> DEFINE s == body[c]
               t == Append(s, chunk)
               u == [k \in 1 .. Len(s) + 1 |-> <<fd[c], k>>]
    <3>1. s \in Seq(Output) /\ \A k \in 1..Len(s) : s[k] = <<fd[c], k>>
      BY <1>3
    <3> HIDE DEF s
    <3>2. /\ DOMAIN t = 1 .. Len(s) + 1 /\ t[Len(s) + 1] = chunk
          /\ \A k \in 1..Len(s) : t[k] = s[k]
          /\ t = [k \in 1 .. Len(s) + 1 |-> t[k]]
      BY <2>2, <3>1
    <3>3. ASSUME NEW k \in 1 .. Len(s) + 1 PROVE t[k] = u[k]
      <4>1. Len(s) \in Nat
        BY <3>1
      <4>2. CASE k = Len(s) + 1
        BY <2>2, <3>2, <4>2 DEF s
      <4>3. CASE k \in 1..Len(s)
        BY <3>1, <3>2, <4>3
      <4> QED
        BY <4>1, <4>2, <4>3
    <3> HIDE DEF t
    <3>4. t = u
      BY <3>2, <3>3
    <3> QED
      BY <1>1, <2>3, <2>4, <3>4 DEF s, t
  <2>6. ~touched[c] => length[c] = len[fd[c]] /\ Len(body'[c]) <= len[fd[c]]
    BY <1>2, <1>4, <1>5, <2>4 DEF Web!HasMore
  <2>7. "copy" \in Steps \ {"none", "read", "done"}
    BY DEF Steps
  <2>8. Web!Goto(c, "copy")
    <3>1. [w_pc EXCEPT ![c] = "copy"] = w_pc /\ w_pc' = w_pc
      BY <1>1, <2>1, WebTypes
    <3>2. w_pc[c] \notin {"none", "done"}
      BY <1>1
    <3> QED
      BY <2>1, <3>1, <3>2 DEF Web!Goto, Web!Processes
  <2> QED
    BY ZenonT(60), <1>1, <1>2, <2>1, <2>3, <2>5, <2>6, <2>7, <2>8, WebTypes, GotoStep
<1>6. CASE ~Web!HasMore(c)
  <2>1. Web!Exit(c) /\ UNCHANGED <<status, length, body>>
    BY <1>6 DEF Web!Copy, Web!answer
  <2>2. ~touched[c] => Len(body[c]) = length[c]
    BY <1>2, <1>4, <1>6 DEF Web!HasMore
  <2> QED
    BY <1>1, <1>2, <2>1, <2>2, ExitStep
<1> QED
  BY <1>5, <1>6

LEMMA BrokenPipeStep ==
  ASSUME Web!WebAssumption, WebIInv, NEW c \in Browser, Web!BrokenPipe(c) PROVE WebIInv'
<1>1. /\ browser[c] = "left" /\ w_pc[c] \in {"read", "access", "stat", "copy"} /\ Web!Exit(c) /\ Web!Stay
      /\ UNCHANGED <<page, fd, status, length, body, whole, touched>>
  BY DEF Web!BrokenPipe, Web!answer
<1> QED
  BY <1>1, ExitStep

LEMMA ChildIInv ==
  ASSUME Web!WebAssumption, WebIInv, NEW c \in Browser, Web!ChildStep(c) \/ Web!BrokenPipe(c)
  PROVE  WebIInv'
BY ReadStep, ReadEndStep, AccessStep, StatStep, OpenStep, CopyStep, BrokenPipeStep DEF Web!ChildStep

-----------------------------------------------------------------------------
(* The browsers, the parent, and who edits the files. *)

\* The backlog and who listens, with the lemmas' operators.
LEMMA WebBacklog ==
  ASSUME WebIInv
  PROVE  /\ w_backlog \in Seq(Browser) /\ IsInjective(w_backlog) /\ Range(w_backlog) \subseteq Browser
         /\ \A c \in Range(w_backlog) : w_pc[c] = "none" /\ browser[c] # "new"
         /\ w_backlog # <<>> => Web!Listening
BY WebQueue DEF WebIInv, WebData, Web!TypeOK, Connected, Web!WaitersHaveListener

\* A step that leaves the children's data alone, and what is left to show of it.
LEMMA OutsideStep ==
  ASSUME Web!WebAssumption, WebIInv,
         UNCHANGED <<page, fd, status, length, body, whole, touched, dir, len>>,
         w_parent' \in BOOLEAN, w_stops' \in Nat, w_pc' \in [Browser -> Steps],
         browser' \in [Browser -> {"new", "silent", "sent", "left"}],
         w_asked' \in [Browser -> Web!Request \cup {<<>>}],
         w_backlog' \in Seq(Browser), IsInjective(w_backlog'), Range(w_backlog') \subseteq Browser,
         \A c \in Range(w_backlog') : w_pc'[c] = "none" /\ browser'[c] # "new",
         w_backlog' # <<>> => Web!Listening',
         \A c \in Browser :
           \/ /\ browser'[c] = browser[c] /\ w_asked'[c] = w_asked[c]
              /\ w_pc'[c] = w_pc[c] \/ (w_pc[c] = "none" /\ browser[c] # "new" /\ w_pc'[c] = "done")
           \/ Child(c)' /\ Got(c)'
  PROVE  WebIInv'
<1>1. ASSUME NEW c \in Browser PROVE Child(c)' /\ Got(c)'
  <2>1. Child(c) /\ Got(c) /\ Web!TypeOK
    BY WebTypes DEF WebIInv
  <2> QED
    BY <2>1, ChildKept
<1>2. Web!TypeOK'
  <2>1. Web!IsInjective(w_backlog)' /\ (Web!Range(w_backlog) \subseteq Browser)'
    BY WebQueue
  <2> QED
    BY <2>1, WebTypes DEF Web!TypeOK, Steps, Web!Request, Web!Get
<1>3. WebData'
  BY WebTypes DEF WebData, Output
<1>4. Connected' /\ Web!WaitersHaveListener'
  BY WebQueue DEF Connected, Web!WaitersHaveListener
<1> QED
  BY <1>1, <1>2, <1>3, <1>4 DEF WebIInv

LEMMA ConnectStep ==
  ASSUME Web!WebAssumption, WebIInv, NEW c \in Browser, Web!Connect(c) PROVE WebIInv'
<1>1. /\ browser[c] = "new" /\ browser' = [browser EXCEPT ![c] = "silent"]
      /\ w_backlog' = Append(w_backlog, c) /\ Web!Listening
      /\ UNCHANGED <<w_parent, w_asked, w_pc, w_stops>>
      /\ UNCHANGED <<page, fd, status, length, body, whole, touched, dir, len>>
  BY DEF Web!Connect, Web!answer, Web!files
<1>2. c \notin Range(w_backlog)
  BY <1>1, WebBacklog
<1>3. /\ w_backlog' \in Seq(Browser) /\ IsInjective(w_backlog')
      /\ \A b : b \in Range(w_backlog') <=> b = c \/ b \in Range(w_backlog)
  BY <1>1, <1>2, WebBacklog, QueueAppend
<1>4. Child(c) /\ Got(c) /\ w_pc[c] = "none"
  BY <1>1, WebTypes DEF Child
<1>5. /\ browser' \in [Browser -> {"new", "silent", "sent", "left"}] /\ browser'[c] = "silent"
      /\ \A b \in Browser \ {c} : browser'[b] = browser[b]
  BY <1>1, WebTypes
<1>6. \A b \in Range(w_backlog') : w_pc'[b] = "none" /\ browser'[b] # "new"
  BY <1>1, <1>3, <1>4, <1>5, WebBacklog
<1>7. Web!Listening'
  BY <1>1 DEF Web!Listening, Web!Running
<1>8. Child(c)' /\ Got(c)'
  <2>1. Child(c)'
    BY <1>1, <1>4, <1>5 DEF Child, Web!Root
  <2>2. Got(c)'
    BY <1>1, <1>4 DEF Got
  <2> QED
    BY <2>1, <2>2
<1>9. /\ w_parent' \in BOOLEAN /\ w_stops' \in Nat /\ w_pc' \in [Browser -> Steps]
      /\ w_asked' \in [Browser -> Web!Request \cup {<<>>}] /\ Range(w_backlog') \subseteq Browser
  <2>1. w_parent \in BOOLEAN /\ w_stops \in Nat /\ w_asked \in [Browser -> Web!Request \cup {<<>>}]
    BY DEF WebIInv, WebData, Web!TypeOK
  <2> QED
    BY <1>1, <1>3, <2>1, WebTypes, WebBacklog
<1>10. \A b \in Browser \ {c} : browser'[b] = browser[b] /\ w_asked'[b] = w_asked[b] /\ w_pc'[b] = w_pc[b]
  BY <1>1, <1>5
<1> QED
  BY <1>1, <1>3, <1>5, <1>6, <1>7, <1>8, <1>9, <1>10, OutsideStep

\* What its client does to a connection that has not been answered.
LEMMA ClientStep ==
  ASSUME Web!WebAssumption, WebIInv, NEW c \in Browser, NEW r \in Web!Request \cup {<<>>},
         NEW now \in {"sent", "left"},
         browser[c] \in {"silent", "sent"}, w_pc[c] # "done", r = w_asked[c] \/ browser[c] = "silent",
         browser' = [browser EXCEPT ![c] = now], w_asked' = [w_asked EXCEPT ![c] = r],
         UNCHANGED <<w_parent, w_backlog, w_pc, w_stops>>,
         UNCHANGED <<page, fd, status, length, body, whole, touched, dir, len>>
  PROVE  WebIInv'
<1>1. w_parent \in BOOLEAN /\ w_stops \in Nat /\ w_asked \in [Browser -> Web!Request \cup {<<>>}]
  BY DEF WebIInv, WebData, Web!TypeOK
<1>2. /\ browser' \in [Browser -> {"new", "silent", "sent", "left"}] /\ browser'[c] = now
      /\ w_asked' \in [Browser -> Web!Request \cup {<<>>}] /\ w_asked'[c] = r
      /\ \A b \in Browser \ {c} : browser'[b] = browser[b] /\ w_asked'[b] = w_asked[b] /\ w_pc'[b] = w_pc[b]
  BY <1>1, WebTypes
<1>3. Web!Listening' = Web!Listening
  BY DEF Web!Listening, Web!Running
<1>4. Child(c) /\ Got(c)
  BY WebTypes
<1>5. Child(c)' /\ Got(c)'
  <2>1. CASE w_pc[c] \in {"none", "read"}
    <3>1. Child(c)'
      BY <1>2, <1>4, <2>1 DEF Child, Web!Root
    <3>2. Got(c)'
      BY <1>4, <2>1 DEF Got
    <3> QED
      BY <3>1, <3>2
  <2>2. CASE w_pc[c] \notin {"none", "read"}
    <3>1. browser[c] = "sent" /\ w_asked'[c] = w_asked[c] /\ w_pc[c] \in Steps
      BY <1>2, <1>4, <2>2, WebTypes DEF Child
    <3>2. Web!Parsed(c, Len(w_asked[c]))' = Web!Parsed(c, Len(w_asked[c]))
      BY <3>1 DEF Web!Parsed
    <3>3. Asked(c)' = Asked(c) /\ Web!There(page[c])' = Web!There(page[c])
      BY <3>1, <3>2 DEF Asked, Web!IsPrefix, Web!There, Web!Root
    <3>4. Child(c)'
      BY <1>2, <1>4, <2>2, <3>1, <3>3 DEF Child, Web!Root
    <3>5. Got(c)'
      BY <1>2, <1>4, <2>2, <3>1, <3>2 DEF Got, Web!IsPrefix, Web!Root
    <3> QED
      BY <3>4, <3>5
  <2> QED
    BY <2>1, <2>2
<1>6. \A b \in Range(w_backlog') : w_pc'[b] = "none" /\ browser'[b] # "new"
  BY <1>2, WebBacklog
<1> QED
  BY <1>1, <1>2, <1>3, <1>5, <1>6, WebTypes, WebBacklog, OutsideStep

LEMMA SendStep ==
  ASSUME Web!WebAssumption, WebIInv, NEW c \in Browser, Web!Send(c) PROVE WebIInv'
<1>1. PICK r \in Web!Request : w_asked' = [w_asked EXCEPT ![c] = r]
  BY DEF Web!Send
<1>2. /\ browser[c] = "silent" /\ w_pc[c] # "done" /\ browser' = [browser EXCEPT ![c] = "sent"]
      /\ UNCHANGED <<w_parent, w_backlog, w_pc, w_stops>>
      /\ UNCHANGED <<page, fd, status, length, body, whole, touched, dir, len>>
  BY DEF Web!Send, Web!answer, Web!files
<1> QED
  BY <1>1, <1>2, ClientStep

LEMMA LeaveStep ==
  ASSUME Web!WebAssumption, WebIInv, NEW c \in Browser, Web!Leave(c) PROVE WebIInv'
<1>1. /\ browser[c] \in {"silent", "sent"} /\ w_pc[c] # "done" /\ browser' = [browser EXCEPT ![c] = "left"]
      /\ UNCHANGED <<w_parent, w_asked, w_backlog, w_pc, w_stops>>
      /\ UNCHANGED <<page, fd, status, length, body, whole, touched, dir, len>>
  BY DEF Web!Leave, Web!answer, Web!files
<1>2. w_asked' = [w_asked EXCEPT ![c] = w_asked[c]] /\ w_asked[c] \in Web!Request \cup {<<>>}
  BY <1>1 DEF WebIInv, Web!TypeOK
<1> QED
  BY <1>1, <1>2, ClientStep

LEMMA EditStep == ASSUME Web!WebAssumption, WebIInv, Web!EditFiles PROVE WebIInv'
<1>1. /\ UNCHANGED <<w_parent, browser, w_asked, w_backlog, w_pc, w_stops>>
      /\ UNCHANGED <<page, fd, status, length, body, whole>>
      /\ touched' = [c \in Browser |-> touched[c] \/ w_pc[c] \in {"stat", "open", "copy"}]
  BY DEF Web!EditFiles, Web!answer, Web!conn
<1>2. dir' \in [Page -> Inode \cup {NoFile}] /\ len' \in [Inode -> 0..MaxLen]
  <2>1. CASE \E f \in Inode, n \in 0..MaxLen : len' = [len EXCEPT ![f] = n] /\ UNCHANGED dir
    BY <2>1, WebTypes
  <2>2. CASE /\ \E p \in Page, f \in (Inode \ Web!Range(dir)) \cup {NoFile} : dir' = [dir EXCEPT ![p] = f]
             /\ UNCHANGED len
    BY <2>2, WebTypes
  <2> QED
    BY <2>1, <2>2 DEF Web!EditFiles
<1>3. ASSUME NEW c \in Browser PROVE Child(c)' /\ Got(c)'
  <2>1. Child(c) /\ Got(c)
    BY WebTypes
  <2>2. touched'[c] = (touched[c] \/ w_pc[c] \in {"stat", "open", "copy"})
    BY <1>1
  <2>3. Asked(c)' = Asked(c) /\ Web!Parsed(c, Len(w_asked[c]))' = Web!Parsed(c, Len(w_asked[c]))
    BY <1>1 DEF Asked, Web!Parsed, Web!IsPrefix
  <2>4. Child(c)'
    <3>1. CASE w_pc[c] \in {"stat", "open", "copy"}
      BY <1>1, <2>1, <2>2, <2>3, <3>1 DEF Child
    <3>2. CASE w_pc[c] \notin {"stat", "open", "copy"}
      BY <1>1, <2>1, <2>2, <2>3, <3>2 DEF Child, Web!Root
    <3> QED
      BY <3>1, <3>2
  <2>5. Got(c)'
    BY ZenonT(60), <1>1, <2>1, <2>2, <2>3 DEF Got, Web!IsPrefix, Web!Root
  <2> QED
    BY <2>4, <2>5
<1>4. touched' \in [Browser -> BOOLEAN]
  <2>1. \A c \in Browser : (touched[c] \/ w_pc[c] \in {"stat", "open", "copy"}) \in BOOLEAN
    BY WebTypes
  <2> QED
    BY <1>1, <2>1
<1>5. Web!TypeOK'
  <2>1. Web!IsInjective(w_backlog)' /\ (Web!Range(w_backlog) \subseteq Browser)'
    BY <1>1, WebQueue, WebBacklog
  <2>2. /\ w_parent \in BOOLEAN /\ browser \in [Browser -> {"new", "silent", "sent", "left"}]
        /\ w_asked \in [Browser -> Web!Request \cup {<<>>}]
    BY DEF WebIInv, Web!TypeOK
  <2> QED
    BY <1>1, <1>2, <2>1, <2>2, WebTypes DEF Web!TypeOK, Steps, Web!Request, Web!Get
<1>6. WebData'
  BY <1>1, <1>4 DEF WebIInv, WebData, Output
<1>7. Connected' /\ Web!WaitersHaveListener'
  BY <1>1 DEF WebIInv, Connected, Web!WaitersHaveListener, Web!Listening, Web!Running, Range, Web!Range
<1> QED
  BY <1>3, <1>5, <1>6, <1>7 DEF WebIInv

\* The parent takes the first of the backlog, for a child or to its end.
LEMMA TakenStep ==
  ASSUME Web!WebAssumption, WebIInv, NEW where \in {"read", "done"}, w_parent' \in BOOLEAN,
         w_backlog # <<>>, w_backlog' = Tail(w_backlog),
         w_pc' = [w_pc EXCEPT ![Head(w_backlog)] = where],
         w_parent' \/ Web!Running # {},
         UNCHANGED <<browser, w_asked, w_stops>>,
         UNCHANGED <<page, fd, status, length, body, whole, touched, dir, len>>
  PROVE  WebIInv'
<1>0. PICK h \in Browser : h = Head(w_backlog)
  BY WebBacklog, QueueTail
<1>1. /\ w_backlog' \in Seq(Browser) /\ IsInjective(w_backlog') /\ h \in Range(w_backlog) /\ h \in Browser
      /\ \A b : b \in Range(w_backlog') <=> b \in Range(w_backlog) /\ b # h
  BY <1>0, WebBacklog, QueueTail
<1>2. w_pc' = [w_pc EXCEPT ![h] = where]
  BY <1>0
<1>3. w_pc[h] = "none" /\ browser[h] # "new" /\ Child(h) /\ Got(h)
  BY <1>1, WebBacklog, WebTypes
<1>4. /\ w_pc' \in [Browser -> Steps] /\ w_pc'[h] = where
      /\ \A b \in Browser \ {h} : w_pc'[b] = w_pc[b]
  <2>1. w_pc \in [Browser -> Steps] /\ where \in Steps
    BY WebTypes DEF Steps
  <2> QED
    BY <1>1, <1>2, <2>1
<1>5. Range(w_backlog') \subseteq Browser
      /\ \A b \in Range(w_backlog') : w_pc'[b] = "none" /\ browser'[b] # "new"
  BY <1>1, <1>4, WebBacklog
<1>6. Web!Listening'
  <2>1. ASSUME NEW b \in Web!Running PROVE b \in Web!Running'
    BY <1>3, <1>4 DEF Web!Running
  <2> QED
    BY <2>1 DEF Web!Listening
<1>7. ASSUME where = "read" PROVE Child(h)' /\ Got(h)'
  <2>1. Child(h)'
    BY <1>3, <1>4, <1>7 DEF Child, Web!Root
  <2>2. Got(h)'
    BY <1>3, <1>4, <1>7 DEF Got
  <2> QED
    BY <2>1, <2>2
<1>8. ASSUME NEW b \in Browser
      PROVE  \/ /\ browser'[b] = browser[b] /\ w_asked'[b] = w_asked[b]
                /\ w_pc'[b] = w_pc[b] \/ (w_pc[b] = "none" /\ browser[b] # "new" /\ w_pc'[b] = "done")
             \/ Child(b)' /\ Got(b)'
  <2>1. CASE b = h
    BY <1>3, <1>4, <1>7, <2>1
  <2>2. CASE b # h
    BY <1>4, <2>2
  <2> QED
    BY <2>1, <2>2
<1>9. /\ browser' \in [Browser -> {"new", "silent", "sent", "left"}] /\ w_stops' \in Nat
      /\ w_asked' \in [Browser -> Web!Request \cup {<<>>}]
  BY DEF WebIInv, WebData, Web!TypeOK
<1> QED
  BY <1>1, <1>4, <1>5, <1>6, <1>8, <1>9, OutsideStep

LEMMA AcceptStep == ASSUME Web!WebAssumption, WebIInv, Web!Accept PROVE WebIInv'
<1>1. /\ w_parent' /\ w_parent' \in BOOLEAN /\ w_backlog # <<>> /\ w_backlog' = Tail(w_backlog)
      /\ w_pc' = [w_pc EXCEPT ![Head(w_backlog)] = "read"]
      /\ UNCHANGED <<browser, w_asked, w_stops>>
      /\ UNCHANGED <<page, fd, status, length, body, whole, touched, dir, len>>
  BY DEF Web!Accept, Web!Accepting, Web!answer, Web!files, WebIInv, Web!TypeOK
<1> QED
  BY <1>1, TakenStep

LEMMA ForkFailsStep == ASSUME Web!WebAssumption, WebIInv, Web!ForkFails PROVE WebIInv'
<1>1. /\ w_parent' = FALSE /\ w_backlog # <<>> /\ w_backlog' = Tail(w_backlog)
      /\ w_pc' = [w_pc EXCEPT ![Head(w_backlog)] = "done"]
      /\ Web!Cardinality(Web!Running) >= MinProc
      /\ UNCHANGED <<browser, w_asked, w_stops>>
      /\ UNCHANGED <<page, fd, status, length, body, whole, touched, dir, len>>
  BY DEF Web!ForkFails, Web!Children, Web!answer, Web!files
<1>2. Web!Running # {}
  <2>1. MinProc \in Nat \ {0} /\ Web!Cardinality({}) = 0
    BY WebCardinality DEF Web!WebAssumption
  <2>2. ASSUME Web!Running = {} PROVE FALSE
    <3>1. Web!Cardinality(Web!Running) = 0
      BY <2>1, <2>2
    <3> QED
      BY <1>1, <2>1, <3>1
  <2> QED
    BY <2>2
<1> QED
  BY <1>1, <1>2, TakenStep

LEMMA ParentEndsStep == ASSUME Web!WebAssumption, WebIInv, Web!ParentEnds PROVE WebIInv'
<1>1. /\ w_stops' = w_stops + 1 /\ Web!Processes(FALSE, w_pc)
      /\ UNCHANGED <<browser, w_asked>>
      /\ UNCHANGED <<page, fd, status, length, body, whole, touched, dir, len>>
  BY DEF Web!ParentEnds, Web!answer, Web!files
<1>2. \A b \in Range(w_backlog) : w_pc[b] = "none" /\ browser[b] # "new"
  BY WebBacklog
<1>3. w_pc \in [Browser -> Steps] /\ FALSE \in BOOLEAN
  BY WebTypes
<1>4. /\ w_parent' = FALSE /\ w_pc' \in [Browser -> Steps]
      /\ w_backlog' \in Seq(Browser) /\ IsInjective(w_backlog') /\ Range(w_backlog') \subseteq Range(w_backlog)
      /\ Web!WaitersHaveListener'
      /\ \A b \in Browser : w_pc'[b] = w_pc[b] \/ (b \in Range(w_backlog) /\ w_pc'[b] = "done")
  BY <1>1, <1>2, <1>3, ProcessesStep
<1>5. /\ w_stops' \in Nat /\ browser' \in [Browser -> {"new", "silent", "sent", "left"}]
      /\ w_asked' \in [Browser -> Web!Request \cup {<<>>}]
  BY <1>1 DEF WebIInv, WebData, Web!TypeOK
<1>6. \A b \in Range(w_backlog') : w_pc'[b] = "none" /\ browser'[b] # "new"
  BY <1>1, <1>2, <1>4, WebQueue DEF Web!WaitersHaveListener
<1>7. w_backlog' # <<>> => Web!Listening'
  BY <1>4 DEF Web!WaitersHaveListener
<1> QED
  BY <1>1, <1>2, <1>4, <1>5, <1>6, <1>7, WebBacklog, OutsideStep

LEMMA RestartStep == ASSUME Web!WebAssumption, WebIInv, Web!Restart PROVE WebIInv'
<1>1. /\ w_parent' = TRUE /\ UNCHANGED <<browser, w_asked, w_backlog, w_pc, w_stops>>
      /\ UNCHANGED <<page, fd, status, length, body, whole, touched, dir, len>>
  BY DEF Web!Restart, Web!answer, Web!files, Web!conn
<1>2. Web!Listening'
  BY <1>1 DEF Web!Listening
<1>3. /\ w_stops \in Nat /\ browser \in [Browser -> {"new", "silent", "sent", "left"}]
      /\ w_asked \in [Browser -> Web!Request \cup {<<>>}]
  BY DEF WebIInv, WebData, Web!TypeOK
<1> QED
  BY <1>1, <1>2, <1>3, WebTypes, WebBacklog, OutsideStep

-----------------------------------------------------------------------------
(* The web server's specification. *)

LEMMA WebInit == ASSUME Web!WebAssumption, Web!Init PROVE WebIInv
<1>1. /\ w_parent = TRUE /\ w_backlog = <<>> /\ w_stops = 0
      /\ browser = [c \in Browser |-> "new"] /\ w_asked = [c \in Browser |-> <<>>]
      /\ w_pc = [c \in Browser |-> "none"] /\ page = [c \in Browser |-> Web!Root]
      /\ fd = [c \in Browser |-> NoFile] /\ status = [c \in Browser |-> 0]
      /\ length = [c \in Browser |-> 0] /\ body = [c \in Browser |-> <<>>]
      /\ whole = [c \in Browser |-> TRUE] /\ touched = [c \in Browser |-> FALSE]
      /\ dir \in [Page -> Inode \cup {NoFile}] /\ len \in [Inode -> 0..MaxLen]
  BY DEF Web!Init
<1>2. <<>> \in Seq(Browser) /\ Range(<<>>) = {} /\ IsInjective(<<>>)
  BY DEF Range, IsInjective
<1>3. Web!TypeOK
  BY <1>1, <1>2, WebQueue DEF Web!TypeOK
<1>4. WebData
  <2>1. <<>> \in Seq(Part) /\ <<>> \in Seq(Output)
    OBVIOUS
  <2> QED
    BY <1>1, <1>2, <2>1 DEF WebData, Web!Root
<1>5. Connected /\ Web!WaitersHaveListener
  BY <1>1, <1>2, WebQueue DEF Connected, Web!WaitersHaveListener
<1>6. ASSUME NEW c \in Browser PROVE Child(c) /\ Got(c)
  BY <1>1 DEF Child, Got
<1> QED
  BY <1>3, <1>4, <1>5, <1>6 DEF WebIInv

LEMMA WebStutter == ASSUME WebIInv, UNCHANGED w_vars PROVE WebIInv'
<1>1. /\ UNCHANGED <<w_parent, w_backlog, browser, w_asked, w_pc, page, fd, w_stops>>
      /\ UNCHANGED <<status, length, body, whole, touched, dir, len>>
  BY DEF w_vars
<1>2. Web!TypeOK' /\ WebData'
  <2>1. Web!IsInjective(w_backlog)' /\ (Web!Range(w_backlog) \subseteq Browser)'
    BY <1>1, WebQueue, WebBacklog
  <2>2. /\ w_parent \in BOOLEAN /\ browser \in [Browser -> {"new", "silent", "sent", "left"}]
        /\ w_asked \in [Browser -> Web!Request \cup {<<>>}]
    BY DEF WebIInv, Web!TypeOK
  <2>3. Web!TypeOK'
    BY <1>1, <2>1, <2>2, WebTypes DEF Web!TypeOK, Steps, Web!Request, Web!Get
  <2>4. WebData'
    BY <1>1 DEF WebIInv, WebData, Output
  <2> QED
    BY <2>3, <2>4
<1>3. Connected' /\ Web!WaitersHaveListener'
  BY <1>1 DEF WebIInv, Connected, Web!WaitersHaveListener, Web!Listening, Web!Running, Range, Web!Range
<1>4. ASSUME NEW c \in Browser PROVE Child(c)' /\ Got(c)'
  <2>1. Child(c) /\ Got(c)
    BY DEF WebIInv
  <2>2. /\ Web!Parsed(c, Len(w_asked[c]))' = Web!Parsed(c, Len(w_asked[c]))
        /\ Web!There(page[c])' = Web!There(page[c])
    BY <1>1 DEF Web!Parsed, Web!There, Web!Root
  <2>3. Asked(c)' = Asked(c)
    BY <1>1, <2>2 DEF Asked, Web!IsPrefix
  <2>4. Child(c)'
    BY <1>1, <2>1, <2>2, <2>3 DEF Child, Web!Root
  <2>5. Got(c)'
    BY <1>1, <2>1, <2>2 DEF Got, Web!IsPrefix, Web!Root
  <2> QED
    BY <2>4, <2>5
<1> QED
  BY <1>2, <1>3, <1>4 DEF WebIInv

LEMMA WebNextIInv == ASSUME Web!WebAssumption, WebIInv, [Web!Next]_w_vars PROVE WebIInv'
<1>1. CASE Web!Accept
  BY <1>1, AcceptStep
<1>2. CASE Web!ForkFails
  BY <1>2, ForkFailsStep
<1>3. CASE Web!ParentEnds
  BY <1>3, ParentEndsStep
<1>4. CASE Web!Restart
  BY <1>4, RestartStep
<1>5. CASE Web!EditFiles
  BY <1>5, EditStep
<1>6. ASSUME NEW c \in Browser,
             Web!Connect(c) \/ Web!Send(c) \/ Web!Leave(c) \/ Web!ChildStep(c) \/ Web!BrokenPipe(c)
      PROVE  WebIInv'
  BY <1>6, ConnectStep, SendStep, LeaveStep, ChildIInv
<1>7. CASE UNCHANGED w_vars
  BY <1>7, WebStutter
<1> QED
  BY <1>1, <1>2, <1>3, <1>4, <1>5, <1>6, <1>7 DEF Web!Next

\* Who waits when the parent has gone goes on waiting without a parent, or is
\* reset.
LEMMA WebOrphans ==
  ASSUME WebIInv, [Web!Next]_w_vars, ~w_parent, NEW c \in Web!Range(w_backlog)
  PROVE  \/ ~w_parent' /\ c \in Web!Range(w_backlog)'
         \/ w_pc'[c] = "done" /\ status'[c] = 0
<1>1. /\ c \in Browser /\ c \in Range(w_backlog) /\ w_pc[c] = "none" /\ status[c] = 0 /\ Web!Listening
      /\ w_backlog # <<>>
  <2>1. c \in Range(w_backlog)
    BY WebQueue
  <2>2. w_backlog # <<>>
    BY <2>1 DEF Range
  <2> QED
    BY <2>1, <2>2, WebBacklog, WebTypes DEF Child
<1>2. ASSUME UNCHANGED <<w_parent, w_backlog>> PROVE ~w_parent' /\ c \in Web!Range(w_backlog)'
  BY <1>2 DEF Web!Range
<1>3. ASSUME NEW b \in Browser, Web!ChildStep(b) \/ Web!BrokenPipe(b)
      PROVE  \/ ~w_parent' /\ c \in Web!Range(w_backlog)'
             \/ w_pc'[c] = "done" /\ status'[c] = 0
  <2>1. b # c
    BY <1>1, <1>3 DEF Web!ChildStep, Web!BrokenPipe, Web!Read, Web!ReadEnd, Web!Access, Web!Stat,
         Web!Open, Web!Copy
  <2>2. status' = status \/ \E code : status' = [status EXCEPT ![b] = code]
    BY <1>3 DEF Web!ChildStep, Web!BrokenPipe, Web!Read, Web!ReadEnd, Web!Access, Web!Stat,
         Web!Open, Web!Copy, Web!WriteError, Web!answer
  <2>3. status'[c] = 0
    BY <1>1, <2>1, <2>2, WebTypes
  <2>4. UNCHANGED <<w_parent, w_backlog>> \/ \E where : Web!Goto(b, where)
    BY <1>3 DEF Web!ChildStep, Web!BrokenPipe, Web!Read, Web!ReadEnd, Web!Access, Web!Stat,
         Web!Open, Web!Copy, Web!WriteError, Web!Exit
  <2>5. ASSUME NEW where, Web!Goto(b, where)
        PROVE  \/ UNCHANGED <<w_parent, w_backlog>>
               \/ w_pc'[c] = "done"
    BY <1>1, <2>5, WebQueue DEF Web!Goto, Web!Processes
  <2> QED
    BY <1>2, <2>3, <2>4, <2>5
<1>4. CASE Web!Accept \/ Web!ForkFails \/ Web!ParentEnds
  BY <1>4 DEF Web!Accept, Web!Accepting, Web!ForkFails, Web!ParentEnds
<1>5. CASE Web!Restart
  BY <1>1, <1>5 DEF Web!Restart
<1>6. CASE Web!EditFiles
  BY <1>2, <1>6 DEF Web!EditFiles, Web!conn
<1>7. ASSUME NEW b \in Browser, Web!Connect(b) PROVE ~w_parent' /\ c \in Web!Range(w_backlog)'
  <2>1. browser[b] = "new" /\ w_backlog' = Append(w_backlog, b) /\ w_parent' = w_parent
    BY <1>7 DEF Web!Connect
  <2>2. b \notin Range(w_backlog)
    BY <2>1, WebBacklog
  <2>3. c \in Range(w_backlog')
    BY <1>1, <2>1, <2>2, WebBacklog, QueueAppend
  <2> QED
    BY <2>1, <2>3, WebQueue
<1>8. ASSUME NEW b \in Browser, Web!Send(b) \/ Web!Leave(b) PROVE ~w_parent' /\ c \in Web!Range(w_backlog)'
  BY <1>2, <1>8 DEF Web!Send, Web!Leave
<1>9. CASE UNCHANGED w_vars
  BY <1>2, <1>9 DEF w_vars
<1> QED
  BY <1>2, <1>3, <1>4, <1>5, <1>6, <1>7, <1>8, <1>9 DEF Web!Next

-----------------------------------------------------------------------------
(* The UDP calculator. *)

Question == [c : Calculating, q : UdpQuestion]
Line == [q : UdpQuestion \cup {Udp!NoQuestion}, result : Udp!Int_, error : {0, 2},
         source : UdpQuestion \cup {Udp!NoQuestion}]
Reply == [c : Calculating, line : Line]

\* The datagrams of a bag, and how many are for client c.
Bag(bag, D) ==
  /\ bag \in [DOMAIN bag -> Nat \ {0}] /\ DOMAIN bag \subseteq D
  /\ \A c \in Calculating : IsFiniteSet(Udp!Copies(bag, c))
Count(bag, c) == Cardinality(Udp!Copies(bag, c))

\* What datagram x counts for client c.
For(x, c) == IF x.c = c THEN 1 ELSE 0

\* The module's operators on sets and bags are the library's.
LEMMA SameCardinality == ASSUME NEW S PROVE Udp!Cardinality(S) = Cardinality(S)
BY DEF Udp!Cardinality, Cardinality

\* What the copies are.
LEMMA CopiesAre ==
  ASSUME NEW bag, NEW c
  PROVE  /\ \A d \in DOMAIN bag : \A k \in 1..bag[d] : d.c = c => <<d, k>> \in Udp!Copies(bag, c)
         /\ \A x \in Udp!Copies(bag, c) : \E d \in DOMAIN bag : \E k \in 1..bag[d] : d.c = c /\ x = <<d, k>>
BY DEF Udp!Copies, Udp!BagToSet

\* A datagram more is a copy more for its client.
LEMMA BagGrows ==
  ASSUME NEW D, NEW bag, Bag(bag, D), NEW x \in D, NEW new, new = Udp!BagAdd(bag, x)
  PROVE  /\ Bag(new, D) /\ \A d : d \in DOMAIN new <=> d \in DOMAIN bag \/ d = x
         /\ \A c \in Calculating :
              /\ Count(bag, c) \in Nat /\ Count(new, c) \in Nat
              /\ Count(new, c) = Count(bag, c) + For(x, c)
<1> DEFINE n == IF x \in DOMAIN bag THEN bag[x] + 1 ELSE 1
<1>1. /\ new \in [DOMAIN new -> Nat \ {0}] /\ DOMAIN new = DOMAIN bag \cup {x}
      /\ new[x] = n /\ \A d \in DOMAIN bag : d # x => new[d] = bag[d]
      /\ n \in Nat \ {0} /\ (x \in DOMAIN bag => n = bag[x] + 1 /\ bag[x] \in Nat)
      /\ x \notin DOMAIN bag => n = 1
  BY DEF Udp!BagAdd, Bag
<1>2. ASSUME NEW c \in Calculating, x.c # c PROVE Udp!Copies(new, c) = Udp!Copies(bag, c)
  <2>1. \A y \in Udp!Copies(bag, c) : y \in Udp!Copies(new, c)
    BY <1>1, <1>2, CopiesAre
  <2>2. \A y \in Udp!Copies(new, c) : y \in Udp!Copies(bag, c)
    BY <1>1, <1>2, CopiesAre
  <2> QED
    BY <2>1, <2>2
<1>3. ASSUME NEW c \in Calculating, x.c = c
      PROVE  Udp!Copies(new, c) = Udp!Copies(bag, c) \cup {<<x, n>>} /\ <<x, n>> \notin Udp!Copies(bag, c)
  <2> HIDE DEF n
  <2>0. DOMAIN bag \subseteq DOMAIN new /\ x \in DOMAIN new
    BY <1>1
  <2>1. <<x, n>> \in Udp!Copies(new, c)
    <3>1. n \in 1..new[x]
      BY <1>1
    <3> QED
      BY <1>3, <3>1, <2>0, CopiesAre
  <2>2. ASSUME NEW y \in Udp!Copies(bag, c) PROVE y \in Udp!Copies(new, c)
    <3>1. PICK d \in DOMAIN bag : \E k \in 1..bag[d] : d.c = c /\ y = <<d, k>>
      BY CopiesAre
    <3>2. PICK k \in 1..bag[d] : d.c = c /\ y = <<d, k>>
      BY <3>1
    <3>3. k \in 1..new[d]
      <4>1. CASE d = x
        BY <1>1, <4>1
      <4>2. CASE d # x
        BY <1>1, <4>2
      <4> QED
        BY <4>1, <4>2
    <3> QED
      BY <3>2, <3>3, <2>0, CopiesAre
  <2>3. ASSUME NEW y \in Udp!Copies(new, c) PROVE y = <<x, n>> \/ y \in Udp!Copies(bag, c)
    <3>1. PICK d \in DOMAIN new : \E k \in 1..new[d] : d.c = c /\ y = <<d, k>>
      BY CopiesAre
    <3>2. PICK k \in 1..new[d] : d.c = c /\ y = <<d, k>>
      BY <3>1
    <3>3. CASE d = x
      <4>1. k = n \/ (x \in DOMAIN bag /\ k \in 1..bag[x])
        BY <1>1, <3>3
      <4> QED
        BY <3>2, <3>3, <4>1, CopiesAre
    <3>4. CASE d # x
      BY <1>1, <3>2, <3>4, CopiesAre
    <3> QED
      BY <3>3, <3>4
  <2>4. <<x, n>> \notin Udp!Copies(bag, c)
    <3>1. ~(x \in DOMAIN bag /\ n \in 1..bag[x])
      BY <1>1
    <3> QED
      BY <3>1, CopiesAre
  <2> QED
    BY <2>1, <2>2, <2>3, <2>4
<1>4. ASSUME NEW c \in Calculating
      PROVE  /\ IsFiniteSet(Udp!Copies(new, c)) /\ Count(bag, c) \in Nat /\ Count(new, c) \in Nat
             /\ Count(new, c) = Count(bag, c) + For(x, c)
  <2>1. IsFiniteSet(Udp!Copies(bag, c))
    BY DEF Bag
  <2>2. Count(bag, c) \in Nat
    BY <2>1, FS_CardinalityType DEF Count
  <2>3. CASE x.c # c
    BY <1>2, <2>1, <2>2, <2>3 DEF Count, For
  <2>4. CASE x.c = c
    <3>1. IsFiniteSet(Udp!Copies(new, c)) /\ Count(new, c) = Count(bag, c) + 1
      BY <1>3, <2>1, <2>4, FS_AddElement DEF Count
    <3> QED
      BY <2>2, <2>4, <3>1 DEF For
  <2> QED
    BY <2>3, <2>4
<1> QED
  BY <1>1, <1>4 DEF Bag

\* A datagram less is a copy less for its client.
LEMMA BagShrinks ==
  ASSUME NEW D, NEW bag, Bag(bag, D), NEW x \in DOMAIN bag, NEW new, new = Udp!BagRemove(bag, x)
  PROVE  /\ Bag(new, D) /\ DOMAIN new \subseteq DOMAIN bag
         /\ \A c \in Calculating :
              /\ Count(bag, c) \in Nat /\ Count(new, c) \in Nat
              /\ Count(new, c) = Count(bag, c) - For(x, c)
<1>1. /\ new \in [DOMAIN new -> Nat \ {0}] /\ DOMAIN new \subseteq DOMAIN bag
      /\ DOMAIN bag \ {x} \subseteq DOMAIN new /\ \A d \in DOMAIN bag : d # x => new[d] = bag[d]
      /\ bag[x] \in Nat \ {0} /\ (x \in DOMAIN new <=> bag[x] # 1) /\ (x \in DOMAIN new => new[x] = bag[x] - 1)
  BY DEF Udp!BagRemove, Bag
<1>2. ASSUME NEW c \in Calculating, x.c # c PROVE Udp!Copies(new, c) = Udp!Copies(bag, c)
  <2>1. \A y \in Udp!Copies(bag, c) : y \in Udp!Copies(new, c)
    BY <1>1, <1>2, CopiesAre
  <2>2. \A y \in Udp!Copies(new, c) : y \in Udp!Copies(bag, c)
    BY <1>1, <1>2, CopiesAre
  <2> QED
    BY <2>1, <2>2
<1>3. ASSUME NEW c \in Calculating, x.c = c
      PROVE  Udp!Copies(new, c) = Udp!Copies(bag, c) \ {<<x, bag[x]>>} /\ <<x, bag[x]>> \in Udp!Copies(bag, c)
  <2>1. <<x, bag[x]>> \in Udp!Copies(bag, c)
    <3>1. bag[x] \in 1..bag[x]
      BY <1>1
    <3> QED
      BY <1>3, <3>1, CopiesAre
  <2>2. ASSUME NEW y \in Udp!Copies(new, c) PROVE y \in Udp!Copies(bag, c) /\ y # <<x, bag[x]>>
    <3>1. PICK d \in DOMAIN new : \E k \in 1..new[d] : d.c = c /\ y = <<d, k>>
      BY CopiesAre
    <3>2. PICK k \in 1..new[d] : d.c = c /\ y = <<d, k>>
      BY <3>1
    <3>3. d \in DOMAIN bag /\ k \in 1..bag[d] /\ (d = x => k # bag[x])
      <4>1. CASE d = x
        BY <1>1, <4>1
      <4>2. CASE d # x
        BY <1>1, <4>2
      <4> QED
        BY <4>1, <4>2
    <3> QED
      BY <3>2, <3>3, CopiesAre
  <2>3. ASSUME NEW y \in Udp!Copies(bag, c), y # <<x, bag[x]>> PROVE y \in Udp!Copies(new, c)
    <3>1. PICK d \in DOMAIN bag : \E k \in 1..bag[d] : d.c = c /\ y = <<d, k>>
      BY CopiesAre
    <3>2. PICK k \in 1..bag[d] : d.c = c /\ y = <<d, k>>
      BY <3>1
    <3>3. d \in DOMAIN new /\ k \in 1..new[d]
      <4>1. CASE d = x
        BY <1>1, <2>3, <3>2, <4>1
      <4>2. CASE d # x
        BY <1>1, <4>2
      <4> QED
        BY <4>1, <4>2
    <3> QED
      BY <3>2, <3>3, CopiesAre
  <2> QED
    BY <2>1, <2>2, <2>3
<1>4. ASSUME NEW c \in Calculating
      PROVE  /\ IsFiniteSet(Udp!Copies(new, c)) /\ Count(bag, c) \in Nat /\ Count(new, c) \in Nat
             /\ Count(new, c) = Count(bag, c) - For(x, c)
  <2>1. IsFiniteSet(Udp!Copies(bag, c))
    BY DEF Bag
  <2>2. Count(bag, c) \in Nat
    BY <2>1, FS_CardinalityType DEF Count
  <2>3. CASE x.c # c
    BY <1>2, <2>1, <2>2, <2>3 DEF Count, For
  <2>4. CASE x.c = c
    <3>1. IsFiniteSet(Udp!Copies(new, c)) /\ Count(new, c) = Count(bag, c) - 1
      BY <1>3, <2>1, <2>4, FS_RemoveElement DEF Count
    <3>2. Count(new, c) \in Nat
      BY <3>1, FS_CardinalityType DEF Count
    <3> QED
      BY <2>2, <2>4, <3>1, <3>2 DEF For
  <2> QED
    BY <2>3, <2>4
<1> QED
  BY <1>1, <1>4 DEF Bag

\* No datagrams, no copies.
LEMMA BagEmpty ==
  ASSUME NEW D
  PROVE  /\ Bag(Udp!EmptyBag, D) /\ DOMAIN Udp!EmptyBag = {} /\ Udp!IsABag(Udp!EmptyBag)
         /\ \A c \in Calculating : Count(Udp!EmptyBag, c) = 0
<1>1. DOMAIN Udp!EmptyBag = {} /\ Udp!EmptyBag \in [{} -> Nat \ {0}]
  BY DEF Udp!EmptyBag, Udp!SetToBag
<1>2. \A c \in Calculating : Udp!Copies(Udp!EmptyBag, c) = {}
  BY <1>1, CopiesAre
<1> QED
  BY <1>1, <1>2, FS_EmptySet DEF Bag, Count, Udp!IsABag

\* A datagram that is there counts.
LEMMA BagCounts ==
  ASSUME NEW D, NEW bag, Bag(bag, D), NEW x \in DOMAIN bag, x.c \in Calculating
  PROVE  Count(bag, x.c) > 0
<1> DEFINE new == Udp!BagRemove(bag, x)
<1>1. Count(bag, x.c) \in Nat /\ Count(new, x.c) \in Nat /\ Count(new, x.c) = Count(bag, x.c) - 1
  <2> HIDE DEF Bag, Count
  <2> QED
    BY BagShrinks DEF For
<1> QED
  BY <1>1

\* What the maps and the datagrams hold.
UdpData ==
  /\ Bag(questions, Question) /\ Bag(answers, Reply)
  /\ u_asked \in [Calculating -> UdpQuestion \cup {Udp!NoQuestion}]
  /\ shown \in [Calculating -> Line]
  /\ dups \in [Calculating -> Nat] /\ losses \in [Calculating -> Nat]

\* At most so many datagrams are on their way, even if the server has ended.
Pending(c) == IF u_client[c] = "waiting" THEN 1 ELSE 0
AtMost ==
  \A c \in Calculating : Count(questions, c) + Count(answers, c) <= Pending(c) + dups[c] - losses[c]

\* If none was doubled, the one on its way is about what was asked last.
AboutAsked ==
  \A c \in Calculating : dups[c] = 0 =>
    /\ \A d \in DOMAIN questions : d.c = c => d.q = u_asked[c]
    /\ \A a \in DOMAIN answers : a.c = c => a.line.q = u_asked[c]

\* cal_result is what it was computed from, and so is each line sent or shown.
Explained(l) ==
  /\ l.source # Udp!NoQuestion => Udp!Valid(l.source) /\ l.result = Udp!Value(l.source)
  /\ l.source # l.q => ~Udp!Valid(l.q) /\ (Udp!ByZero(l.q) => l.error = 2)
  /\ l.error # 0 => Udp!ByZero(l.q)

Results ==
  /\ source # Udp!NoQuestion => Udp!Valid(source) /\ cal_result = Udp!Value(source)
  /\ \A c \in Calculating : Explained(shown[c])
  /\ \A a \in DOMAIN answers : Explained(a.line)

\* Inv of the module, by these counts.
Balanced ==
  ~dead => \A c \in Calculating :
    Count(questions, c) + Count(answers, c) = Pending(c) + dups[c] - losses[c]

UdpIInv ==
  /\ Udp!TypeOK /\ UdpData /\ Balanced /\ AtMost /\ Udp!InStep /\ AboutAsked /\ Results

\* It implies the module's invariant.
LEMMA UdpIInvInv == UdpIInv => Udp!Inv
<1> SUFFICES ASSUME UdpIInv PROVE Udp!Inv
  OBVIOUS
<1>1. Udp!Accounted
  <2>1. \A c \in Calculating : Udp!InFlight(c) = Count(questions, c) + Count(answers, c)
    BY SameCardinality DEF Udp!InFlight, Count
  <2> QED
    BY <2>1 DEF UdpIInv, Balanced, Udp!Accounted, Pending
<1>2. Udp!ResultsExplained
  <2>1. ASSUME NEW l \in Udp!Lines PROVE Explained(l)
    BY <2>1 DEF Udp!Lines, UdpIInv, Results, Udp!BagToSet
  <2> QED
    BY <2>1 DEF Udp!ResultsExplained, Explained
<1> QED
  BY <1>1, <1>2 DEF UdpIInv, Udp!Inv

\* Nothing is on its way, nothing has been computed.
LEMMA UdpInit == ASSUME Udp!Init, Udp!CalcAssumption PROVE UdpIInv
<1> USE DEF Udp!Init
<1>1. /\ Bag(questions, Question) /\ Bag(answers, Reply) /\ DOMAIN questions = {} /\ DOMAIN answers = {}
      /\ Udp!IsABag(questions) /\ Udp!IsABag(answers)
      /\ \A c \in Calculating : Count(questions, c) = 0 /\ Count(answers, c) = 0
  BY BagEmpty
<1>2. 0 \in Udp!Int_
  BY DEF Udp!Int_, Udp!Least, Udp!CalcAssumption
<1>3. Udp!NoLine \in Line /\ Explained(Udp!NoLine)
  BY <1>2 DEF Udp!NoLine, Line, Explained
<1>4. Udp!TypeOK /\ UdpData
  BY <1>1, <1>3 DEF Udp!TypeOK, UdpData
<1>5. Balanced /\ AtMost
  BY <1>1 DEF Balanced, AtMost, Pending
<1>6. Udp!InStep
  BY DEF Udp!InStep, Udp!NoLine
<1>7. AboutAsked /\ Results
  BY <1>1, <1>3 DEF AboutAsked, Results
<1> QED
  BY <1>4, <1>5, <1>6, <1>7 DEF UdpIInv

\* What the server computes is an int.
LEMMA ValueInt == ASSUME Udp!CalcAssumption, NEW q \in UdpQuestion PROVE Udp!Value(q) \in Udp!Int_
<1>1. Half \in Nat \ {0} /\ q[1] \in Int /\ q[3] \in Int
  BY DEF Udp!CalcAssumption, Udp!Int_, Udp!Least
<1>2. ASSUME NEW n \in Int PROVE Udp!Wrap(n) \in Udp!Int_
  <2>1. n + Half \in Int /\ 2 * Half \in Nat \ {0}
    BY <1>1
  <2>2. (n + Half) % (2 * Half) \in 0 .. 2 * Half - 1
    BY <2>1
  <2>3. n - Udp!Least = n + Half /\ Udp!Least = -Half
    BY <1>1 DEF Udp!Least
  <2> QED
    BY <1>1, <2>2, <2>3 DEF Udp!Wrap, Udp!Int_
<1>3. ASSUME q[3] # 0 PROVE Udp!Quotient(q[1], q[3]) \in Int
  BY <1>1, <1>3 DEF Udp!Quotient
<1>4. q[1] + q[3] \in Int /\ q[1] - q[3] \in Int /\ q[1] * q[3] \in Int
  BY <1>1
<1> DEFINE n == CASE q[2] = "+" -> q[1] + q[3]
                  [] q[2] = "-" -> q[1] - q[3]
                  [] q[2] = "*" -> q[1] * q[3]
                  [] OTHER      -> IF q[3] = 0 THEN 0 ELSE Udp!Quotient(q[1], q[3])
<1>5. n \in Int
  <2>1. CASE q[2] = "+"
    BY <1>4, <2>1
  <2>2. CASE q[2] = "-"
    BY <1>4, <2>2
  <2>3. CASE q[2] = "*"
    BY <1>4, <2>3
  <2>4. CASE q[2] # "+" /\ q[2] # "-" /\ q[2] # "*"
    <3>1. n = IF q[3] = 0 THEN 0 ELSE Udp!Quotient(q[1], q[3])
      BY <2>4
    <3> QED
      BY <1>3, <3>1
  <2> QED
    BY <2>1, <2>2, <2>3, <2>4
<1>6. Udp!Value(q) = Udp!Wrap(n)
  BY DEF Udp!Value
<1> HIDE DEF n
<1> QED
  BY <1>2, <1>5, <1>6

\* Question and answer are different datagrams.
LEMMA Apart == ASSUME NEW d \in Question PROVE d \notin Reply
<1>1. DOMAIN d = {"c", "q"}
  BY DEF Question
<1>2. \A a \in Reply : DOMAIN a = {"c", "line"}
  BY DEF Reply
<1> QED
  BY <1>1, <1>2

\* The line of a client that has asked and not been answered.
LEMMA NoLineExplained == Udp!NoLine \in Line /\ Explained(Udp!NoLine)
<1>1. 0 \in Udp!Int_
  BY RequestsAssumption DEF RequestsAssumption, Udp!Int_, Udp!Least, Udp!CalcAssumption
<1> QED
  BY <1>1 DEF Udp!NoLine, Line, Explained

\* What a step of a client or of the network leaves as it is.
LEMMA UdpTypes ==
  ASSUME Bag(questions', Question), Bag(answers', Reply)
  PROVE  Udp!IsABag(questions)' /\ Udp!IsABag(answers)' /\ Bag(questions, Question)' /\ Bag(answers, Reply)'
<1>1. Bag(questions, Question)' = Bag(questions', Question) /\ Bag(answers, Reply)' = Bag(answers', Reply)
  BY DEF Bag, Question, Reply, Line, Udp!Copies, Udp!Int_, Udp!Least, Udp!NoQuestion
<1>2. questions' \in [DOMAIN questions' -> Nat \ {0}] /\ answers' \in [DOMAIN answers' -> Nat \ {0}]
  BY DEF Bag
<1> QED
  BY <1>1, <1>2 DEF Udp!IsABag

\* The counts of the datagrams, and what they are compared with, are integers.
Excess(c) == Pending(c) + dups[c] - losses[c]
LEMMA CountsAreNumbers ==
  ASSUME UdpIInv, NEW c \in Calculating
  PROVE  /\ Count(questions, c) \in Nat /\ Count(answers, c) \in Nat
         /\ Pending(c) \in {0, 1} /\ dups[c] \in Nat /\ losses[c] \in Nat /\ Excess(c) \in Int
         /\ Count(questions, c) + Count(answers, c) <= Excess(c)
         /\ \A x : For(x, c) \in {0, 1}
<1>1. Count(questions, c) \in Nat /\ Count(answers, c) \in Nat
  BY FS_CardinalityType DEF UdpIInv, UdpData, Bag, Count
<1>2. Pending(c) \in {0, 1} /\ dups[c] \in Nat /\ losses[c] \in Nat
  BY DEF UdpIInv, UdpData, Pending
<1> QED
  BY <1>1, <1>2 DEF UdpIInv, AtMost, Excess, For

\* A step that adds to the datagrams on their way what it adds to the balance.
LEMMA CountsKept ==
  ASSUME UdpIInv, dead' = dead,
         \A c \in Calculating :
           /\ {Count(questions', c), Count(answers', c), Excess(c)'} \subseteq Int
           /\ Excess(c)' - Excess(c)
                = (Count(questions', c) - Count(questions, c)) + (Count(answers', c) - Count(answers, c))
  PROVE  Balanced' /\ AtMost'
<1>1. ASSUME NEW c \in Calculating
      PROVE  /\ (Count(questions, c) + Count(answers, c))' <= (Pending(c) + dups[c] - losses[c])'
             /\ ~dead' => (Count(questions, c) + Count(answers, c))' = (Pending(c) + dups[c] - losses[c])'
  <2>1. (Count(questions, c) + Count(answers, c))' = Count(questions', c) + Count(answers', c)
    BY DEF Count, Udp!Copies, Udp!BagToSet
  <2>2. /\ {Count(questions, c), Count(answers, c), Excess(c)} \subseteq Int
        /\ Count(questions, c) + Count(answers, c) <= Excess(c)
    BY CountsAreNumbers
  <2>3. ~dead => Count(questions, c) + Count(answers, c) = Excess(c)
    BY DEF UdpIInv, Balanced, Excess
  <2>4. Excess(c)' = (Pending(c) + dups[c] - losses[c])'
    BY DEF Excess
  <2> QED
    BY <2>1, <2>2, <2>3, <2>4
<1> QED
  BY <1>1 DEF Balanced, AtMost

\* A user asks: the one datagram on its way is about that.
LEMMA AskStep == ASSUME UdpIInv, NEW c \in Calculating, Udp!Ask(c) PROVE UdpIInv'
<1> USE DEF UdpIInv
<1>1. PICK q \in UdpQuestion :
        /\ u_client[c] = "typing" /\ u_client' = [u_client EXCEPT ![c] = "waiting"]
        /\ u_asked' = [u_asked EXCEPT ![c] = q]
        /\ questions' = Udp!BagAdd(questions, [c |-> c, q |-> q])
        /\ shown' = [shown EXCEPT ![c] = Udp!NoLine]
        /\ UNCHANGED <<answers, cal_result, source, dead, dups, losses>>
  BY DEF Udp!Ask, Udp!history
<1> DEFINE x == [c |-> c, q |-> q]
<1>2. x \in Question /\ x.c = c /\ x.q = q
  BY DEF Question
<1>3. questions' = Udp!BagAdd(questions, x) /\ Bag(questions, Question)
  BY <1>1 DEF UdpData
<1> HIDE DEF x
<1>4. /\ Bag(questions', Question) /\ \A d : d \in DOMAIN questions' <=> d \in DOMAIN questions \/ d = x
      /\ \A e \in Calculating :
           Count(questions', e) = Count(questions, e) + For(x, e)
  <2> HIDE DEF UdpIInv
  <2> QED
    BY <1>2, <1>3, BagGrows
<1>5. \A e \in Calculating : Pending(e)' = Pending(e) + For(x, e)
  BY <1>1, <1>2 DEF Pending, Udp!TypeOK, For
<1>6. Balanced' /\ AtMost'
  <2> HIDE DEF UdpIInv
  <2>1. ASSUME NEW e \in Calculating
        PROVE  /\ {Count(questions', e), Count(answers', e), Excess(e)'} \subseteq Int
               /\ Excess(e)' - Excess(e)
                    = (Count(questions', e) - Count(questions, e)) + (Count(answers', e) - Count(answers, e))
    <3>1. Count(answers', e) = Count(answers, e) /\ dups'[e] = dups[e] /\ losses'[e] = losses[e]
      BY <1>1
    <3> QED
      BY <1>2, <1>4, <1>5, <3>1, CountsAreNumbers DEF Excess
  <2> QED
    BY <1>1, <2>1, CountsKept
<1>7. AboutAsked'
  <2>1. ASSUME dups[c] = 0
        PROVE  (\A d \in DOMAIN questions : d.c # c) /\ (\A a \in DOMAIN answers : a.c # c)
    <3>1. Count(questions, c) + Count(answers, c) <= 0 /\ Count(questions, c) \in Nat /\ Count(answers, c) \in Nat
      BY <1>1, <2>1, CountsAreNumbers DEF Excess, Pending
    <3>2. ~(Count(questions, c) > 0) /\ ~(Count(answers, c) > 0)
      BY <3>1
    <3> QED
      BY <3>2, BagCounts DEF UdpData
  <2>2. \A e \in Calculating : u_asked'[e] = IF e = c THEN q ELSE u_asked[e]
    BY <1>1 DEF UdpData
  <2> QED
    BY <1>1, <1>2, <1>4, <2>1, <2>2 DEF AboutAsked
<1>8. UdpData' /\ Udp!TypeOK'
  BY <1>1, <1>4, UdpTypes, NoLineExplained DEF UdpData, Udp!TypeOK
<1>9. Udp!InStep'
  BY <1>1 DEF Udp!InStep, Udp!TypeOK, UdpData
<1>10. Results'
  <2>1. \A e \in Calculating : Explained(shown'[e])
    BY <1>1, NoLineExplained DEF Results, UdpData
  <2>2. \A l : Explained(l)' <=> Explained(l)
    BY DEF Explained
  <2> QED
    BY <1>1, <2>1, <2>2 DEF Results
<1> QED
  BY <1>6, <1>7, <1>8, <1>9, <1>10

\* A client is shown an answer: if none was doubled, there is no other.
LEMMA ShowStep == ASSUME UdpIInv, NEW c \in Calculating, Udp!Show(c) PROVE UdpIInv'
<1> USE DEF UdpIInv
<1>1. PICK a \in DOMAIN answers :
        /\ u_client[c] = "waiting" /\ u_client' = [u_client EXCEPT ![c] = "typing"]
        /\ a.c = c /\ shown' = [shown EXCEPT ![c] = a.line]
        /\ answers' = Udp!BagRemove(answers, a)
        /\ UNCHANGED <<u_asked, questions, cal_result, source, dead, dups, losses>>
  BY DEF Udp!Show, Udp!history, Udp!BagToSet
<1>2. Bag(answers, Reply) /\ a \in Reply /\ a.line \in Line /\ Explained(a.line)
  BY DEF UdpData, Bag, Reply, Results
<1>3. /\ Bag(answers', Reply) /\ DOMAIN answers' \subseteq DOMAIN answers
      /\ \A e \in Calculating :
           Count(answers', e) = Count(answers, e) - For(a, e)
  <2> HIDE DEF UdpIInv
  <2> QED
    BY <1>1, <1>2, BagShrinks
<1>4. \A e \in Calculating : Pending(e)' = Pending(e) - For(a, e)
  BY <1>1 DEF Pending, Udp!TypeOK, For
<1>5. Balanced' /\ AtMost'
  <2> HIDE DEF UdpIInv
  <2>1. ASSUME NEW e \in Calculating
        PROVE  /\ {Count(questions', e), Count(answers', e), Excess(e)'} \subseteq Int
               /\ Excess(e)' - Excess(e)
                    = (Count(questions', e) - Count(questions, e)) + (Count(answers', e) - Count(answers, e))
    <3>1. Count(questions', e) = Count(questions, e) /\ dups'[e] = dups[e] /\ losses'[e] = losses[e]
      BY <1>1
    <3> QED
      BY <1>1, <1>3, <1>4, <3>1, CountsAreNumbers DEF Excess
  <2> QED
    BY <1>1, <2>1, CountsKept
<1>6. AboutAsked'
  BY <1>1, <1>3 DEF AboutAsked
<1>7. UdpData' /\ Udp!TypeOK'
  BY <1>1, <1>2, <1>3, UdpTypes DEF UdpData, Udp!TypeOK
<1>8. Udp!InStep'
  BY <1>1 DEF Udp!InStep, Udp!TypeOK, UdpData, AboutAsked
<1>9. Results'
  <2>1. \A e \in Calculating : Explained(shown'[e])
    BY <1>1, <1>2 DEF Results, UdpData
  <2>2. \A l : Explained(l)' <=> Explained(l)
    BY DEF Explained
  <2> QED
    BY <1>1, <1>3, <2>1, <2>2 DEF Results
<1> QED
  BY <1>5, <1>6, <1>7, <1>8, <1>9

\* The server answers: what it sends is computed for this question, or for the
\* one before, and then this one is not computed.
LEMMA AnswerStep ==
  ASSUME UdpIInv, Udp!CalcAssumption, NEW d \in DOMAIN questions, Udp!Answer(d) PROVE UdpIInv'
<1> USE DEF UdpIInv
<1> DEFINE line == [q |-> d.q, result |-> cal_result', error |-> Udp!ErrorOf(d.q), source |-> source']
           x == [c |-> d.c, line |-> line]
<1>1. /\ cal_result' = IF Udp!Computed(d.q) THEN Udp!Value(d.q) ELSE cal_result
      /\ source' = IF Udp!Computed(d.q) THEN d.q ELSE source
      /\ questions' = Udp!BagRemove(questions, d) /\ answers' = Udp!BagAdd(answers, x)
      /\ UNCHANGED <<u_client, u_asked, shown, dead, dups, losses>>
  BY DEF Udp!Answer, Udp!Received, Udp!Replies, Udp!history
<1>2. d.c \in Calculating /\ d.q \in UdpQuestion
  BY DEF UdpData, Bag, Question
<1>3. cal_result' \in Udp!Int_ /\ source' \in UdpQuestion \cup {Udp!NoQuestion}
  BY <1>1, <1>2, ValueInt DEF Udp!TypeOK
<1>4. line \in Line
  BY <1>2, <1>3 DEF Line, Udp!ErrorOf
<1>5. Explained(line)
  <2>1. Udp!Computed(d.q) <=> Udp!Valid(d.q)
    BY DEF Udp!Computed, Udp!Valid
  <2>2. Udp!Valid(d.q) => ~Udp!ByZero(d.q)
    BY DEF Udp!Valid
  <2>3. /\ line.q = d.q /\ line.result = cal_result' /\ line.source = source'
        /\ line.error = IF Udp!ByZero(d.q) THEN 2 ELSE 0
    BY DEF Udp!ErrorOf
  <2> HIDE DEF line
  <2> QED
    BY <1>1, <2>1, <2>2, <2>3 DEF Explained, Results
<1>6. x \in Reply /\ x.c = d.c /\ x.line = line
  BY <1>2, <1>4 DEF Reply
<1>7. line.q = d.q
  OBVIOUS
<1> HIDE DEF x, line
<1>8. /\ Bag(questions', Question) /\ DOMAIN questions' \subseteq DOMAIN questions
      /\ Bag(answers', Reply) /\ \A a : a \in DOMAIN answers' <=> a \in DOMAIN answers \/ a = x
      /\ \A e \in Calculating :
           /\ Count(questions', e) = Count(questions, e) - For(d, e)
           /\ Count(answers', e) = Count(answers, e) + For(d, e)
  <2>1. Bag(questions, Question) /\ Bag(answers, Reply)
    BY DEF UdpData
  <2> HIDE DEF UdpIInv
  <2>2. /\ Bag(questions', Question) /\ DOMAIN questions' \subseteq DOMAIN questions
        /\ \A e \in Calculating : Count(questions', e) = Count(questions, e) - For(d, e)
    BY <1>1, <2>1, BagShrinks
  <2>3. /\ Bag(answers', Reply) /\ \A a : a \in DOMAIN answers' <=> a \in DOMAIN answers \/ a = x
        /\ \A e \in Calculating : Count(answers', e) = Count(answers, e) + For(d, e)
    <3>1. answers' = Udp!BagAdd(answers, x)
      BY <1>1
    <3>2. \A e : For(x, e) = For(d, e)
      BY <1>6 DEF For
    <3> QED
      BY <1>6, <2>1, <3>1, <3>2, BagGrows
  <2> QED
    BY <2>2, <2>3
<1>9. Balanced' /\ AtMost'
  <2> HIDE DEF UdpIInv
  <2>1. ASSUME NEW e \in Calculating
        PROVE  /\ {Count(questions', e), Count(answers', e), Excess(e)'} \subseteq Int
               /\ Excess(e)' - Excess(e)
                    = (Count(questions', e) - Count(questions, e)) + (Count(answers', e) - Count(answers, e))
    <3>1. Excess(e)' = Excess(e)
      BY <1>1 DEF Excess, Pending
    <3> QED
      BY <1>8, <3>1, CountsAreNumbers
  <2> QED
    BY <1>1, <2>1, CountsKept
<1>10. AboutAsked'
  BY <1>1, <1>6, <1>7, <1>8 DEF AboutAsked
<1>11. UdpData' /\ Udp!TypeOK'
  BY <1>1, <1>3, <1>8, UdpTypes DEF UdpData, Udp!TypeOK
<1>12. Udp!InStep'
  BY <1>1 DEF Udp!InStep
<1>13. Results'
  <2>1. source' # Udp!NoQuestion => Udp!Valid(source') /\ cal_result' = Udp!Value(source')
    <3>1. Udp!Computed(d.q) => Udp!Valid(d.q)
      BY DEF Udp!Computed, Udp!Valid
    <3> QED
      BY <1>1, <3>1 DEF Results
  <2>2. \A l : Explained(l)' <=> Explained(l)
    BY DEF Explained
  <2>3. Udp!Value(source)' = Udp!Value(source') /\ Udp!Valid(source)' = Udp!Valid(source')
    BY DEF Udp!Value, Udp!Valid
  <2> QED
    BY <1>1, <1>5, <1>6, <1>8, <2>1, <2>2, <2>3 DEF Results
<1> QED
  BY <1>9, <1>10, <1>11, <1>12, <1>13

\* The server has ended: the questions go, the answers it has sent stay.
LEMMA ClosedStep ==
  ASSUME UdpIInv, dead', questions' = Udp!EmptyBag,
         UNCHANGED <<u_client, u_asked, shown, answers, cal_result, source, dups, losses>>
  PROVE  UdpIInv'
<1> USE DEF UdpIInv
<1>1. /\ Bag(questions', Question) /\ DOMAIN questions' = {}
      /\ \A e \in Calculating : Count(questions', e) = 0
  <2> HIDE DEF UdpIInv
  <2> QED
    BY BagEmpty
<1>2. Balanced'
  BY DEF Balanced
<1>3. AtMost'
  <2> HIDE DEF UdpIInv
  <2>1. ASSUME NEW e \in Calculating
        PROVE  (Count(questions, e) + Count(answers, e))' <= (Pending(e) + dups[e] - losses[e])'
    <3>1. (Count(questions, e) + Count(answers, e))' = Count(questions', e) + Count(answers', e)
      BY DEF Count, Udp!Copies, Udp!BagToSet
    <3>2. Count(answers', e) = Count(answers, e)
      OBVIOUS
    <3>3. (Pending(e) + dups[e] - losses[e])' = Excess(e)
      BY DEF Excess, Pending
    <3> QED
      BY <1>1, <3>1, <3>2, <3>3, CountsAreNumbers
  <2> QED
    BY <2>1 DEF AtMost
<1>4. AboutAsked' /\ Udp!InStep'
  BY <1>1 DEF AboutAsked, Udp!InStep
<1>5. UdpData' /\ Udp!TypeOK'
  <2>1. Bag(answers', Reply)
    BY DEF UdpData
  <2> QED
    BY <1>1, <2>1, UdpTypes DEF UdpData, Udp!TypeOK
<1>6. Results'
  BY DEF Results, Explained
<1> QED
  BY <1>2, <1>3, <1>4, <1>5, <1>6

\* The network loses a datagram: of the two bags it can only be in one.
LEMMA LoseStep == ASSUME UdpIInv, Udp!Lose PROVE UdpIInv'
<1> USE DEF UdpIInv
<1>1. PICK d \in DOMAIN questions \cup DOMAIN answers :
        /\ questions' = Udp!BagRemove(questions, d) /\ answers' = Udp!BagRemove(answers, d)
        /\ losses' = [losses EXCEPT ![d.c] = @ + 1]
        /\ UNCHANGED <<u_client, u_asked, shown, cal_result, source, dead, dups>>
  BY DEF Udp!Lose, Udp!BagToSet
<1>2. /\ Bag(questions, Question) /\ Bag(answers, Reply)
      /\ DOMAIN questions \subseteq Question /\ DOMAIN answers \subseteq Reply
      /\ losses \in [Calculating -> Nat]
  BY DEF UdpData, Bag
<1>3. d.c \in Calculating
  BY <1>2 DEF Question, Reply
<1>4. /\ Bag(questions', Question) /\ DOMAIN questions' \subseteq DOMAIN questions
      /\ Bag(answers', Reply) /\ DOMAIN answers' \subseteq DOMAIN answers
      /\ \A e \in Calculating :
           /\ Count(questions', e) \in Nat /\ Count(answers', e) \in Nat
           /\ Count(questions', e) + Count(answers', e)
                = Count(questions, e) + Count(answers, e) - For(d, e)
  <2>1. CASE d \in DOMAIN questions
    <3>1. answers' = answers
      BY <1>1, <1>2, <2>1, Apart DEF Udp!BagRemove
    <3> HIDE DEF UdpIInv
    <3>2. /\ Bag(questions', Question) /\ DOMAIN questions' \subseteq DOMAIN questions
          /\ \A e \in Calculating :
               /\ Count(questions', e) \in Nat
               /\ Count(questions', e) = Count(questions, e) - For(d, e)
      BY <1>1, <1>2, <2>1, BagShrinks
    <3> QED
      BY <1>2, <3>1, <3>2, CountsAreNumbers
  <2>2. CASE d \in DOMAIN answers
    <3>1. questions' = questions
      BY <1>1, <1>2, <2>2, Apart DEF Udp!BagRemove
    <3> HIDE DEF UdpIInv
    <3>2. /\ Bag(answers', Reply) /\ DOMAIN answers' \subseteq DOMAIN answers
          /\ \A e \in Calculating :
               /\ Count(answers', e) \in Nat
               /\ Count(answers', e) = Count(answers, e) - For(d, e)
      BY <1>1, <1>2, <2>2, BagShrinks
    <3> QED
      BY <1>2, <3>1, <3>2, CountsAreNumbers
  <2> QED
    BY <1>1, <2>1, <2>2
<1>5. Balanced' /\ AtMost'
  <2> HIDE DEF UdpIInv
  <2>1. ASSUME NEW e \in Calculating
        PROVE  /\ {Count(questions', e), Count(answers', e), Excess(e)'} \subseteq Int
               /\ Excess(e)' - Excess(e)
                    = (Count(questions', e) - Count(questions, e)) + (Count(answers', e) - Count(answers, e))
    <3>1. losses'[e] = losses[e] + For(d, e)
      BY <1>1, <1>2, <1>3 DEF For
    <3>2. Pending(e)' = Pending(e) /\ dups'[e] = dups[e]
      BY <1>1 DEF Pending
    <3> QED
      BY <1>4, <3>1, <3>2, CountsAreNumbers DEF Excess
  <2> QED
    BY <1>1, <2>1, CountsKept
<1>6. AboutAsked' /\ Udp!InStep'
  <2>1. /\ DOMAIN questions' \subseteq DOMAIN questions /\ DOMAIN answers' \subseteq DOMAIN answers
        /\ UNCHANGED <<u_client, u_asked, shown, dups>>
    BY <1>1, <1>4
  <2>2. AboutAsked'
    BY <2>1 DEF AboutAsked
  <2>3. Udp!InStep'
    BY <2>1 DEF Udp!InStep
  <2> QED
    BY <2>2, <2>3
<1>7. UdpData' /\ Udp!TypeOK'
  <2>1. losses' \in [Calculating -> Nat]
    <3> DEFINE whose == d.c
    <3>1. losses' = [losses EXCEPT ![whose] = @ + 1] /\ losses \in [Calculating -> Nat]
      BY <1>1, <1>2
    <3>2. whose \in Calculating
      BY <1>3
    <3> HIDE DEF UdpIInv, whose
    <3> QED
      BY <3>1, <3>2
  <2> QED
    BY <1>1, <1>4, <2>1, UdpTypes DEF UdpData, Udp!TypeOK
<1>8. Results'
  BY <1>1, <1>4 DEF Results, Explained
<1> QED
  BY <1>5, <1>6, <1>7, <1>8

\* The network doubles a datagram: from now on its client may be out of step.
LEMMA DuplicateStep == ASSUME UdpIInv, Udp!Duplicate PROVE UdpIInv'
<1> USE DEF UdpIInv
<1>1. PICK d \in DOMAIN questions \cup DOMAIN answers :
        /\ \/ d \in DOMAIN questions /\ questions' = Udp!BagAdd(questions, d) /\ answers' = answers
           \/ d \in DOMAIN answers /\ answers' = Udp!BagAdd(answers, d) /\ questions' = questions
        /\ dups' = [dups EXCEPT ![d.c] = @ + 1]
        /\ UNCHANGED <<u_client, u_asked, shown, cal_result, source, dead, losses>>
  BY DEF Udp!Duplicate, Udp!BagToSet
<1>2. /\ Bag(questions, Question) /\ Bag(answers, Reply)
      /\ DOMAIN questions \subseteq Question /\ DOMAIN answers \subseteq Reply
      /\ dups \in [Calculating -> Nat]
  BY DEF UdpData, Bag
<1>3. d.c \in Calculating
  BY <1>2 DEF Question, Reply
<1>4. /\ Bag(questions', Question) /\ DOMAIN questions' = DOMAIN questions
      /\ Bag(answers', Reply) /\ DOMAIN answers' = DOMAIN answers
      /\ \A e \in Calculating :
           /\ Count(questions', e) \in Nat /\ Count(answers', e) \in Nat
           /\ Count(questions', e) + Count(answers', e)
                = Count(questions, e) + Count(answers, e) + For(d, e)
  <2>1. CASE d \in DOMAIN questions /\ questions' = Udp!BagAdd(questions, d) /\ answers' = answers
    <3> HIDE DEF UdpIInv
    <3>1. d \in Question
      BY <1>2, <2>1
    <3>2. /\ Bag(questions', Question) /\ \A y : y \in DOMAIN questions' <=> y \in DOMAIN questions \/ y = d
          /\ \A e \in Calculating :
               /\ Count(questions', e) \in Nat
               /\ Count(questions', e) = Count(questions, e) + For(d, e)
      BY <1>2, <2>1, <3>1, BagGrows
    <3>3. DOMAIN questions' = DOMAIN questions
      BY <2>1, <3>2
    <3> QED
      BY <1>2, <2>1, <3>2, <3>3, CountsAreNumbers
  <2>2. CASE d \in DOMAIN answers /\ answers' = Udp!BagAdd(answers, d) /\ questions' = questions
    <3> HIDE DEF UdpIInv
    <3>1. d \in Reply
      BY <1>2, <2>2
    <3>2. /\ Bag(answers', Reply) /\ \A y : y \in DOMAIN answers' <=> y \in DOMAIN answers \/ y = d
          /\ \A e \in Calculating :
               /\ Count(answers', e) \in Nat
               /\ Count(answers', e) = Count(answers, e) + For(d, e)
      BY <1>2, <2>2, <3>1, BagGrows
    <3>3. DOMAIN answers' = DOMAIN answers
      BY <2>2, <3>2
    <3> QED
      BY <1>2, <2>2, <3>2, <3>3, CountsAreNumbers
  <2> QED
    BY <1>1, <2>1, <2>2
<1>5. \A e \in Calculating : dups'[e] = dups[e] + For(d, e)
  BY <1>1, <1>2, <1>3 DEF For
<1>6. Balanced' /\ AtMost'
  <2> HIDE DEF UdpIInv
  <2>1. ASSUME NEW e \in Calculating
        PROVE  /\ {Count(questions', e), Count(answers', e), Excess(e)'} \subseteq Int
               /\ Excess(e)' - Excess(e)
                    = (Count(questions', e) - Count(questions, e)) + (Count(answers', e) - Count(answers, e))
    <3>1. Pending(e)' = Pending(e) /\ losses'[e] = losses[e]
      BY <1>1 DEF Pending
    <3> QED
      BY <1>4, <1>5, <3>1, CountsAreNumbers DEF Excess
  <2> QED
    BY <1>1, <2>1, CountsKept
<1>7. AboutAsked' /\ Udp!InStep'
  <2>1. \A e \in Calculating : dups'[e] = 0 => dups[e] = 0
    BY <1>2, <1>5, CountsAreNumbers
  <2>2. /\ DOMAIN questions' = DOMAIN questions /\ DOMAIN answers' = DOMAIN answers
        /\ UNCHANGED <<u_client, u_asked, shown>>
    BY <1>1, <1>4
  <2>3. AboutAsked'
    BY <2>1, <2>2 DEF AboutAsked
  <2>4. Udp!InStep'
    BY <2>1, <2>2 DEF Udp!InStep
  <2> QED
    BY <2>3, <2>4
<1>8. UdpData' /\ Udp!TypeOK'
  <2>1. dups' \in [Calculating -> Nat]
    <3> DEFINE whose == d.c
    <3>1. dups' = [dups EXCEPT ![whose] = @ + 1] /\ dups \in [Calculating -> Nat]
      BY <1>1, <1>2
    <3>2. whose \in Calculating
      BY <1>3
    <3> HIDE DEF UdpIInv, whose
    <3> QED
      BY <3>1, <3>2
  <2> QED
    BY <1>1, <1>4, <2>1, UdpTypes DEF UdpData, Udp!TypeOK
<1>9. Results'
  BY <1>1, <1>4 DEF Results, Explained
<1> QED
  BY <1>6, <1>7, <1>8, <1>9

LEMMA UdpNextIInv == ASSUME Udp!CalcAssumption, UdpIInv, [Udp!Next]_u_vars PROVE UdpIInv'
<1>1. CASE Udp!Lose
  BY <1>1, LoseStep
<1>2. CASE Udp!Duplicate
  BY <1>2, DuplicateStep
<1>3. CASE Udp!Refused
  BY <1>3, ClosedStep DEF Udp!Refused, Udp!history
<1>4. ASSUME NEW c \in Calculating, Udp!Ask(c) PROVE UdpIInv'
  BY <1>4, AskStep
<1>5. ASSUME NEW c \in Calculating, Udp!Show(c) PROVE UdpIInv'
  BY <1>5, ShowStep
<1>6. ASSUME NEW c \in Calculating, Udp!Serve(c) PROVE UdpIInv'
  <2>1. PICK d \in DOMAIN questions : Udp!Answer(d) \/ Udp!Trap(d)
    BY <1>6 DEF Udp!Serve, Udp!BagToSet
  <2>2. CASE Udp!Answer(d)
    BY <2>2, AnswerStep
  <2>3. CASE Udp!Trap(d)
    BY <2>3, ClosedStep DEF Udp!Trap, Udp!history
  <2> QED
    BY <2>1, <2>2, <2>3
<1>7. CASE UNCHANGED u_vars
  BY <1>7 DEF u_vars, UdpIInv, Udp!TypeOK, UdpData, Bag, Question, Reply, Line, Balanced, AtMost, Pending,
       Count, Udp!Copies, Udp!BagToSet, Udp!InStep, AboutAsked, Results, Explained, Udp!IsABag
<1> QED
  BY <1>1, <1>2, <1>3, <1>4, <1>5, <1>6, <1>7 DEF Udp!Next

\* Who has lost more than was doubled has nothing on its way.
LEMMA NothingComes ==
  ASSUME UdpIInv, NEW c \in Calculating, losses[c] > dups[c], u_client[c] = "waiting" PROVE ~Udp!Show(c)
<1>1. Count(answers, c) <= 0
  BY CountsAreNumbers DEF Excess, Pending
<1>2. ASSUME Udp!Show(c) PROVE FALSE
  <2>1. PICK a \in DOMAIN answers : a.c = c
    BY <1>2 DEF Udp!Show, Udp!BagToSet
  <2>2. Count(answers, c) > 0
    BY <2>1, BagCounts DEF UdpIInv, UdpData
  <2> QED
    BY <1>1, <2>2, CountsAreNumbers
<1> QED
  BY <1>2

LEMMA UdpStaysLost ==
  ASSUME UdpIInv, [Udp!Next]_u_vars
  PROVE  \A c \in Calculating :
           losses[c] > dups[c] /\ u_client[c] = "waiting" => u_client'[c] = "waiting"
<1> SUFFICES ASSUME NEW c \in Calculating, losses[c] > dups[c], u_client[c] = "waiting"
             PROVE  u_client'[c] = "waiting"
  OBVIOUS
<1>1. ~Udp!Show(c)
  BY NothingComes
<1>2. u_client \in [Calculating -> {"typing", "waiting"}]
  BY DEF UdpIInv, Udp!TypeOK
<1>3. ASSUME NEW e \in Calculating, Udp!Ask(e) \/ Udp!Show(e) PROVE u_client'[c] = "waiting"
  BY <1>1, <1>2, <1>3 DEF Udp!Ask, Udp!Show
<1>4. ASSUME Udp!Lose \/ Udp!Duplicate \/ Udp!Refused \/ (\E e \in Calculating : Udp!Serve(e)) \/ UNCHANGED u_vars
      PROVE  u_client' = u_client
  BY <1>4 DEF Udp!Lose, Udp!Duplicate, Udp!Refused, Udp!Serve, Udp!Answer, Udp!Trap, u_vars
<1> QED
  BY <1>3, <1>4 DEF Udp!Next

-----------------------------------------------------------------------------
(* The TCP calculator. *)

\* Quotient and remainder by d, also of a negative number ...
LEMMA Quotient ==
  ASSUME NEW d \in Nat \ {0}, NEW n \in Int
  PROVE  n \div d \in Int /\ n % d \in 0 .. d - 1 /\ n = d * (n \div d) + (n % d)
BY SMT

\* ... are the only ones.
LEMMA QuotientUnique ==
  ASSUME NEW d \in Nat \ {0}, NEW q \in Int, NEW r \in 0 .. d - 1
  PROVE  (d * q + r) \div d = q /\ (d * q + r) % d = r
BY SMT

LEMMA ProductMonotone ==
  ASSUME NEW x \in Nat, NEW y \in Int, NEW z \in Int, y <= z PROVE x * y <= x * z
BY SMT

\* A digit below a place, and what is below it, stay below the place.
LEMMA DigitBelow ==
  ASSUME NEW b \in Nat \ {0}, NEW w \in Nat \ {0}, NEW k \in 0 .. b - 1, NEW l \in 0 .. w - 1
  PROVE  w * k + l \in 0 .. w * b - 1
<1>1. w * k <= w * (b - 1) /\ w * 0 <= w * k
  BY ProductMonotone
<1>2. w * (b - 1) = w * b - w /\ w * 0 = 0 /\ w * k \in Int /\ w * b \in Int
  OBVIOUS
<1> QED
  BY <1>1, <1>2

\* Place values: a quotient by the product of two places is taken in two steps.
LEMMA QuotientTwice ==
  ASSUME NEW b \in Nat \ {0}, NEW w \in Nat \ {0}, NEW n \in Int
  PROVE  n \div (w * b) = (n \div w) \div b
<1> DEFINE m == n \div w
           l == n % w
           q == m \div b
           k == m % b
<1>1. m \in Int /\ l \in 0 .. w - 1 /\ n = w * m + l
  BY Quotient
<1>2. q \in Int /\ k \in 0 .. b - 1 /\ m = b * q + k
  BY <1>1, Quotient
<1> HIDE DEF m, l, q, k
<1>3. w * k + l \in 0 .. w * b - 1
  BY <1>1, <1>2, DigitBelow
<1>4. n = (w * b) * q + (w * k + l)
  <2>1. w * (b * q + k) = (w * b) * q + w * k
    BY <1>2
  <2>2. w * (b * q + k) \in Int /\ w * k \in Int /\ (w * b) * q \in Int
    BY <1>2
  <2> QED
    BY <1>1, <1>2, <2>1, <2>2
<1>5. w * b \in Nat \ {0}
  BY <1>3
<1>6. n \div (w * b) = q
  BY <1>2, <1>3, <1>4, <1>5, QuotientUnique
<1> QED
  BY <1>6 DEF q, m

\* The places of an int.
LEMMA Places ==
  ASSUME Tcp!TcpCalcAssumption
  PROVE  /\ Base \in Nat \ {0, 1} /\ Tcp!Word \in Nat \ {0} /\ Tcp!Word = Base * Base
         /\ Tcp!Word * Base \in Nat \ {0}
         /\ Tcp!Weight[1] = 1 /\ Tcp!Weight[2] = Base /\ Tcp!Weight[3] = Tcp!Word
         /\ Tcp!Weight[4] = Tcp!Word * Base
<1>1. Base \in Nat /\ Base >= 2
  BY DEF Tcp!TcpCalcAssumption
<1>2. Base * Base >= Base * 1 /\ Base * Base \in Nat
  BY <1>1, ProductMonotone
<1>3. Tcp!Word \in Nat \ {0} /\ Tcp!Word = Base * Base
  BY <1>1, <1>2 DEF Tcp!Word
<1>4. Tcp!Word * Base >= Tcp!Word * 1 /\ Tcp!Word * Base \in Nat
  BY <1>1, <1>3, ProductMonotone
<1> QED
  BY <1>1, <1>3, <1>4 DEF Tcp!Weight

\* A byte is one, and so are its half an int and its int.
LEMMA BytesAre ==
  ASSUME Tcp!TcpCalcAssumption, NEW n \in Int
  PROVE  /\ Tcp!Byte(n, 1) = n % Base /\ Tcp!Byte(n, 2) = (n \div Base) % Base
         /\ Tcp!Byte(n, 3) = (n \div Tcp!Word) % Base
         /\ Tcp!Byte(n, 4) = ((n \div Tcp!Word) \div Base) % Base
         /\ \A k \in 1..4 : Tcp!Byte(n, k) \in 0 .. Base - 1
<1>1. n \div 1 = n
  OBVIOUS
<1>2. n \div (Tcp!Word * Base) = (n \div Tcp!Word) \div Base
  BY Places, QuotientTwice
<1>3. /\ Tcp!Byte(n, 1) = n % Base /\ Tcp!Byte(n, 2) = (n \div Base) % Base
      /\ Tcp!Byte(n, 3) = (n \div Tcp!Word) % Base
      /\ Tcp!Byte(n, 4) = ((n \div Tcp!Word) \div Base) % Base
  BY <1>1, <1>2, Places DEF Tcp!Byte
<1>4. n \div Base \in Int /\ n \div Tcp!Word \in Int /\ (n \div Tcp!Word) \div Base \in Int
  BY Places, Quotient
<1>5. ASSUME NEW m \in Int PROVE m % Base \in 0 .. Base - 1
  BY Places, Quotient
<1>6. /\ Tcp!Byte(n, 1) \in 0 .. Base - 1 /\ Tcp!Byte(n, 2) \in 0 .. Base - 1
      /\ Tcp!Byte(n, 3) \in 0 .. Base - 1 /\ Tcp!Byte(n, 4) \in 0 .. Base - 1
  BY <1>3, <1>4, <1>5
<1> QED
  BY <1>3, <1>6

LEMMA ntohsType ==
  ASSUME Tcp!TcpCalcAssumption, NEW n \in Int PROVE Tcp!ntohs(n) \in Nat
<1>1. Tcp!Byte(n, 1) \in Nat /\ Tcp!Byte(n, 2) \in Nat
  BY BytesAre
<1> QED
  BY <1>1, Places DEF Tcp!ntohs

\* The two low bytes of an int turned round are its two high ones.
LEMMA LowOfTurned ==
  ASSUME Tcp!TcpCalcAssumption, NEW n \in Int
  PROVE  Tcp!htonl(n) \in Int /\ Tcp!ntohs(Tcp!htonl(n)) = Tcp!Byte(n, 4) * Base + Tcp!Byte(n, 3)
<1> DEFINE b1 == Tcp!Byte(n, 1)
           b2 == Tcp!Byte(n, 2)
           b3 == Tcp!Byte(n, 3)
           b4 == Tcp!Byte(n, 4)
           w == Tcp!Word
           h == Tcp!htonl(n)
           g == b1 * w + b2 * Base
<1>1. b1 \in Nat /\ b2 \in Nat /\ b3 \in 0 .. Base - 1 /\ b4 \in 0 .. Base - 1
  BY BytesAre
<1>2. w \in Nat /\ Base \in Nat \ {0} /\ w = Base * Base
  BY Places
<1>3. h = b1 * (w * Base) + b2 * w + b3 * Base + b4
  BY Places DEF Tcp!htonl
<1> HIDE DEF b1, b2, b3, b4, w, h
<1>4. g + b3 \in Int /\ h = Base * (g + b3) + b4 /\ g + b3 = Base * (b1 * Base + b2) + b3
  <2>1. /\ b1 * (w * Base) = Base * (b1 * w) /\ b2 * w = Base * (b2 * Base) /\ b3 * Base = Base * b3
        /\ b1 * w = Base * (b1 * Base) /\ b2 * Base = Base * b2
    BY <1>1, <1>2
  <2>2. b1 * w \in Nat /\ b2 * Base \in Nat /\ b1 * Base \in Nat
    BY <1>1, <1>2
  <2>3. Base * (g + b3) = Base * (b1 * w) + Base * (b2 * Base) + Base * b3
    BY <1>1, <1>2, <2>2
  <2>4. Base * (b1 * Base + b2) = Base * (b1 * Base) + Base * b2
    BY <1>1, <1>2, <2>2
  <2> QED
    BY <1>1, <1>2, <1>3, <2>1, <2>2, <2>3, <2>4
<1>5. b1 * Base + b2 \in Int
  BY <1>1, <1>2
<1>6. h \in Int /\ h % Base = b4 /\ h \div Base = g + b3
  BY <1>1, <1>2, <1>4, QuotientUnique
<1>7. (g + b3) % Base = b3
  BY <1>1, <1>2, <1>4, <1>5, QuotientUnique
<1>8. Tcp!Byte(h, 1) = b4 /\ Tcp!Byte(h, 2) = b3
  BY <1>6, <1>7, BytesAre
<1> QED
  BY <1>6, <1>8 DEF Tcp!ntohs, h, b3, b4

\* The two high bytes are the upper half.
LEMMA HighBytes ==
  ASSUME Tcp!TcpCalcAssumption, NEW n \in Int
  PROVE  Tcp!Upper(n) = Tcp!Byte(n, 4) * Base + Tcp!Byte(n, 3)
<1> DEFINE w == Tcp!Word
           m == n \div w
           l == n % w
           q == m \div Base
           b3 == m % Base
           p == q \div Base
           b4 == q % Base
<1>1. w \in Nat \ {0} /\ Base \in Nat \ {0} /\ w = Base * Base
  BY Places
<1>2. m \in Int /\ l \in 0 .. w - 1 /\ n = w * m + l
  BY <1>1, Quotient
<1>3. q \in Int /\ b3 \in 0 .. Base - 1 /\ m = Base * q + b3
  BY <1>1, <1>2, Quotient
<1>4. p \in Int /\ b4 \in 0 .. Base - 1 /\ q = Base * p + b4
  BY <1>1, <1>3, Quotient
<1>5. Tcp!Byte(n, 3) = b3 /\ Tcp!Byte(n, 4) = b4
  BY BytesAre
<1> HIDE DEF w, m, l, q, b3, p, b4
<1> DEFINE u == Base * b4 + b3
<1>6. u \in 0 .. w - 1
  BY <1>1, <1>3, <1>4, DigitBelow
<1>7. m = w * p + u
  <2>1. Base * (Base * p + b4) = (Base * Base) * p + Base * b4
    BY <1>1, <1>4
  <2>2. (Base * Base) * p \in Int /\ Base * b4 \in Int
    BY <1>1, <1>4
  <2> QED
    BY <1>1, <1>3, <1>4, <2>1, <2>2
<1> HIDE DEF u
<1>8. w * u + l \in 0 .. w * w - 1
  BY <1>1, <1>2, <1>6, DigitBelow
<1>9. n = (w * w) * p + (w * u + l)
  <2>1. w * (w * p + u) = (w * w) * p + w * u
    BY <1>1, <1>4, <1>6
  <2>2. (w * w) * p \in Int /\ w * u \in Int
    BY <1>1, <1>4, <1>6
  <2> QED
    BY <1>2, <1>7, <2>1, <2>2
<1>10. w * w \in Nat \ {0}
  <2>1. w * w >= w * 1 /\ w * w \in Nat /\ w * 1 = w
    BY <1>1, ProductMonotone
  <2> QED
    BY <1>1, <2>1
<1>11. n % (w * w) = w * u + l
  BY <1>4, <1>8, <1>9, <1>10, QuotientUnique
<1>12. (w * u + l) \div w = u
  BY <1>1, <1>2, <1>6, QuotientUnique
<1>13. Tcp!Upper(n) = u
  BY <1>11, <1>12 DEF Tcp!Upper, w
<1> QED
  BY <1>1, <1>3, <1>4, <1>5, <1>13 DEF u

\* Mixing htonl with ntohs, as clients and server do, leaves the upper half of an
\* int as the number that is computed with.
THEOREM Mixed ==
  ASSUME Tcp!TcpCalcAssumption, NEW n \in Int
  PROVE  Tcp!htonl(n) \in Int /\ Tcp!ntohs(Tcp!htonl(n)) = Tcp!Upper(n)
BY LowOfTurned, HighBytes

\* What clients ask, and what the struct holds.
LEMMA OperandsAre ==
  ASSUME Tcp!TcpCalcAssumption, NEW q \in TcpRequest PROVE q[1] \in Int /\ q[2] \in Int
<1> DEFINE half == (Tcp!Word * Tcp!Word) \div 2
<1>1. Tcp!Word * Tcp!Word \in Int
  BY Places
<1>2. half \in Int
  BY <1>1, Quotient
<1>3. {q[1], q[2]} \subseteq -half .. half - 1
  BY DEF Tcp!TcpCalcAssumption
<1> HIDE DEF half
<1> QED
  BY <1>2, <1>3

Op == {q[3] : q \in TcpRequest}
Told == [asked : TcpRequest, read : 0..3, data : [1..3 -> Int \cup Op], result : Int]

TcpIInv ==
  /\ rdata[1] \in Int /\ rdata[2] \in Int /\ rdata[3] \in Op /\ t_cal_result \in Int
  /\ t_served \in Seq(Told)
  /\ Len(t_served) > 0 =>
       t_served[Len(t_served)].result = t_cal_result /\ t_served[Len(t_served)].data = rdata
  /\ Tcp!Inv

LEMMA TcpInit == ASSUME Tcp!TcpCalcAssumption, Tcp!Init PROVE TcpIInv
<1>1. PICK q \in TcpRequest : rdata = Tcp!Struct(q)
  BY DEF Tcp!Init
<1>2. rdata[1] = Tcp!htonl(q[1]) /\ rdata[2] = Tcp!htonl(q[2]) /\ rdata[3] = q[3]
  BY <1>1 DEF Tcp!Struct
<1>3. rdata[1] \in Int /\ rdata[2] \in Int /\ rdata[3] \in Op
  BY <1>2, OperandsAre, Mixed DEF Op
<1>4. t_served = <<>> /\ t_cal_result \in Int /\ t_served \in Seq(Told) /\ Len(t_served) = 0
  BY DEF Tcp!Init
<1>5. Tcp!Inv
  BY <1>4 DEF Tcp!Inv, Tcp!UpperHalves, Tcp!FromThoseBefore
<1> QED
  BY <1>3, <1>4, <1>5 DEF TcpIInv

LEMMA ShortIs ==
  ASSUME Tcp!TcpCalcAssumption, NEW v \in Int PROVE Tcp!Short(v) \in Int
<1> DEFINE h == Tcp!Word \div 2
<1>1. Tcp!Word \in Nat \ {0} /\ h \in Int
  BY Places, Quotient
<1> HIDE DEF h
<1>2. (v + h) % Tcp!Word \in Int
  BY <1>1, Quotient
<1>3. Tcp!Short(v) = ((v + h) % Tcp!Word) - h
  BY DEF Tcp!Short, h
<1> QED
  BY <1>1, <1>2, <1>3

\* A short is an int, whatever is computed.
LEMMA ValueIs ==
  ASSUME Tcp!TcpCalcAssumption, NEW l \in Nat, NEW r \in Nat, NEW op, Tcp!Computes(l, op, r)
  PROVE  Tcp!Short(Tcp!Value(l, op, r)) \in Int
<1>1. CASE op \in {"+", "-", "*"}
  <2>1. l + r \in Int /\ l - r \in Int /\ l * r \in Int
    OBVIOUS
  <2>2. Tcp!Value(l, op, r) \in {l + r, l - r, l * r}
    BY <1>1 DEF Tcp!Value
  <2>3. Tcp!Value(l, op, r) \in Int
    BY <2>1, <2>2
  <2> QED
    BY <2>3, ShortIs
<1>2. CASE op = "/" /\ r # 0
  <2>1. Tcp!Value(l, op, r) = l \div r
    BY <1>2 DEF Tcp!Value
  <2>2. Tcp!Value(l, op, r) \in Int
    BY <1>2, <2>1, Quotient
  <2> QED
    BY <2>2, ShortIs
<1> QED
  BY <1>1, <1>2 DEF Tcp!Computes

LEMMA TcpServe ==
  ASSUME Tcp!TcpCalcAssumption, TcpIInv, NEW q \in TcpRequest, NEW n \in 0..3, Tcp!Serve(q, n)
  PROVE  TcpIInv'
<1> DEFINE l == Tcp!ntohs(rdata'[1])
           r == Tcp!ntohs(rdata'[2])
           op == rdata'[3]
           s == [asked |-> q, read |-> n, data |-> rdata', result |-> t_cal_result']
<1>1. rdata' = [k \in 1..3 |-> IF k <= n THEN Tcp!Struct(q)[k] ELSE rdata[k]]
  BY DEF Tcp!Serve, Tcp!Received
<1>2. t_cal_result' = IF Tcp!Computes(l, op, r) THEN Tcp!Short(Tcp!Value(l, op, r)) ELSE t_cal_result
  BY DEF Tcp!Serve
<1>3. t_served' = Append(t_served, s)
  BY DEF Tcp!Serve
<1>4. /\ Tcp!Struct(q)[1] = Tcp!htonl(q[1]) /\ Tcp!Struct(q)[2] = Tcp!htonl(q[2]) /\ Tcp!Struct(q)[3] = q[3]
      /\ Tcp!Struct(q)[1] \in Int /\ Tcp!Struct(q)[2] \in Int /\ Tcp!Struct(q)[3] \in Op
  BY OperandsAre, Mixed DEF Tcp!Struct, Op
<1>5. rdata'[1] \in Int /\ rdata'[2] \in Int /\ rdata'[3] \in Op /\ rdata' \in [1..3 -> Int \cup Op]
  <2>1. rdata[1] \in Int /\ rdata[2] \in Int /\ rdata[3] \in Op
    BY DEF TcpIInv
  <2>2. rdata'[1] \in Int /\ rdata'[2] \in Int /\ rdata'[3] \in Op
    BY <1>1, <1>4, <2>1
  <2>3. rdata' = [k \in 1..3 |-> rdata'[k]] /\ \A k \in 1..3 : k = 1 \/ k = 2 \/ k = 3
    BY <1>1
  <2>4. \A k \in 1..3 : rdata'[k] \in Int \cup Op
    BY <2>2, <2>3
  <2> QED
    BY <2>2, <2>3, <2>4
<1>6. l \in Nat /\ r \in Nat
  BY <1>5, ntohsType
<1> HIDE DEF l, r, op
<1>7. t_cal_result' \in Int
  BY <1>2, <1>6, ValueIs DEF TcpIInv
<1>8. s \in Told
  BY <1>5, <1>7 DEF Told
<1>9. s.asked = q /\ s.read = n /\ s.data = rdata' /\ s.result = t_cal_result'
  OBVIOUS
<1> HIDE DEF s
<1>10. t_served \in Seq(Told) /\ Len(t_served) \in Nat
  BY DEF TcpIInv
<1>11. /\ t_served' \in Seq(Told) /\ Len(t_served') = Len(t_served) + 1
       /\ t_served'[Len(t_served) + 1] = s /\ \A k \in 1..Len(t_served) : t_served'[k] = t_served[k]
  BY <1>3, <1>8, <1>10
<1>12. n = 3 => l = Tcp!UpperQuestion(q)[1] /\ op = Tcp!UpperQuestion(q)[2] /\ r = Tcp!UpperQuestion(q)[3]
  <2>1. ASSUME n = 3
        PROVE  rdata'[1] = Tcp!htonl(q[1]) /\ rdata'[2] = Tcp!htonl(q[2]) /\ rdata'[3] = q[3]
    BY <1>1, <1>4, <2>1
  <2>2. Tcp!ntohs(Tcp!htonl(q[1])) = Tcp!Upper(q[1]) /\ Tcp!ntohs(Tcp!htonl(q[2])) = Tcp!Upper(q[2])
    BY OperandsAre, Mixed
  <2> QED
    BY <2>1, <2>2 DEF Tcp!UpperQuestion, l, r, op
<1>13. n = 3 => (Tcp!Answerable(q) <=> Tcp!Computes(l, op, r))
  BY <1>12 DEF Tcp!Answerable
<1>14. n = 3 /\ Tcp!Answerable(q) => s.result = Tcp!UpperResult(q)
  BY <1>2, <1>9, <1>12, <1>13 DEF Tcp!UpperResult
<1>15. Tcp!UpperHalves'
  <2>1. ASSUME NEW k \in 1..Len(t_served'), t_served'[k].read = 3, Tcp!Answerable(t_served'[k].asked)
        PROVE  t_served'[k].result = Tcp!UpperResult(t_served'[k].asked)
    <3>1. CASE k = Len(t_served) + 1
      BY <1>9, <1>11, <1>14, <2>1, <3>1
    <3>2. CASE k \in 1..Len(t_served)
      <4>1. t_served'[k] = t_served[k] /\ k \in DOMAIN t_served
        BY <1>10, <1>11, <3>2
      <4> QED
        BY <2>1, <4>1 DEF TcpIInv, Tcp!Inv, Tcp!UpperHalves
    <3> QED
      BY <1>10, <1>11, <3>1, <3>2
  <2>2. DOMAIN t_served' = 1..Len(t_served')
    BY <1>11
  <2> QED
    BY <2>1, <2>2 DEF Tcp!UpperHalves
<1>16. Tcp!FromThoseBefore'
  <2>1. ASSUME NEW k \in 2..Len(t_served')
        PROVE  /\ t_served'[k].read = 3 /\ ~Tcp!Answerable(t_served'[k].asked)
                    => t_served'[k].result = t_served'[k - 1].result
               /\ \A m \in t_served'[k].read + 1 .. 3 : t_served'[k].data[m] = t_served'[k - 1].data[m]
    <3>1. CASE k = Len(t_served) + 1
      <4>1. /\ t_served'[k] = s /\ t_served'[k - 1] = t_served[Len(t_served)]
            /\ t_served[Len(t_served)].result = t_cal_result /\ t_served[Len(t_served)].data = rdata
        BY <1>10, <1>11, <3>1 DEF TcpIInv
      <4>2. n = 3 /\ ~Tcp!Answerable(q) => t_cal_result' = t_cal_result
        BY <1>2, <1>13
      <4>3. \A m \in n + 1 .. 3 : rdata'[m] = rdata[m]
        BY <1>1
      <4> QED
        BY <1>9, <4>1, <4>2, <4>3
    <3>2. CASE k \in 2..Len(t_served)
      <4>1. t_served'[k] = t_served[k] /\ t_served'[k - 1] = t_served[k - 1]
        BY <1>10, <1>11, <3>2
      <4> QED
        BY <3>2, <4>1 DEF TcpIInv, Tcp!Inv, Tcp!FromThoseBefore
    <3> QED
      BY <1>10, <1>11, <3>1, <3>2
  <2> QED
    BY <2>1 DEF Tcp!FromThoseBefore
<1>17. t_served'[Len(t_served')].result = t_cal_result' /\ t_served'[Len(t_served')].data = rdata'
  BY <1>9, <1>11
<1> QED
  BY <1>5, <1>7, <1>11, <1>15, <1>16, <1>17 DEF TcpIInv, Tcp!Inv, Told, Op

LEMMA TcpStutter == ASSUME TcpIInv, UNCHANGED t_vars PROVE TcpIInv'
<1>1. UNCHANGED <<rdata, t_cal_result, t_served>>
  BY DEF t_vars
<1>2. Tcp!UpperHalves'
  BY <1>1 DEF TcpIInv, Tcp!Inv, Tcp!UpperHalves
<1>3. Tcp!FromThoseBefore'
  BY <1>1 DEF TcpIInv, Tcp!Inv, Tcp!FromThoseBefore
<1> QED
  BY <1>1, <1>2, <1>3 DEF TcpIInv, Tcp!Inv, Told, Op

LEMMA TcpNextIInv ==
  ASSUME Tcp!TcpCalcAssumption, TcpIInv, [Tcp!Next]_t_vars PROVE TcpIInv'
BY TcpServe, TcpStutter DEF Tcp!Next

-----------------------------------------------------------------------------
(* The three programs: the one that runs steps, the others stay. *)

RequestsIInv == WebIInv /\ UdpIInv /\ TcpIInv

\* Each program makes a step of its own, or none.
LEMMA StepsOfEach ==
  ASSUME [RequestsNext]_requests
  PROVE  [Web!Next]_w_vars /\ [Udp!Next]_u_vars /\ [Tcp!Next]_t_vars
BY DEF RequestsNext, requests

LEMMA RequestsInitIInv == RequestsInit => RequestsIInv
BY RequestsAssumption, WebInit, UdpInit, TcpInit DEF RequestsInit, RequestsIInv

LEMMA RequestsNextIInv == RequestsIInv /\ [RequestsNext]_requests => RequestsIInv'
BY RequestsAssumption, StepsOfEach, WebNextIInv, UdpNextIInv, TcpNextIInv DEF RequestsIInv

\* However many browsers, pages and files there are, whoever edits the files and
\* whichever process ends: a page's answer comes from one file without a gap and
\* has the promised length if the file was left alone, and it is about the page
\* that was asked for.  Whatever is lost or duplicated, the UDP calculator's
\* clients are shown as many answers as the datagrams account for, and what
\* they are shown is explained by the questions.  The TCP calculator answers
\* about the upper halves of what it is asked, or what the client before was told.
THEOREM RequestsSafety == RequestsSpec => []RequestsInv
<1>1. RequestsInit => RequestsIInv
  BY RequestsInitIInv
<1>2. RequestsIInv /\ [RequestsNext]_requests => RequestsIInv'
  BY RequestsNextIInv
<1>3. RequestsIInv => RequestsInv
  BY WebIInvInv, UdpIInvInv DEF RequestsIInv, RequestsInv, TcpIInv
<1> QED
  BY <1>1, <1>2, <1>3, PTL DEF RequestsSpec

\* Whoever waits for a web server whose parent has gone gets no answer, although
\* its connection stands as long as any child runs: no child accepts it, and as
\* long as it stands nobody can start a new parent, which would have to bind the
\* port.
THEOREM OrphansWait == RequestsSpec => OrphansNeverServed
<1>1. RequestsInit => RequestsIInv
  BY RequestsInitIInv
<1>2. RequestsIInv /\ [RequestsNext]_requests => RequestsIInv'
  BY RequestsNextIInv
<1>3. RequestsIInv /\ [RequestsNext]_requests =>
        [\A c \in Web!Range(w_backlog) : ~w_parent =>
           \/ ~w_parent' /\ c \in Web!Range(w_backlog')
           \/ w_pc'[c] = "done" /\ status'[c] = 0]_Web!vars
  <2> SUFFICES ASSUME RequestsIInv, [RequestsNext]_requests, NEW c \in Web!Range(w_backlog), ~w_parent
               PROVE  \/ ~w_parent' /\ c \in Web!Range(w_backlog')
                      \/ w_pc'[c] = "done" /\ status'[c] = 0
    OBVIOUS
  <2>1. \/ ~w_parent' /\ c \in Web!Range(w_backlog)'
        \/ w_pc'[c] = "done" /\ status'[c] = 0
    BY StepsOfEach, WebOrphans DEF RequestsIInv
  <2> QED
    BY <2>1
<1> QED
  BY <1>1, <1>2, <1>3, PTL DEF RequestsSpec, OrphansNeverServed, Web!OrphansNeverServed

\* A client of the UDP calculator that has lost more datagrams than were
\* duplicated never stops waiting: nothing in either program sends again.
THEOREM LostStays == RequestsSpec => Udp!LostForGood
<1>1. RequestsInit => RequestsIInv
  BY RequestsInitIInv
<1>2. RequestsIInv /\ [RequestsNext]_requests => RequestsIInv'
  BY RequestsNextIInv
<1>3. RequestsIInv /\ [RequestsNext]_requests =>
        [\A c \in Calculating :
           losses[c] > dups[c] /\ u_client[c] = "waiting" => u_client'[c] = "waiting"]_Udp!vars
  BY StepsOfEach, UdpStaysLost DEF RequestsIInv
<1> QED
  BY <1>1, <1>2, <1>3, PTL DEF RequestsSpec, Udp!LostForGood
=============================================================================
