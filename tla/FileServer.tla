----------------------------- MODULE FileServer -----------------------------
(***************************************************************************)
(* 26_file_server/file_server: the parent accepts and forks, a child per   *)
(* client takes one query and receives a file, sends a file or sends the   *)
(* rows of a table.  The files are shared by all children, each of which   *)
(* reads or writes at an offset of its own.                                *)
(***************************************************************************)
EXTENDS FileClient

CONSTANTS Rows,     \* rows of the table file_info
          MaxFaults \* bound: calls of fork or write that fail, processes killed

ASSUME ServerAssumption == {Rows, MaxFaults} \subseteq Nat

VARIABLES files,  \* the server's files
          parent, \* "accept", "fork", "close" or "gone"
          cur,    \* the parent's cli_sockfd
          held,   \* connections the parent has open
          child,  \* what the child of each client does
          off,    \* the offset of its open file, or rows sent; -1 before
          block,  \* the block it has read and not sent yet
          faults, \* counted against MaxFaults
          before, \* history: the file as it was when the child opened it
          overlap \* history: has another child written to it since?

progress == <<off, block>>
history == <<before, overlap>>
vars == <<clients, files, parent, cur, held, child, progress, faults, history>>

Stored == DOMAIN OldSize
Nobody == Server

Init ==
  /\ ClientInit
  /\ files = [n \in Stored |-> Blocks(Server, OldSize[n])]
  /\ parent = "accept" /\ cur = Nobody /\ held = {}
  /\ child = [c \in Client |-> "none"]
  /\ off = [c \in Client |-> -1]
  /\ block = [c \in Client |-> <<>>]
  /\ faults = 0
  /\ before = [c \in Client |-> <<>>]
  /\ overlap = [c \in Client |-> FALSE]

Alive(c) == child[c] \notin {"none", "gone"}

\* Children inherit the listening socket.
Listening == parent # "gone" \/ \E c \in Client : Alive(c)

\* The server's end of a connection: with the child, the parent or in the queue.
Open(c) == Alive(c) \/ c \in held \/ c \in Range(backlog)

UserActs(c) ==
  /\ Connect(c, Listening) \/ Kill(c)
  /\ UNCHANGED <<files, parent, cur, held, child, progress, faults, history>>

ClientActs(c) ==
  /\ ClientRuns(c, Open(c))
  /\ UNCHANGED <<files, parent, cur, held, child, progress, faults, history>>

ClientWriteFails(c) ==
  /\ faults < MaxFaults /\ faults' = faults + 1
  /\ ReceiveFails(c)
  /\ UNCHANGED <<files, parent, cur, held, child, progress, history>>

-----------------------------------------------------------------------------
(* The parent. *)

SetBacklog(b) == backlog' = b /\ UNCHANGED <<client, request, up, down, sent, got, local>>

Accept ==
  /\ parent = "accept" /\ backlog # <<>>
  /\ cur' = Head(backlog) /\ held' = held \cup {cur'}
  /\ SetBacklog(Tail(backlog))
  /\ parent' = "fork"
  /\ UNCHANGED <<files, child, progress, faults, history>>

Fork ==
  /\ parent = "fork"
  /\ child' = [child EXCEPT ![cur] = "query"]
  /\ parent' = "close"
  /\ UNCHANGED <<clients, files, cur, held, progress, faults, history>>

\* Mutated form of Closed: the parent leaves the connection to its child.
NotClosed == {}

Closed == {cur}

ParentCloses ==
  /\ parent = "close"
  /\ held' = held \ Closed
  /\ parent' = "accept"
  /\ UNCHANGED <<clients, files, cur, child, progress, faults, history>>

\* fork or accept fails, exit(0); or the parent is killed.  The queue is reset
\* unless children keep the listening socket.
ParentExits ==
  /\ parent # "gone" /\ faults < MaxFaults /\ faults' = faults + 1
  /\ parent' = "gone" /\ held' = {}
  /\ SetBacklog(IF \E c \in Client : Alive(c) THEN backlog ELSE <<>>)
  /\ UNCHANGED <<files, cur, child, progress, history>>

-----------------------------------------------------------------------------
(* proc, serv_file_upload, serv_file_download and serv_file_list in the     *)
(* child that serves c.                                                    *)

At(c, state) == child' = [child EXCEPT ![c] = state]
Found(c) == request[c].name \in Stored
File(c) == files[request[c].name]

\* recv of the query, then the switch.  A file that is not there ends it.
ReceiveQuery(c) ==
  /\ child[c] = "query" /\ up[c] # <<>>
  /\ up' = [up EXCEPT ![c] = Tail(@)]
  /\ \/ /\ request[c].command = "list" \/ Found(c)
        /\ At(c, request[c].command)
        /\ off' = [off EXCEPT ![c] = 0]
        /\ before' = [before EXCEPT ![c] = IF Found(c) THEN File(c) ELSE <<>>]
     \/ /\ request[c].command # "list" /\ ~Found(c)
        /\ At(c, "sleep")
        /\ UNCHANGED <<off, before>>
  /\ UNCHANGED <<client, request, down, sent, got, local, backlog, files, parent, cur, held,
                 block, faults, overlap>>

\* recv yields 0 or -1.
NoQuery(c) ==
  /\ child[c] = "query" /\ up[c] = <<>> /\ Ended(c)
  /\ At(c, "sleep")
  /\ UNCHANGED <<clients, files, parent, cur, held, progress, faults, history>>

\* Mutated form of Written: every write goes to the beginning of the file.
Rewritten(c, b) == Overlaid(File(c), <<b>>)

\* write at the offset of the child's own descriptor.
Written(c, b) == Overlaid(File(c), Append(SubSeq(File(c), 1, off[c]), b))

SaveBlock(c) ==
  /\ child[c] = "upload" /\ up[c] # <<>>
  /\ up' = [up EXCEPT ![c] = Tail(@)]
  /\ files' = [files EXCEPT ![request[c].name] = Written(c, Head(up[c]))]
  /\ off' = [off EXCEPT ![c] = @ + 1]
  /\ overlap' = [d \in Client |->
                   overlap[d] \/ (d # c /\ off[d] # -1 /\ request[d].name = request[c].name)]
  /\ UNCHANGED <<client, request, down, sent, got, local, backlog, parent, cur, held, child,
                 block, faults, before>>

\* The file cannot be written to: break, with the rest unread.
SaveFails(c) ==
  /\ child[c] = "upload" /\ up[c] # <<>>
  /\ faults < MaxFaults /\ faults' = faults + 1
  /\ At(c, "sleep")
  /\ UNCHANGED <<clients, files, parent, cur, held, progress, history>>

\* Mutated form of EndOfFile: recv() >= 0 goes on.
Never(c) == FALSE

EndOfFile(c) == up[c] = <<>> /\ Ended(c)

\* The end of the connection is the end of the file, whether the client has
\* sent all of it or has been interrupted.
SaveEnds(c) ==
  /\ child[c] = "upload" /\ EndOfFile(c)
  /\ At(c, "saved")
  /\ UNCHANGED <<clients, files, parent, cur, held, progress, faults, history>>

\* Mutated form of AtEnd: a short read, the last one, ends the loop unsent.
OneEarly(c) == off[c] + 1 >= Len(File(c))

\* read() = 0
AtEnd(c) == off[c] >= Len(File(c))

LoadBlock(c) ==
  /\ child[c] = "download" /\ ~AtEnd(c) /\ block[c] = <<>>
  /\ block' = [block EXCEPT ![c] = <<File(c)[off[c] + 1]>>]
  /\ off' = [off EXCEPT ![c] = @ + 1]
  /\ UNCHANGED <<clients, files, parent, cur, held, child, faults, history>>

LoadRow(c) ==
  /\ child[c] = "list" /\ off[c] < Rows /\ block[c] = <<>>
  /\ block' = [block EXCEPT ![c] = <<Blocks(Server, Rows)[off[c] + 1]>>]
  /\ off' = [off EXCEPT ![c] = @ + 1]
  /\ UNCHANGED <<clients, files, parent, cur, held, child, faults, history>>

\* send, which waits for room.
SendOn(c) ==
  /\ Alive(c) /\ block[c] # <<>> /\ ~Ended(c) /\ Len(down[c]) < Room
  /\ down' = [down EXCEPT ![c] = @ \o block[c]]
  /\ block' = [block EXCEPT ![c] = <<>>]
  /\ UNCHANGED <<client, request, up, sent, got, local, backlog, files, parent, cur, held,
                 child, off, faults, history>>

\* The client is gone: what is sent is lost, or send fails, which is the end of a
\* download, while rows are sent on.
SendIsLost(c) ==
  /\ Alive(c) /\ block[c] # <<>> /\ Ended(c)
  /\ block' = [block EXCEPT ![c] = <<>>]
  /\ UNCHANGED child \/ (child[c] = "download" /\ At(c, "sleep"))
  /\ UNCHANGED <<clients, files, parent, cur, held, off, faults, history>>

Sent(c) ==
  /\ block[c] = <<>>
  /\ \/ child[c] = "download" /\ AtEnd(c)
     \/ child[c] = "list" /\ off[c] = Rows
  /\ At(c, "sent")
  /\ UNCHANGED <<clients, files, parent, cur, held, progress, faults, history>>

\* The child is over; the last process to close the listening socket resets
\* the connections that wait on it.
Leaves(c) ==
  /\ At(c, "gone")
  /\ SetBacklog(IF parent # "gone" \/ \E d \in Client \ {c} : Alive(d) THEN backlog ELSE <<>>)
  /\ UNCHANGED <<files, parent, cur, held, progress, history>>

\* sleep(5), close, exit.
ChildExits(c) == child[c] \in {"sleep", "saved", "sent"} /\ Leaves(c) /\ UNCHANGED faults

\* SIGPIPE ends a child that sends to a client that is gone.
BrokenPipe(c) == Alive(c) /\ block[c] # <<>> /\ Ended(c) /\ Leaves(c) /\ UNCHANGED faults

\* A child is killed.
KillChild(c) == Alive(c) /\ faults < MaxFaults /\ faults' = faults + 1 /\ Leaves(c)

-----------------------------------------------------------------------------
ParentStep == Accept \/ Fork \/ ParentCloses

ChildStep(c) ==
  \/ ReceiveQuery(c) \/ NoQuery(c)
  \/ SaveBlock(c) \/ SaveEnds(c)
  \/ LoadBlock(c) \/ LoadRow(c) \/ SendOn(c) \/ SendIsLost(c) \/ Sent(c)
  \/ ChildExits(c)

Next ==
  \/ ParentStep \/ ParentExits
  \/ \E c \in Client : \/ UserActs(c) \/ ClientActs(c) \/ ClientWriteFails(c)
                       \/ ChildStep(c) \/ SaveFails(c) \/ BrokenPipe(c) \/ KillChild(c)

\* All processes are scheduled; nobody need start or kill a client.
Fairness ==
  /\ WF_vars(ParentStep)
  /\ \A c \in Client : WF_vars(ChildStep(c)) /\ WF_vars(ClientActs(c))

Spec == Init /\ [][Next]_vars /\ Fairness

-----------------------------------------------------------------------------
\* Types of the variables.
TypeOK ==
  /\ ClientTypeOK
  /\ files \in [Stored -> Seq((Client \cup {Server}) \X Nat)]
  /\ parent \in {"accept", "fork", "close", "gone"}
  /\ cur \in Client \cup {Nobody} /\ held \subseteq Client
  /\ child \in [Client -> {"none", "query", "upload", "download", "list",
                           "saved", "sent", "sleep", "gone"}]
  /\ off \in [Client -> Nat \cup {-1}] /\ faults \in 0..MaxFaults
  /\ overlap \in [Client -> BOOLEAN]

Opened(c, command) == request[c].command = command /\ off[c] # -1

\* Whoever writes to a file at the same time, and whatever is cut short,
\* every block is at its own position, and is the server's old one or of a
\* client that uploads to this file.
InPlace ==
  \A n \in Stored : \A k \in DOMAIN files[n] :
    \/ files[n][k] = <<Server, k>> /\ k <= OldSize[n]
    \/ \E c \in Client : Opened(c, "upload") /\ request[c].name = n /\ files[n][k] = Mine(c)[k]

\* A file that nobody else has written to since a child opened it is what it
\* was, overlaid with the beginning of the client's file as far as it came.
LoneUploadExact ==
  \A c \in Client : Opened(c, "upload") /\ ~overlap[c] =>
    File(c) = Overlaid(before[c], SubSeq(Mine(c), 1, off[c]))

\* When the child has met the end of file of a client that was not
\* interrupted, it has all of the client's file.
WholeUpload == \A c \in Client : child[c] = "saved" /\ client[c] = "done" => off[c] = Size

\* A download of a file that nobody writes to meanwhile: what the client has
\* saved, what is on its way and what the child holds is, in this order, the
\* beginning of the file; and the client that ends well has all of it, unless
\* server processes were killed or failed.
DownloadExact ==
  \A c \in Client : Opened(c, "download") /\ ~overlap[c] =>
    /\ ~Ended(c) =>
         SubSeq(local[c], 1, got[c]) \o down[c] \o block[c] = SubSeq(before[c], 1, off[c])
    /\ client[c] = "done" /\ faults = 0 => got[c] = Len(before[c])

Inv == TypeOK /\ InPlace /\ LoneUploadExact /\ WholeUpload /\ DownloadExact

\* Every request ends, also when the parent is gone and children still keep
\* the listening socket, when its file is not there and when its data are not
\* wanted, and every child ends: no two processes wait for each other.
EverythingEnds ==
  \A c \in Client :
    /\ client[c] # "new" ~> Ended(c)
    /\ Alive(c) ~> child[c] = "gone"

\* "Saves the data the client sends as a file": a client that has sent its
\* whole file finds it on the server.
UploadIsSaved ==
  \A c \in Client :
    client[c] = "done" /\ request[c].command = "upload" ~>
      Found(c) /\ IsPrefix(Mine(c), File(c))
=============================================================================
