------------------------------ MODULE WebServer ------------------------------
(***************************************************************************)
(* 27_web_server/web_server: a process per request.  The child takes one   *)
(* read for the whole request, asks access whether the page is there, stat *)
(* how long it is, sends the header, and only then opens and copies the    *)
(* page, which others may change, replace or remove meanwhile.  Lengths    *)
(* are counted in blocks of MAXLINE bytes; a page name is a sequence, so   *)
(* that a request that is cut in its page names another page.              *)
(***************************************************************************)
EXTENDS Naturals, FiniteSets, SequencesExt

CONSTANTS Client, Page, Inode,
          NoFile,     \* a name without file, a child without open file
          MaxLen,     \* bound: blocks of a file
          DirLen,     \* st_size of the root directory, in blocks
          MinProc, MaxProc, \* children the system lets the server have: so many
                            \* always, up to so many if others leave it room
          MaxChanges, \* bound: changes of the files
          MaxStops    \* bound: deaths of the parent

WebAssumption ==
  /\ Page \subseteq Seq(STRING) \ {<<>>} /\ NoFile \notin Inode
  /\ {MaxLen, DirLen, MinProc, MaxProc} \subseteq Nat \ {0} /\ {MaxChanges, MaxStops} \subseteq Nat

VARIABLES parent,  \* is the parent running?
          backlog, \* connections that wait for accept
          client,  \* "new", "silent" (connected), "sent" (the request) or "left"
          asked,   \* the request it has sent
          pc,      \* its child: "none", "read", "access", "stat", "open", "copy", "done"
          page,    \* the page the child looks for
          fd,      \* the file it has open
          status, length, body, \* what it has written: code, Content-Length, blocks
          whole,   \* history: its read returned the whole request
          touched, \* history: files changed between its access and its end
          dir, len, \* the files: which one a page names, and their lengths
          changes, stops

conn == <<client, asked, backlog>>
answer == <<status, length, body>>
files == <<dir, len, changes>>
vars == <<parent, conn, pc, page, fd, answer, whole, touched, files, stops>>

Root == <<>>
Get(p) == <<"GET">> \o p \o <<"HTTP/1.1">>
Request == {Get(p) : p \in Page} \cup {<<"POST">>}

Init ==
  /\ parent = TRUE /\ backlog = <<>> /\ changes = 0 /\ stops = 0
  /\ client = [c \in Client |-> "new"] /\ asked = [c \in Client |-> <<>>]
  /\ pc = [c \in Client |-> "none"]
  /\ page = [c \in Client |-> Root] /\ fd = [c \in Client |-> NoFile]
  /\ status = [c \in Client |-> 0] /\ length = [c \in Client |-> 0]
  /\ body = [c \in Client |-> <<>>]
  /\ whole = [c \in Client |-> TRUE] /\ touched = [c \in Client |-> FALSE]
  /\ dir \in [Page -> Inode \cup {NoFile}] /\ IsInjective([p \in {q \in Page : dir[q] # NoFile} |-> dir[p]])
  /\ len \in [Inode -> 0..MaxLen]

-----------------------------------------------------------------------------
(* The browsers. *)

Running == {c \in Client : pc[c] \notin {"none", "done"}}

\* The children have inherited the listening socket.
Listening == parent \/ Running # {}

Connect(c) ==
  /\ client[c] = "new" /\ Listening
  /\ client' = [client EXCEPT ![c] = "silent"]
  /\ backlog' = Append(backlog, c)
  /\ UNCHANGED <<parent, asked, pc, page, fd, answer, whole, touched, files, stops>>

Send(c) ==
  /\ client[c] = "silent" /\ pc[c] # "done"
  /\ client' = [client EXCEPT ![c] = "sent"]
  /\ \E r \in Request : asked' = [asked EXCEPT ![c] = r]
  /\ UNCHANGED <<parent, backlog, pc, page, fd, answer, whole, touched, files, stops>>

Leave(c) ==
  /\ client[c] \in {"silent", "sent"} /\ pc[c] # "done"
  /\ client' = [client EXCEPT ![c] = "left"]
  /\ UNCHANGED <<parent, asked, backlog, pc, page, fd, answer, whole, touched, files, stops>>

\* Somebody edits the files: a file gets another length, a page another file.
EditFiles ==
  /\ changes < MaxChanges /\ changes' = changes + 1
  /\ \/ /\ \E f \in Inode, n \in 0..MaxLen : len' = [len EXCEPT ![f] = n]
        /\ UNCHANGED dir
     \/ /\ \E p \in Page, f \in (Inode \ Range(dir)) \cup {NoFile} : dir' = [dir EXCEPT ![p] = f]
        /\ UNCHANGED len
  /\ touched' = [c \in Client |-> touched[c] \/ pc[c] \in {"stat", "open", "copy"}]
  /\ UNCHANGED <<parent, conn, pc, page, fd, answer, whole, stops>>

-----------------------------------------------------------------------------
(* The parent. *)

\* The processes that count against the limit: as SIGCHLD is ignored, those that
\* have ended vanish.
Children == Running

\* Mutated form of ParentReady: the parent serves the request itself.
ServesItself == Running = {}

\* The parent is back at accept as soon as it has forked.
ParentReady == TRUE

\* Mutated form of Accepting: a child without exit(0) goes on to accept.
ChildrenToo == Listening

\* Only the parent comes to accept.
Accepting == parent

\* accept, fork and, in the parent, close.
Accept ==
  /\ Accepting /\ ParentReady /\ backlog # <<>> /\ Cardinality(Children) < MaxProc
  /\ backlog' = Tail(backlog)
  /\ pc' = [pc EXCEPT ![Head(backlog)] = "read"]
  /\ UNCHANGED <<parent, client, asked, page, fd, answer, whole, touched, files, stops>>

\* fork fails: the parent returns, and the connection it has accepted ends.
ForkFails ==
  /\ parent /\ ParentReady /\ backlog # <<>> /\ Cardinality(Children) >= MinProc
  /\ parent' = FALSE
  /\ backlog' = Tail(backlog)
  /\ pc' = [pc EXCEPT ![Head(backlog)] = "done"]
  /\ UNCHANGED <<client, asked, page, fd, answer, whole, touched, files, stops>>

\* Who runs from now on.  With the last process that has it open the listening
\* socket is gone, and with it the connections nobody has accepted.
Processes(up, now) ==
  /\ parent' = up
  /\ IF up \/ \E c \in Client : now[c] \notin {"none", "done"}
       THEN pc' = now /\ UNCHANGED backlog
       ELSE pc' = [c \in Client |-> IF c \in Range(backlog) THEN "done" ELSE now[c]] /\ backlog' = <<>>

\* The parent is killed, or accept returns an error.
ParentEnds ==
  /\ parent /\ stops < MaxStops
  /\ stops' = stops + 1
  /\ Processes(FALSE, pc)
  /\ UNCHANGED <<client, asked, page, fd, answer, whole, touched, files>>

\* A new parent: bind fails as long as a child holds the old listening socket.
Restart ==
  /\ ~parent /\ ~Listening
  /\ parent' = TRUE
  /\ UNCHANGED <<conn, pc, page, fd, answer, whole, touched, files, stops>>

-----------------------------------------------------------------------------
(* The child of connection c. *)

Goto(c, where) == Processes(parent, [pc EXCEPT ![c] = where])
Exit(c) == Goto(c, "done")
Stay == UNCHANGED <<client, asked, files, stops>>

\* protocol_parser on the first n units: the page is all between method and
\* version, the last unit.
Parsed(c, n) == SubSeq(asked[c], 2, IF n = Len(asked[c]) THEN n - 1 ELSE n)

\* The header and codemsg as document.
WriteError(c, code) ==
  /\ status' = [status EXCEPT ![c] = code] /\ length' = [length EXCEPT ![c] = 1]
  /\ body' = [body EXCEPT ![c] = <<"codemsg">>]
  /\ Exit(c)

\* read returns the beginning of the request, all of it as a rule; n = 0 is a
\* beginning that ends within the method.
Read(c) ==
  /\ pc[c] = "read" /\ asked[c] # <<>>
  /\ \E n \in 0..Len(asked[c]) :
       /\ whole' = [whole EXCEPT ![c] = n = Len(asked[c])]
       /\ IF n > 0 /\ asked[c][1] = "GET"
            THEN /\ page' = [page EXCEPT ![c] = Parsed(c, n)]
                 /\ Goto(c, "access") /\ UNCHANGED answer
            ELSE WriteError(c, 500) /\ UNCHANGED page
  /\ UNCHANGED <<fd, touched>> /\ Stay

\* The client has gone without a request: read returns 0, webserv an error.
ReadEnd(c) ==
  /\ pc[c] = "read" /\ client[c] = "left" /\ asked[c] = <<>>
  /\ Exit(c)
  /\ UNCHANGED <<page, fd, answer, whole, touched>> /\ Stay

\* The file a path leads to; the root directory leads to itself.
There(p) == p = Root \/ (p \in Page /\ dir[p] # NoFile)

Access(c) ==
  /\ pc[c] = "access"
  /\ IF There(page[c])
       THEN Goto(c, "stat") /\ UNCHANGED answer
       ELSE WriteError(c, 404)
  /\ UNCHANGED <<page, fd, whole, touched>> /\ Stay

\* stat, and the header.  If stat fails st_size is whatever is on the stack: any
\* number, for which two stand here.
Stat(c) ==
  /\ pc[c] = "stat"
  /\ \E n \in IF page[c] = Root THEN {DirLen} ELSE IF There(page[c]) THEN {len[dir[page[c]]]} ELSE {0, DirLen} :
       length' = [length EXCEPT ![c] = n]
  /\ status' = [status EXCEPT ![c] = 200]
  /\ Goto(c, "open")
  /\ UNCHANGED <<body, page, fd, whole, touched>> /\ Stay

\* open; read fails on a directory and on the -1 of a failed open.
Open(c) ==
  /\ pc[c] = "open"
  /\ IF page[c] # Root /\ There(page[c])
       THEN fd' = [fd EXCEPT ![c] = dir[page[c]]] /\ Goto(c, "copy")
       ELSE Exit(c) /\ UNCHANGED fd
  /\ UNCHANGED <<page, answer, whole, touched>> /\ Stay

\* Mutated form of HasMore: the block that ends the file is not sent.
HasMoreThanOne(c) == Len(body[c]) + 1 < len[fd[c]]

\* read() > 0
HasMore(c) == Len(body[c]) < len[fd[c]]

\* Copy a block, or close and exit.
Copy(c) ==
  /\ pc[c] = "copy"
  /\ IF HasMore(c)
       THEN /\ body' = [body EXCEPT ![c] = Append(@, <<fd[c], Len(@) + 1>>)]
            /\ UNCHANGED <<parent, backlog, pc, status, length>>
       ELSE Exit(c) /\ UNCHANGED answer
  /\ UNCHANGED <<page, fd, whole, touched>> /\ Stay

\* SIGPIPE ends the child that writes to a client that has gone, in "read" the
\* document of the error 500.
BrokenPipe(c) ==
  /\ client[c] = "left"
  /\ \/ pc[c] \in {"stat", "copy"} \/ (pc[c] = "access" /\ ~There(page[c]))
     \/ pc[c] = "read" /\ asked[c] # <<>>
  /\ Exit(c)
  /\ UNCHANGED <<page, fd, answer, whole, touched>> /\ Stay

ChildStep(c) == Read(c) \/ ReadEnd(c) \/ Access(c) \/ Stat(c) \/ Open(c) \/ Copy(c)

Next ==
  \/ Accept \/ ForkFails \/ ParentEnds \/ Restart \/ EditFiles
  \/ \E c \in Client : Connect(c) \/ Send(c) \/ Leave(c) \/ ChildStep(c) \/ BrokenPipe(c)

\* Every process is scheduled; a browser need neither send nor leave.
Fairness == WF_vars(Accept \/ ForkFails) /\ \A c \in Client : WF_vars(ChildStep(c))

Spec == Init /\ [][Next]_vars /\ Fairness

-----------------------------------------------------------------------------
\* Types of the variables.
TypeOK ==
  /\ parent \in BOOLEAN /\ IsInjective(backlog) /\ Range(backlog) \subseteq Client
  /\ client \in [Client -> {"new", "silent", "sent", "left"}]
  /\ asked \in [Client -> Request \cup {<<>>}]
  /\ pc \in [Client -> {"none", "read", "access", "stat", "open", "copy", "done"}]
  /\ fd \in [Client -> Inode \cup {NoFile}]
  /\ dir \in [Page -> Inode \cup {NoFile}] /\ len \in [Inode -> 0..MaxLen]
  /\ status \in [Client -> {0, 200, 404, 500}] /\ length \in [Client -> Nat]

\* What a page's answer is made of comes from one file, from its beginning and
\* without a gap, even if the page is replaced while it is copied.
BodyOfOneFile ==
  \A c \in Client : status[c] = 200 => body[c] = [k \in 1..Len(body[c]) |-> <<fd[c], k>>]

\* If nobody edited the files between access and the end, and the client stayed,
\* the body is as long as the Content-Length promised; a directory's is empty.
LengthMatchesBody ==
  \A c \in Client :
    pc[c] = "done" /\ status[c] = 200 /\ client[c] # "left" /\ ~touched[c]
      => Len(body[c]) = IF page[c] = Root THEN 0 ELSE length[c]

\* A request that came in one piece is answered about the page it names; one
\* that was cut about a beginning of that name, never about a longer one.
PageAsked ==
  \A c \in Client :
    pc[c] \notin {"none", "read"} /\ asked[c] # <<>> /\ asked[c][1] = "GET" =>
      /\ IsPrefix(page[c], Parsed(c, Len(asked[c])))
      /\ whole[c] /\ status[c] # 0 => page[c] = Parsed(c, Len(asked[c]))

\* Who waits for accept has no child; as long as anybody waits somebody listens.
WaitersHaveListener ==
  /\ \A c \in Range(backlog) : pc[c] = "none"
  /\ backlog # <<>> => Listening

Inv == TypeOK /\ BodyOfOneFile /\ LengthMatchesBody /\ PageAsked /\ WaitersHaveListener

\* The children keep the listening socket when the parent has gone, so that
\* browsers wait for accept and still connect; but none of those will be answered:
\* no child accepts them, no new parent can bind while the socket is there, and
\* the last child takes it and them along.
OrphansNeverServed ==
  [][\A c \in Range(backlog) : ~parent =>
       \/ ~parent' /\ c \in Range(backlog')
       \/ pc'[c] = "done" /\ status'[c] = 0]_vars

\* Whoever sends its request is answered while the parent lives, whatever the
\* silent clients do.
Answered ==
  \A c \in Client : client[c] = "sent" ~> (pc[c] = "done" \/ client[c] = "left" \/ ~parent)
=============================================================================
