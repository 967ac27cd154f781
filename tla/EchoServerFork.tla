---------------------------- MODULE EchoServerFork ----------------------------
(***************************************************************************)
(* 10_proc/echo_server_fork: the parent accepts and forks, each child      *)
(* echoes what its client sends until end of file.  A child inherits every *)
(* descriptor the parent has open when it forks, the listening socket      *)
(* included; a connection ends only when nobody holds it any more.         *)
(***************************************************************************)
EXTENDS EchoClient

CONSTANTS Parent,    \* the process that accepts; a child is named by its client
          FdLimit,   \* connections the parent can hold open
          MaxFails,  \* bound: calls of fork that fail
          MaxRuns    \* bound: parents killed, and started again

ASSUME ForkAssumption ==
  /\ Parent \notin Client /\ FdLimit \in Nat \ {0} /\ {MaxFails, MaxRuns} \subseteq Nat

VARIABLES parent,   \* the parent: "accept", "fork", "close" or "gone"
          cur,      \* the parent's client_fd
          holders,  \* the processes that have each connection open
          listeners,\* the processes that have the listening socket open
          child,    \* the child of each client
          buf,      \* each child's buffer
          failed,   \* history: clients whose fork failed
          runs      \* counted against MaxRuns

files == <<holders, listeners>>
vars == <<net, files, parent, cur, child, buf, failed, runs>>

Init ==
  /\ NetInit
  /\ parent = "accept" /\ cur = Parent
  /\ holders = [c \in Client |-> {}]
  /\ listeners = {Parent}
  /\ child = [c \in Client |-> "none"]
  /\ buf = [c \in Client |-> Zeroed]
  /\ failed = {} /\ runs = 0

\* Nobody holds the connection, and it does not wait on a listening socket.
Gone(c) == holders[c] = {} /\ c \notin Range(backlog)

server == <<files, parent, cur, child, buf, failed, runs>>

ClientReads(c) == ReadAnswer(c, Gone(c)) /\ UNCHANGED server

UserActs(c) == (Connect(c, listeners # {}) \/ Ask(c) \/ HangUp(c)) /\ UNCHANGED server

-----------------------------------------------------------------------------
(* The parent. *)

Held == {c \in Client : Parent \in holders[c]}

Accept ==
  /\ parent = "accept" /\ backlog # <<>> /\ Cardinality(Held) < FdLimit
  /\ parent' = "fork" /\ cur' = Head(backlog)
  /\ holders' = [holders EXCEPT ![Head(backlog)] = {Parent}]
  /\ TakeNext
  /\ UNCHANGED <<listeners, child, buf, failed, runs>>

\* The child shares every connection the parent has open.
Fork ==
  /\ parent = "fork"
  /\ child' = [child EXCEPT ![cur] = "read"]
  /\ holders' = [c \in Client |-> IF c \in Held THEN holders[c] \cup {cur} ELSE holders[c]]
  /\ listeners' = listeners \cup {cur}
  /\ parent' = "close"
  /\ UNCHANGED <<net, cur, buf, failed, runs>>

\* pid is -1: neither branch is taken and client_fd stays open.
ForkFails ==
  /\ parent = "fork" /\ Cardinality(failed) < MaxFails
  /\ failed' = failed \cup {cur}
  /\ parent' = "accept"
  /\ UNCHANGED <<net, files, cur, child, buf, runs>>

\* Mutated forms of Closing: client_fd is left to the child alone; the parent
\* first waits for the child.
NotClosing == UNCHANGED holders
ClosingAfterWait == child[cur] = "exited" /\ holders' = [holders EXCEPT ![cur] = @ \ {Parent}]

Closing == holders' = [holders EXCEPT ![cur] = @ \ {Parent}]

ParentClose ==
  /\ parent = "close"
  /\ Closing
  /\ parent' = "accept"
  /\ UNCHANGED <<net, listeners, cur, child, buf, failed, runs>>

\* The end of a process closes its descriptors; the last one to close the
\* listening socket resets the connections that wait on it.
Leave(p) ==
  /\ listeners' = listeners \ {p}
  /\ holders' = [c \in Client |-> holders[c] \ {p}]
  /\ backlog' = IF listeners = {p} THEN <<>> ELSE backlog
  /\ UNCHANGED <<client, asked, toServer, answer>>

ParentExits == parent' = "gone" /\ Leave(Parent) /\ UNCHANGED <<cur, child, buf, failed>>

\* accept fails for want of a descriptor, even if nobody waits: break, return 0.
AcceptFails ==
  /\ parent = "accept" /\ Cardinality(Held) >= FdLimit
  /\ ParentExits /\ UNCHANGED runs

KillParent == parent # "gone" /\ runs < MaxRuns /\ runs' = runs + 1 /\ ParentExits

\* bind succeeds only when no child of an earlier parent keeps the port.
Start ==
  /\ parent = "gone" /\ listeners = {} /\ runs < MaxRuns
  /\ runs' = runs + 1
  /\ parent' = "accept" /\ listeners' = {Parent}
  /\ UNCHANGED <<net, holders, cur, child, buf, failed>>

-----------------------------------------------------------------------------
(* The child that serves c. *)

\* Mutated form of Continues: the loop goes on only while reads fill the buffer.
ContinuesWhenFull(n) == n = MaxLine

\* read() > 0
Continues(n) == n > 0

Read(c) ==
  /\ child[c] = "read"
  /\ \E n \in 1..MaxLine :
       /\ Take(c, n)
       /\ buf' = [buf EXCEPT ![c] = ReadInto(@, c, n)]
       /\ child' = [child EXCEPT ![c] = IF Continues(n) THEN "write" ELSE "exited"]
  /\ UNCHANGED <<files, parent, cur, failed, runs>>

\* Mutated form of Own: parent and children share one client_fd.
Shared(c) == cur

\* The child's copy of client_fd, which the parent's next accept leaves alone.
Own(c) == c

Write(c) ==
  /\ child[c] = "write"
  /\ Give(Own(c), UpToNul(buf[c]))
  /\ buf' = [buf EXCEPT ![c] = Zeroed]
  /\ child' = [child EXCEPT ![c] = "read"]
  /\ UNCHANGED <<files, parent, cur, failed, runs>>

\* read meets the end of file or a reset, once it has read what came before, or
\* write the SIGPIPE of a closed client: the child is over.
ChildEnds(c) ==
  /\ Closed(c)
  /\ child[c] = "write" \/ (child[c] = "read" /\ toServer[c] = <<>>)
  /\ child' = [child EXCEPT ![c] = "exited"]
  /\ Leave(c)
  /\ UNCHANGED <<parent, cur, buf, failed, runs>>

-----------------------------------------------------------------------------
ParentStep == Accept \/ AcceptFails \/ Fork \/ ParentClose
ChildStep(c) == Read(c) \/ Write(c) \/ ChildEnds(c)

Next ==
  \/ ParentStep \/ ForkFails \/ KillParent \/ Start
  \/ \E c \in Client : ClientReads(c) \/ UserActs(c) \/ ChildStep(c)

\* Every running process is scheduled.  A user need not act.
Fairness ==
  /\ WF_vars(ParentStep)
  /\ \A c \in Client : WF_vars(ChildStep(c)) /\ WF_vars(ClientReads(c))

Spec == Init /\ [][Next]_vars /\ Fairness

-----------------------------------------------------------------------------
\* Types of the variables.
TypeOK ==
  /\ NetTypeOK
  /\ parent \in {"accept", "fork", "close", "gone"}
  /\ cur \in Client \cup {Parent}
  /\ holders \in [Client -> SUBSET (Client \cup {Parent})]
  /\ listeners \subseteq Client \cup {Parent}
  /\ child \in [Client -> {"none", "read", "write", "exited"}]
  /\ buf \in [Client -> Seq((Client \X Nat) \cup {NUL})]
  /\ failed \subseteq Client /\ runs \in Nat

\* The connection the parent is working on.
Working == IF parent \in {"fork", "close"} THEN {cur} ELSE {}

\* The parent's descriptors are the connection it is working on and those its
\* failed forks left behind, so nothing but failed forks can exhaust them.
ParentHolds == Held \subseteq failed \cup Working

\* A connection is held by its own child alone (and by the parent until its
\* close): children forked later do not keep it open, except those of
\* connections whose fork failed.
HeldByOwnChild ==
  \A c \in Client \ failed :
    holders[c] \subseteq IF c \in Working THEN {c, Parent} ELSE {c}

Inv == TypeOK /\ ParentHolds /\ HeldByOwnChild

\* A client that hangs up after its fork is released: its child ends and no
\* process keeps the connection open.  A line that reaches a child is answered,
\* with at least its beginning, whatever becomes of the parent.
ChildrenFinish ==
  \A c \in Client :
    /\ child[c] # "none" /\ Closed(c) ~> holders[c] = {}
    /\ child[c] # "none" /\ asked[c] # <<>> ~> answer[c] # <<>> \/ client[c] = "left"

\* A silent client keeps nobody else waiting: the queue moves on as long as
\* the parent accepts.
QueueDrains ==
  \A c \in Client : c \in Range(backlog) ~> c \notin Range(backlog) \/ parent = "gone"

\* A child sends back what precedes the zeros, so that answers are as promised.
Echo == INSTANCE EchoService

\* Children that outlive one another and share nothing implement the service.
ImplementsEcho == Echo!Spec
=============================================================================
