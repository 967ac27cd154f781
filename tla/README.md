# networkEX in TLA+

`networkEX` is a collection of small C programs for Linux: echo, chat, file, web
and calculator servers with their clients, and programs for threads, shared
memory and semaphores, pipes, select, epoll, real-time signals and raw sockets.
Each program is one or two files; what makes them hard is what they share with
others: a counter, a descriptor table, a socket that several processes hold, a
queue of signals.

This directory models the programs that keep state or in which several actors
meet, checks the models with TLC, and proves with TLAPS the counters, the threads that
wait for a broadcast, the fifos and the Unix domain socket, `myselect`, the
address loops and the checksum, the echo servers (with processes, with threads,
and those of one process), both chat servers, the file server, the web server and both
calculators. Paths below are relative to `src/`.

- [1. The system](#1-the-system)
- [2. Modules](#2-modules)
- [3. How the models read the code](#3-how-the-models-read-the-code)
- [4. Runs, bounds and what they show](#4-runs-bounds-and-what-they-show)
- [5. Fairness](#5-fairness)
- [6. Proofs](#6-proofs)
- [7. Where the code and its comments disagree](#7-where-the-code-and-its-comments-disagree)
- [8. What is not modelled](#8-what-is-not-modelled)
- [9. Plan](#9-plan)
- [10. Running the checks](#10-running-the-checks)

## 1. The system

### Threads and shared memory

| Program | State | Operations | What is hard | What makes it correct |
|---|---|---|---|---|
| `14_Linux_Mulit_thread/count_thread_mutex` | an int on main's stack, a mutex, a local in each worker | worker: lock, load, sleep, store, unlock; main: print, without the lock | a second of sleep between load and store; main reads in between | no increment is lost; main never sees the counter fall; the workers never stop |
| `14_Linux_Mulit_thread/count_thread` | the same without the mutex | load, store; print | stores of other threads between a load and a store | nothing can prevent losses, but they have a floor |
| `14_Linux_Mulit_thread/catc_multi` | one `d_info`, an array in parts, a condition variable | main: start threads, fill, broadcast, join and add; thread: copy, wait, sum its part | the threads get the *address* of one `d_info`, which main overwrites; nothing says that they wait when main broadcasts, and nothing but the broadcast wakes them | the sum is right exactly if all copied in time; who is in time for the broadcast is through, who is late is not |
| `11_IPC/shm_producer_sem`, `shm_consumer_sem`, `shm_consumer` | an int in a System V segment, a semaphore with the kernel's undo values | create or attach, SETVAL, down, load, store, up; the third program only prints | both outlive the processes, which are killed, started again and interrupted anywhere; the producer sets the semaphore to 1 on every start; the consumer ignores EINTR | while nobody is interrupted and no SETVAL hits a process inside, it is the atomic counter; the unit is never lost for good |

### Echo

| Program | State | Operations | What is hard | What makes it correct |
|---|---|---|---|---|
| `TCP_IP/echo_client.c`, `4_network/echo_client` | one connection | connect, send MAXLINE bytes, read once, close | TCP cuts the line anywhere; the user may interrupt it | (environment of the servers) |
| `10_proc/echo_server_fork` | descriptors of the parent and of each child, the queue of the listening socket | accept, fork, close; child: read, write until end of file | a connection ends only when its last holder has closed it; a failed fork takes neither branch; children keep the listening socket beyond the parent's death | each client gets a beginning of its own line; connections are held by their own child alone and released; the queue moves |
| `14_Linux_Mulit_thread/echo_server_thread` | one descriptor table, one `client_fd`, a copy per thread | accept and create; thread: copy, read, write, close | threads are given the *address* of `client_fd`; descriptors are closed and reused under their readers; SIGPIPE ends all | without the race everybody gets its own line; with it, still nothing twice |
| `4_network/echo_server`, `server` | one connection, one buffer | accept, read once, write MAXBUF bytes, close | everybody waits for a silent client; the buffer outlives the clients | nobody gets another's bytes; everybody in the queue is served if all users type |
| `16_block_nonblock/echo_server_nonblocking` | an array of descriptors kept by hand, one buffer for all | accept until nothing waits, then read and answer each once | MAXLINE bytes are written whatever was read; an accept fails once the last descriptor is given away, whether anybody waits or not, and is repeated for ever | strangers' bytes come from the same round only, and only if a line was cut; everybody with a descriptor is answered until the server wedges |
| `12_recv_send/echo_server_oob` | one connection, one buffer, SIGURG | accept, F_SETOWN, read, write; the handler fetches the urgent byte | the reading loop is never left; the handler interrupts it anywhere | the one client is served; the handler runs only for a byte nobody has asked for yet |
| `11_IPC/echo_server_pipe`, `echo_client_pipe` | two fifos, which last as long as somebody has them open | server: read one, write the other; client: write, print its own line | the second fifo is never read, so it fills | how much can be written before all block; short of that prompts return |
| `11_IPC/echo_server_udomain`, `echo_client_udomain` | a socket file, one connection, a descriptor per client ever served | server: accept, read, write; client: connect, write, read, all unchecked | descriptors are never closed; a client prints its own question if nothing came; SIGPIPE on both sides | a living connection echoes; what can end the server is known |

### Chat

| Program | State | Operations | What is hard | What makes it correct |
|---|---|---|---|---|
| `17_epoll_siginfo/chat_linux_cli` | one connection | send what is typed, show what arrives | may stop reading, may leave | (environment of the servers) |
| `17_epoll_siginfo/chat_cil` | `user_fds`, the event pool, an udata per connection, the descriptor table | take a batch of events; accept; read and send to all; drop | events are handled after others of the batch have accepted and closed; blocking writes of the only thread; SIGPIPE; the limit of descriptors; EINTR ends the server | the four records agree; no event is stale; everybody gets the log in order, without gaps |
| `17_epoll_siginfo/chat_server_rts` | `user_fds`, the queue of real-time signals, owners of descriptors | take a signal; accept; set up; read and send to all; drop | a signal names a descriptor that may have been closed and reused since; events before the set-up raise none; the queue overflows; full connections lose messages | `user_fds` is right whatever stale signals come; no line is forgotten while the queue holds; which connections are never accepted is known |

### Files, pages and single requests

| Program | State | Operations | What is hard | What makes it correct |
|---|---|---|---|---|
| `26_file_server/file_cli` | one connection, its own file | upload, download, list | the end of the connection is the only end mark; connections of bounded room | every run ends |
| `26_file_server/file_server` | the files, an offset per child | accept, fork; receive, save or send blocks, or list | two children write to one file; readers meet writers; killed processes look like ends of files; uploads do not truncate | every block is at its own place; a lone transfer is exact; nobody waits for ever |
| `27_web_server/web_server` | a child per request, the files, which others edit | accept, fork; read once, access, stat, header, open, copy | four looks at a file that may change between them; a request in pieces; a failing fork ends the server | a body comes from one file; the promised length holds if nobody edits; a cut request never names a longer page; who waits when the parent has gone is never served |
| `9_UDP/calc_linux_server`, `calc_linux_cli` | `cal_result`, kept across requests; datagrams | ask, answer, show | datagrams are lost and doubled, nothing matches or repeats them; `cal_result` may be a stranger's; the least int by -1 traps | who had nothing doubled is shown its own answer; what is shown is explained |
| `8_TCP/cal_server` | a struct and a result, both kept across requests | accept, read once, compute, write | htonl against ntohs, an int through a short; a struct that is read in part | which numbers are computed with, and whose |

### Alone

| Program | State | Operations | What is hard | What makes it correct |
|---|---|---|---|---|
| `13_Select/myselect` | an fd_set that selects and loops both change | select, test, read | descriptors that are one file; a read repeated because it filled the buffer | it waits for a single file in known cases only, and reads everything otherwise |
| `24_IPv6/echo_clint_all` | the loops over addresses and interfaces | socket, connect, close | two nested loops with a break of one | the first reachable address is connected to |
| `21_raw_socket/icmp_check` | the packet and a sum | add, fold, send | carries; a checksum over more than what is sent | the receiver finds the header intact |

What is left is listed with its reason in section 8.

### How the parts interact

Programs interact through the kernel only: TCP connections (clients and
servers), datagrams, the descriptor table (threads of one process, and parent
and child across `fork`), the listening socket's queue, a shared segment and
semaphore, fifos, files, and signals. So each server is composed with its client
by a module for the client that also holds the connections (`EchoClient`,
`ChatClient`, `FileClient`), which the server's module extends; where the
client is a handful of steps used by one server it is in the server's module.

## 2. Modules

| Module | Models | Composition |
|---|---|---|
| `AtomicCounter` | abstract: a counter that is incremented at once | implemented by `CountThreadMutex` always, by `ShmSemCounter` between undisturbed states |
| `CountThreadMutex` | `count_thread_mutex` | INSTANCE `AtomicCounter` |
| `CountThread` | `count_thread` | |
| `CatcMulti` | `catc_multi` | |
| `ShmSemCounter` | the three shared memory programs | INSTANCE `AtomicCounter` |
| `EchoService` | abstract: what has been sent back to a client is at any moment a beginning of its own line, and is never taken back | |
| `EchoClient` | the echo clients, their connections and the queue | extended by the five servers and by `EchoServers` |
| `EchoServerFork` | `echo_server_fork` | extends `EchoClient`, INSTANCE `EchoService`, which it implements |
| `EchoServerThread` | `echo_server_thread` | extends `EchoClient` |
| `EchoServerIterative` | `4_network/echo_server` and `server` | extends `EchoClient`, INSTANCE `EchoService`, which it implements |
| `EchoServerNonblocking` | `echo_server_nonblocking` | extends `EchoClient` |
| `EchoServerOob` | `echo_server_oob` | extends `EchoClient` |
| `EchoServers` | the same clients against each of the three servers of one process | extends `EchoClient`, INSTANCE the three modules above |
| `PipeEcho` | the echo over fifos, both programs | |
| `UdomainEcho` | the echo over a Unix domain socket, both programs | |
| `ChatService` | abstract: messages form one log, which every client receives from its arrival on, in order, without gaps and repetitions | |
| `ChatClient` | the chat client, the connections, the descriptor table and the chat's history | INSTANCE `ChatService`, extended by both servers |
| `ChatServerEpoll` | `chat_cil` | extends `ChatClient`, implements `ChatService` |
| `ChatServerRts` | `chat_server_rts` | extends `ChatClient` |
| `FileClient` | `file_cli` and its connections | extended by `FileServer` |
| `FileServer` | `file_server` | extends `FileClient` |
| `WebServer` | `web_server`, its browsers and who edits its files | |
| `UdpCalculator` | both programs of `9_UDP` and the network between them | |
| `TcpCalculator` | `cal_server` | |
| `Requests` | the web server and the two calculators, each with its own variables | INSTANCE the three modules above |
| `MySelect`, `EchoClientAll`, `IcmpCheck` | the three programs that are alone | |
| `LocalPrograms` | the programs of one machine, each with its own variables | extends the three thread modules, INSTANCE `PipeEcho`, `UdomainEcho`, `MySelect`, `EchoClientAll`, `IcmpCheck` |
| `LocalProofs`, `ShmSemCounterProofs`, `EchoProofs`, `EchoServerThreadProofs`, `ChatServerEpollProofs`, `ChatServerRtsProofs`, `RequestProofs` | theorems | extend the component's module (`LocalPrograms` for the first; `EchoServerFork` and `EchoServers` for `EchoProofs`; `FileServer` and `Requests` for `RequestProofs`) and TLAPS |
| `QueueLemmas` | lemmas about queues without repetition: what append, head and tail do to their range | extended by the proofs about servers |
| `MC...` | model values, symmetry, bounds of the runs | extend the checked module |

Three runs check several programs that never run together: `local` (the programs
of one machine, `LocalPrograms`), `echo_servers` (the servers that are one
process, `EchoServers`) and `requests` (the servers of single requests,
`Requests`). A variable `program` is chosen in the initial state and
never changes; a step is one of that program and leaves the variables of the
others, which start in one fixed state, as they are. So the states are those of
the programs side by side, not their product. An invariant of a program that does
not run is evaluated in its initial state, or starts with `program = "..." =>`; so
does a liveness property that could only hold of a running program, which, as
`program` never changes, says it of the behaviours of that program. A wrapper
there (`LocalInv`, `ServersInv`, `RequestsInv`, `PollProgress` and others) is the
conjunction of properties stated, each with its comment, in the components'
modules. These three modules are apart from their MC modules because theorems are
proved about them.

Beside a definition there may be a second one whose comment begins "Mutated
form of": the same operator with a plausible mistake (a missing unlock, a buffer
not cleared, a dropped guard). No action uses them; PROJECT.json pairs each
property with a mistake that breaks it.

## 3. How the models read the code

**Threads and shared memory.** A worker's loop is cut at the points where another thread's step
can be seen: `LockAndLoad`, `Store`, `Unlock` in `CountThreadMutex` (the load
follows the lock at once and nobody else writes then), `Load` and `Store` in
`CountThread`, and in `ShmSemCounter` one action per system call or memory
access (`Create`, `Attach`, `SetVal`, `Down`, `Load`, `Store`, `Up`). The kernel
side of the semaphore is modelled as it works: `Down` and `Up` move the
process's undo value, SETVAL clears the undo values of all processes, and the
end of a process (`Exit`) applies its undo value, never below zero. A blocked
semop that is interrupted ends the producer (`InterruptProducer`) but lets the
consumer in without the semaphore (`InterruptConsumer`), because it only prints
the error. `incs`, `ready` and `disturbed` are history. `disturbed` becomes TRUE
when a SETVAL finds a process inside and when a consumer enters without the
unit, and FALSE again by a SETVAL that finds nobody inside.
In `CatcMulti` a thread copies `d_info` (`Copy`) in a step of its own, as the 100
microseconds main sleeps are no guarantee; the mutex is held over no other
blocking call than the wait that releases it, so locking and waiting are one
step. A part of the array is "zero", "whole" or "other" instead of a sum.

**Echo servers.** A line is `LineLen` units and one unit `NUL` for the zeros
behind it, in a buffer of `MaxLine = LineLen + 1`. `read` takes any number of
units that have arrived (`Take`), to the front of the buffer (`ReadInto`), so a
buffer that is not cleared shows. `write(fd, buf, strlen(buf))` is
`Give(c, UpToNul(buf))`. In `EchoServerFork` a child is named by its client, and
`holders`/`listeners` say which processes have each connection and the
listening socket open: `Fork` copies everything the parent holds, an end of file
is seen only when `holders` is empty, and a new parent can bind only when
`listeners` is. In `EchoServerThread` a thread is named by the connection it was
made for; `fdtab` is the process's table, `reading` the connection that a
blocked `read` keeps open although its descriptor may be closed and reused, and
`write` looks the descriptor up anew. The assignment to `client_fd` by `accept`
happens before the thread copies it or after: `Start` is a step of its own.

**Chat servers.** Lines are counted: the *k*-th line a client says is the *k*-th
line read from it, and `[from, first, last]` is a message made of the lines one
`read` took. `said - heard` are unread lines, `Len(delivered) - seen` messages in
a connection, which holds `Room` of them. `ChatServerEpoll` keeps the batch of
events as a set (the kernel's order is any order) with the handlers of the
program: `Accept`, `Read`, `Drop`, then `send_msg` as a loop over `i` with one
action per outcome of a write (`SendWrite`, `SendLost`, `BrokenPipe`) because
clients read, leave and say more while it runs. The first write to a client that
has left makes its host send a reset (`reset`), the second raises SIGPIPE.
`user_fds`, the pool (`interest`), the udata (`user_data`) and the kernel's table
(`fdtab`) are four records that the handlers update one by one.
`ChatServerRts` has the queue of signals instead: `Raise` queues the descriptor
if it has an owner by then (`async`) and raises SIGIO, which ends the process,
when the queue is full. `Read` and `Drop` are chosen by what the descriptor
stands for when the signal is *taken*. `SetupListener` and `SetupConnection` are
steps of their own, so both of the program's set-up races are there. A
connection made between `listen` and `setup_sigio` (lines 68 to 72) raises no
signal, and as every later signal accepts only one connection, one stays in the
queue for ever: `NeverCaughtUp` says that the number of such connections never
falls, and grows only there or at the limit of descriptors. A line said between
`accept` and `setup_sigio` (lines 84 to 89) stays unnoticed until something else
happens: `NoForgottenLine` and `SetUpIsHeard` start with the set-up, and `early`
remembers which lines came before it.

The servers that are one process have a `pc` for where the loop is.
`EchoServerNonblocking` keeps the program's own array (`client_fd_array`) beside
the kernel's table, so that their agreement is a property; `cut` remembers
whether any read came short of MAXLINE. Linux takes a descriptor before it looks
at the queue, so with none free `accept` returns EMFILE even if nobody waits:
only with a free one can it end in the EAGAIN that leads on to the reads
(`AcceptSettled`). The `AcceptFails` of the other servers need no waiting
connection at the limit for the same reason. `EchoServerOob` has the pending
SIGURG as a variable, and the handler interrupts between any two steps of the
loop; no client of the repository sends an urgent byte, so `Urgent`, which sends
one, is an addition to the client. The notice of the byte may come ahead of it
(`UrgentByte`); then, or if the byte has been fetched, the handler's
`recv(MSG_OOB)`, whose result nobody looks at, fails (`Fetched`). `PipeEcho` counts lines, as nothing depends on their
words: the server's buffer, two fifos of `Capacity` lines, and `written`, which
accounts for them. `UdomainEcho` tells a question from a reply, as the client's
buffer holds either: `shown` says which of them was printed last as the server's
line. That `addrlen` is not initialised (lines 14 and 54) is a choice of `AcceptFails`.

**File server.** A file is a sequence of blocks `<<origin, position>>`, written
and sent block by block at each child's own offset `off`. Nothing truncates:
`Overlaid(old, new)` keeps the tail. `before` (the file when the child opened it)
and `overlap` (somebody else wrote to it since the child opened it) are history.
What a client sends after the server has closed is lost, which its first `send`
does not tell it (`Carried`); a `send` of the server that fails ends the download. The end of a
connection is the end of the file, whether its writer has finished or was
killed. `faults` counts failing calls and killed server processes.

**Single requests.** In `WebServer` each of the child's looks at the file system
is a step, between which `EditFiles` changes the length of a file or the file
behind a page. A page is a sequence of units, so that a request which is cut
within its page names another page, maybe one that exists. `stat` of a file that
has gone leaves whatever the stack holds, for which two lengths stand. How many
children the system allows is between `MinProc` and `MaxProc`, as others use it
too. `UdpCalculator` has bags of datagrams: `Lose` and `Duplicate` act on any of
them and are counted for the client concerned. An int has `2 * Half` values and wraps;
the one division that traps ends the server. `source`, the question `cal_result`
was computed for, is history. `TcpCalculator` computes with a byte of `Base`
values and does what `htonl`, `ntohs` and the assignment to a `short` do to
the four bytes; its clients are those of the UDP calculator, whose struct it
shares, as the repository has none. `served` is history.

**Alone.** `MySelect` has the fd_set in the three ways in which it is used: what
select is given, what it leaves, and what the loop sets again. What is behind
each descriptor is a constant: the run makes the three inherited ones a terminal.
`EchoClientAll` starts with any outcome of the name lookup, the interfaces and of
what can be reached. `IcmpCheck` has words of `Word` values; the sum
is a number, as a buffer of at most `Word` words cannot overflow a `long`.

**Left out of the modelled programs**: wording and printing, addresses and
ports, failures of the set-up calls before a server's loop and of `malloc` and
`pthread_create`, `sleep`s (a step may take any time anyway), partial writes of
a blocking socket (its room is counted in whole messages or blocks), messages
longer than a buffer, a second Unix domain server started while one runs, SIGPIPE
of the TCP calculator, what a chat client had sent and a reset of its own connection
threw away before the server read it, the end of a file in `myselect`, and the header's wording
in the web server.

## 4. Runs, bounds and what they show

The numbers of distinct states are TLC's.

| Run | Instance | States | Shows |
|---|---|---|---|
| `local` | one of eight programs: 3 workers and 5 increments; 3 racing workers and 3 rounds; 4 threads and 1 spurious wake-up; 2 clients, fifos of 3 lines, 1 stop; 3 clients, queue of 1, 2 descriptors, 1 stop; a terminal behind three descriptors and a fifo, 3 inputs each; 2 addresses, 3 interfaces; words of 16 values | 292 633 | `Inv` (mutual exclusion, the held copy stays fresh, no lost update), `MainMonotone`, `ImplementsAtomicCounter`, `MutexProgress`; `LossFloor`; `SumDecided`, `CatcFinishes`, `MissedForGood`; `LocalInv` (which line is where, what a client takes for an answer, why `myselect` waits, the first reachable address, that a checksum completes the sum), `PipeBlocks`, `UdomainEndsOrAnswers`, `SelectReads`; `HeaderVerifies` (the receiver's sum over the header alone) |
| `shm_sem` | 1 producer, 2 consumers; 3 increments, 2 SETVALs, 2 kills, 1 interruption | 622 768 | `Inv` (where the unit and the undo values are), `AtomicWhileUndisturbed`, `NeverOvercounts`, `NeverWedged`, `CountingGoesOn` |
| `echo_fork` | 3 clients, queue of 2, 2 descriptors, 2 failed forks, 2 kills or restarts | 203 681 | `Inv` (who holds which connection), `ImplementsEcho`, `ChildrenFinish` (connections are released, lines answered), `QueueDrains` |
| `echo_thread` | 3 clients, 2 descriptors, lines of 3 units, symmetric | 3 418 974 | `Inv` (without the race each connection has its own thread and its own answer; with it, too, nothing twice) |
| `echo_servers` | one of three programs: 3 clients, queue of 2, lines of 2 units; 3 descriptors for the polling one; 2 clients for the one with the urgent byte | 532 658 | `ServersInv` (whose bytes a buffer holds, when an echo is exact, when the handler runs), `IterativeImplementsEcho`, `IterativeAllServed`, `PollProgress`, `OobFirstOnly` |
| `chat_epoll` | 3 clients, 2 descriptors, room for 1 message, 2 lines of the first client and 1 of the others, 1 leaves, 1 interruption | 63 462 | `Inv` (`RegistriesAgree`, `NoStaleEvent`), `ImplementsChat`, `AllServedWhileUp` (every message reaches everybody, every line is read) |
| `chat_epoll_cut` | 2 clients | | violation of `AllReceive`, see section 7 |
| `chat_rts` | 2 clients, 2 descriptors, room for 1 message, 2 lines each, 1 leaves, 3 queued signals | 361 626 | `Inv` (`RegistriesAgree`, `NoForgottenLine`, `InOrder`), `SetUpIsHeard`, `NeverCaughtUp` |
| `chat_rts_signals` | 2 clients | | violation of `SignalMeansMessage`, see section 7 |
| `file_server` | 2 clients with any request; files of 1 block, of 3 blocks and missing; own files of 2 blocks; room for 1 block; 1 interrupted client, 1 fault | 496 234 | `Inv` (`InPlace`, `LoneUploadExact`, `WholeUpload`, `DownloadExact`), `EverythingEnds` |
| `file_upload_saved` | 1 client | | violation of `UploadIsSaved`, see section 7 |
| `requests` | one of three programs: 2 browsers, 2 pages of which one's name begins with the other's, 2 files of up to 2 blocks, 1 edit, 1 stop, 1 or 2 children; 2 clients, ints of 2 bits, 1 datagram lost and 1 doubled; 3 requests, bytes of 2 values | 910 759 | `RequestsInv` (what a page is made of, its promised length, which page a cut request names; whose answer is shown and what it is; what is computed with), `OrphansNeverServed`, `WebAnswered`, `UdpWaiting` |

Why the bounds are enough for the hazards they are for:

- *Counters.* A lost update needs two processes, an unlocked third one shows
  that the property is not about pairs. Two SETVALs and two kills allow a restart
  of the producer into the critical section, a kill of either of the two that are
  then inside, and the SETVAL that repairs it.
- *Broadcast.* Four threads let one be late for its index, one for the
  broadcast, one wake by accident and one do as meant.
- *Echo, fork.* A leaked connection needs a failed fork, a later child that
  inherits it, and the parent's failure at the limit; hence three clients, two
  descriptors and two failures. A line of one unit and its zeros is enough to cut
  it; the descriptor discipline does not look into lines.
- *Echo, thread.* Two descriptors and three clients make a descriptor be closed
  and reused while a thread still has it; three units of a line can be cut twice.
- *Echo, polling.* Of three descriptors the third client takes the last, after which
  nobody is read; before that two clients are served in one round. Two units make
  a cut line meet a stranger's in the buffer.
- *Echo, urgent byte.* A second client is enough to be left waiting.
- *Fifos.* Three lines fit into a fifo, so that both fill one after the other,
  with the server stopped in between and a line in its buffer.
- *Unix domain.* Two descriptors and three clients reach the limit; a queue of
  one makes `connect` wait.
- *Chat.* Two descriptors and three clients give a client that waits for a
  descriptor, a reused descriptor, and a full table. Room for one message makes
  every second write wait or fail. The second line of one client gives a second
  message after a departure (the write that raises SIGPIPE) and a read that takes
  two lines; the third queued signal is the one whose data an earlier read took. In `chat_rts`
  two clients never find all descriptors taken, so that what `NeverCaughtUp` says of
  the limit is proved (`CaughtUp`) and not reached by the run.
- *Files.* A file shorter than the client's grows, a longer one keeps its tail, a
  missing one ends the child. One block of room makes sender and receiver wait
  for each other.
- *Pages.* Two blocks are a length that an edit may increase or decrease; one
  edit is enough for each of the four looks to differ from the one before.
- *Calculators.* The UDP questions are a sum that wraps, the division that traps,
  one by zero and an unknown operation; one datagram doubled puts a client out of
  step, one lost makes it wait. The TCP requests have operands with and without an
  upper half, and three of them make the second and third client each inherit.
- *Checksum.* Words of 16 values and four that are sent make no, one and two
  carries; the theorems of section 6 are for any size.

`NamedInOrder` in the MC modules names the clients in the order in which
they connect. Before a client connects nothing in the state tells it from the
others, so every behaviour of the specification is, up to names, one of these;
unlike a symmetry set this is sound for liveness. In `MCRequests` it names
the browsers only. `FewLines` in `MCChatServerEpoll` is a bound. `SYMMETRY` is
used in `echo_thread` alone, which checks an invariant only. `CHECK_DEADLOCK FALSE`
is set where the bounded clients are all through in the end and the server waits
for more, as it should, or where a program of the run ends or may wait for ever.

## 5. Fairness

Fairness is weak and on steps the program takes by itself.

- Threads and processes are scheduled by the kernel: each runnable one moves in
  the end. A mutex or semaphore promises no particular waiter, so there is no
  strong fairness; `Progress` and `CountingGoesOn` say that *somebody* counts.
- Users owe nothing: connecting, typing, leaving, killing, stopping, editing files
  and starting are never fair. The exception is `EchoServerIterative`, where
  `AllServed` holds only if every user types or hangs up: that *is* the condition
  under which a server for one client at a time serves everybody, and it is
  stated as fairness of `Types`.
- A running chat client shows what arrives (its loop has nothing else to wait
  for) and a running file client goes on with its request. Both block only on the
  connection.
- A datagram that is neither lost nor refused arrives: the server's socket is a
  queue, so `Serve(c)` and `Show(c)` are fair for each client.
- Faults (failing calls, EINTR, kills, SIGPIPE, lost and doubled datagrams, spurious
  wake-ups) are never fair. Where two outcomes are possible, as for a write to a
  client that has left, the model does not force the bad one; a property that
  holds only if the server survives says so (`pc = "dead"`, `parent = "gone"`).

In the modules with `program` the fairness is that of each component's `Fairness`,
conjunct by conjunct, for the program that runs.

## 6. Proofs

All of them are checked by tlapm to the last leaf, for every value of the constants.

| Theorem | Module | States | Assumes |
|---|---|---|---|
| `Safety` | `LocalProofs` | `Spec => []Inv` of `CountThreadMutex` | `CounterAssumption`: `NoThread` is no worker, `MaxIncs` is a natural number |
| `UnlockedReadsMonotone` | `LocalProofs` | `Spec => MainMonotone` | the same |
| `Refinement` | `LocalProofs` | `Spec => ImplementsAtomicCounter` | the same |
| `Floor` | `LocalProofs` | `RaceSpec => []LossFloor` | `RaceAssumption`: there is a worker, `Rounds` is a natural number |
| `Decided` | `LocalProofs` | `CatcSpec => []SumDecided` | `CatcAssumption`: there is a thread, `MaxSpurious` is a natural number |
| `LateForGood` | `LocalProofs` | `CatcSpec => MissedForGood` | `CatcAssumption` |
| `FifoFullForGood` | `LocalProofs` | `PipeEcho`'s `Spec => FullForGood` | `LocalAssumption`: what the five modules assume, bounds that are numbers and model values that are distinct |
| `SocketEndsOnlyWhen` | `LocalProofs` | `UdomainEcho`'s `Spec => EndsOnlyWhen` | the same |
| `Complement` | `LocalProofs` | `Answer(s + Answer(s)) = 0` for sums up to `Word * (Word - 1)` | `IcmpAssumption`: `Word` is at least 2, a packet has at most `Word` words and at least those of the header, of which there are two or more; the checksum's and what is not sent are zero |
| `Completes` | `LocalProofs` | `IcmpCheck`'s `Spec => []Complete` | the same |
| `HeaderIntact` | `LocalProofs` | `IcmpCheck`'s `Spec => []HeaderVerifies` | `LocalAssumption` |
| `LocalSafety` | `LocalProofs` | the `Spec`s of `PipeEcho`, `UdomainEcho`, `MySelect`, `EchoClientAll` and `IcmpCheck` imply `[]LocalInv` | `LocalAssumption` |
| `Safety` | `ShmSemCounterProofs` | `Spec => []Inv` | `ShmAssumption`: no process is producer and consumer, bounds are natural numbers |
| `NoLoss` | `ShmSemCounterProofs` | `Spec => AtomicWhileUndisturbed` | the same |
| `NoOvercount` | `ShmSemCounterProofs` | `Spec => []NeverOvercounts` | the same |
| `NotWedged` | `ShmSemCounterProofs` | `Spec => []NeverWedged` | the same |
| `Safety` | `EchoProofs` | `Spec => []Inv` of `EchoServerFork` | `ClientAssumption`, `ForkAssumption`: a line and the queue have at least one place, `NUL` is no unit of a line, the parent no client, there is a descriptor |
| `Refinement` | `EchoProofs` | `Spec => ImplementsEcho` of `EchoServerFork` | the same |
| `ServersSafety` | `EchoProofs` | `EchoSpec => []ServersInv` | `ClientAssumption`, `EchoServersAssumption`: `NoClient` is no client, there is a descriptor |
| `IterativeRefinement` | `EchoProofs` | `EchoSpec => IterativeImplementsEcho` | the same |
| `PollingWedged` | `EchoProofs` | `EchoSpec => WedgedForGood` | the same |
| `OobServesOne` | `EchoProofs` | `EchoSpec => FirstOnly` | the same |
| `Safety` | `EchoServerThreadProofs` | `Spec => []Inv` | `ClientAssumption`, `ThreadAssumption`: `NoClient` is no client, there is a descriptor |
| `Safety` | `ChatServerEpollProofs` | `Spec => []Inv` | `ChatAssumption`, `EpollAssumption`: distinct model values, a queue, room and a descriptor |
| `Refinement` | `ChatServerEpollProofs` | `Spec => ImplementsChat` | the same |
| `Safety` | `ChatServerRtsProofs` | `Spec => []Inv` | `ChatAssumption`, `RtsAssumption`: a signal can be queued |
| `CaughtUp` | `ChatServerRtsProofs` | `Spec => NeverCaughtUp` | the same |
| `Safety` | `RequestProofs` | `Spec => []Inv` | `FileAssumption`, `ServerAssumption`: the server is no client, sizes, room and the queue are at least 1 |
| `RequestsSafety` | `RequestProofs` | `RequestsSpec => []RequestsInv` | `RequestsAssumption`: a page has a name, `NoFile` is no file, lengths, `MinProc` and `MaxProc` are at least 1; an int has values on both sides of 0; a byte has two values or more, and what the TCP calculator is asked are ints |
| `OrphansWait` | `RequestProofs` | `RequestsSpec => OrphansNeverServed` of `WebServer` | the same |
| `LostStays` | `RequestProofs` | `RequestsSpec => LostForGood` of `UdpCalculator` | the same |
| `Mixed` | `RequestProofs` | `ntohs(htonl(n)) = Upper(n)` for every int `n` | `TcpCalcAssumption` |

`Spec` is the specification of the component with its fairness, which no proof
uses. The assumptions ask of the constants only what the code's buffers and
tables have; sets of clients, threads and names may be of any size, empty or infinite
where nothing else is said.

**CountThreadMutex.** `NoLostUpdate` (`count = incs`) is not inductive: a store
writes `tmp`, so one needs `LoadStillFresh` (`tmp = count + 1` while a worker
sleeps). That is kept by the other workers' stores only because there are none:
`MutualExclusion`, an equivalence of being in the loop's body and owning the
mutex. The three together with the types are `Inv`, which is inductive.
`UnlockedReadsMonotone` adds that `shown` is at most `count`; it needs
`LoadStillFresh` again, as without it a store could make the counter smaller. The
refinement maps each `Store` to `Increment`, each `MainPrint` to `Observe` and the
rest to stutters; that a store is an increment is `LoadStillFresh`.

**CountThread.** The floor rests on `NeverBackToZero`: once somebody has stored,
the counter is at least 1, and a worker that has stored once holds at least 1
when it is about to store. So a worker's second store makes the counter at least
2. But a slow first store may set it back to 1, so 2 is only certain after
*everybody's* second store, which is what `LossBounded` says.

**CatcMulti.** `SumDecided` lacks what main's own loops know: which index is in
`d_info` and which threads have been started (`CatcOrder`). With that, a late copy can
only find a later index (`LateCopiesSkipAhead`), so part *p* is summed by thread
*p* or an earlier one; without spurious wake-ups nobody is past its wait before
the broadcast, which comes after the last part is filled (`BroadcastGuards`). If
main's sum is right, part by part, all threads joined have their own index: thread
0 alone can have index 0, then thread 1 alone index 1, and so on; the induction
over the parts is the one over main's joins. For `LateForGood` the same invariant says
that a missed broadcast finds main at its joins, which cannot pass the thread.

**IcmpCheck.** `Word` stays a symbol. A sum of at most `Word` words is at most
`Word * (Word - 1)`; this product and `SumBounded` are the only non-linear facts.
Such a sum folds to at most `2 * Word - 2`, so the second fold has a carry of 0 or
1 to add (`AnswerIs` is by these cases), and with the answer added the quotient
and remainder by `Word` make `Word - 1`, whose complement is zero. That the bound
is needed the run shows: `Dropped`, one fold, breaks it. `HeaderVerifies`, which
is about the header alone, needs the sum of any number of words as a function (`Sums`).
That this recursive function exists, and that a checksum put into the second word
adds to it what the checksum is (`SumsDefined`, `SumsDiffer`), is by induction over
the words, for which a set of numbers without a least missing one is all of them
(`Induction`, from the well-foundedness of `<`). `HeaderIInv` then says that what
has been added up is the sum of the words so far, and from the end of the header on
that of the header, as only zeros follow.

**ShmSemCounter.** `OneUnit` accounts for the only unit of the semaphore
including the kernel's undo values: `semval` is 1 exactly when somebody has set
it and nobody is inside, and the undo value of a process is 1 inside and 0
outside. It is stated for undisturbed states; the steps that disturb leave it
vacuous, and the step that ends the disturbance, a SETVAL that finds nobody
inside, establishes it from nothing. The lemma `ExitInv` shows once, for kills
and interruptions, that giving back the undo value keeps it. `NoLoss` then reads
the refinement off `LoadStillFresh`, like above, for steps between undisturbed
states. `NoOvercount` holds in disturbed states too: what a process holds is at
most `incs + 1` (`LocalsBounded`), as counter and stores only move together.

`NotWedged` is a balance (`Ledger`): what the semaphore shows and what the undo values
of processes say of it come to one unit at least, and a process outside never has one
to its credit. As sets of processes have no sum, the undo values are counted as
cardinalities: of the processes a taken unit is on record for, and of the units
given back by processes that had not taken them.

**PipeEcho.** `PipeIInv` is `Inv` itself: every line is in one of five places, and
the sum of the counts is `written`. `FullForGood` follows from the guards, since only
the last close of a fifo empties it.

**UdomainEcho.** What is on a connection is known by where its client is
(`Exchange`), and who is in the queue by where the server is (`Served`). The case
that matters for `EndsOnlyWhen` is a client that leaves by `quit`: it leaves no
question behind, so the server does not write to it, and a `BrokenPipe` needs a kill.

**MySelect.** `StuckOnlyIf` is about a loop over descriptors that share files. Of those
the loop has not come to, exactly those are set that select saw (`ReadInOrder`);
what can have emptied one of these since is a read of the same file by this round.

**EchoClientAll.** `Tries`: no address before `rp` can be reached, and at `rp` no
interface before `ifp` reaches it.

**EchoServerFork.** The descriptors need `Children`, that a connection has a child
only once the parent has forked for it. The refinement needs to know where each unit of
a line is, however TCP has cut it (`Streams`): what is still on the connection is the
rest of the line and its zeros; before a read the buffer is clean and all that was
read is answered; before a write the buffer holds the piece that is not. A piece
that is all zeros has `strlen` 0. That `UpToNul` stops where the piece ends needs the
least zero of a buffer, which exists by the well-foundedness of the order of the
natural numbers.

**EchoServerThread.** Until the race over `client_fd`, `OwnDescriptor` says that each
thread's copy is its own connection's descriptor; the rest is as for the processes
(`OwnAnswer`). After it, threads read and write connections that are not theirs,
and what is left is that nothing is multiplied: each unit that was read is in at
most one place, in a buffer or in an answer (`Once`), as every read moves units from a
connection and every write moves a buffer, and buffers are clean otherwise (`Clean`).

**The echo servers of one process.** The three share what is known of a connection
(`NetOK`). For the iterative server a connection nobody has accepted is untouched, and
the buffer has the beginning of one line, behind which old zeros are as good as
new ones (`IterativeIInv`). For the polling one the buffer holds units of this round's
connections only, and, as long as no line was cut, lines are whole on the
connection or read (`PollingIInv`), so a read overwrites all of the buffer.
`PollingWedged` says that without a free descriptor nobody is answered and nothing is
freed any more, whether anybody waits or not: the reads, which alone could close
one, are behind the loop that accepts (`ReadsBelowLimit`). For the third,
`OobServed` and `OobText` say how much of the line is in the buffer as long as no
piece was shorter than one before it: a shorter one leaves the tail of the longer.
The signal is pending only while the connection is open and for a byte that is
announced or has come and that nobody has asked for (`OobCalls`), whatever the
handler interrupts.

**ChatServerEpoll.** `RegistriesAgree` holds between handlers; within them
`Whereabouts` says which of the four records is ahead of which. `NoStaleEvent` needs
that a descriptor is closed by the handler of its own event only. The refinement
rests on `InStep`: while a message is sent the clients at descriptor `i` and above
still miss it, and every other connected client has the log from its arrival on. So
`SendWrite`, which writes the last message of the log, appends the one that is next.

**ChatServerRts.** The same two, with positions instead of lengths, as a full
connection loses messages (`InStep`); and `LogOK`, that the log's messages are
different lines, so that a position in the log is determined by a message.
`NoForgottenLine` is inductive with the types: the signal of a line stays behind the one that is being
handled, or is that one. `CaughtUp` needs `NoSpareSignal`: there are never more
signals of the listener than connections waiting, so that taking one of each keeps
the difference.

**FileServer.** Of each pair of a client and its child `Stage` says how far both have
come, and `UploadOK` and `DownloadOK` where each block is: in the connection, with
the child, in the file or saved, in order. `LoneUploadExact` follows with the file
as the child found it (`before`) as long as nobody else wrote; `BlocksInPlace`, which
needs no such condition, is preserved by every other child's writes too, as each writes
at its own offset and blocks carry their position. That children are forked once
for a connection is `Forked`.

**WebServer.** What a child knows depends on where it is (`Child`): before its answer
it has read a beginning of the page's name (`Asked`); between `stat` and `open` the
length it has announced is the page's as long as nobody has edited a file; while it
copies, that of the file it has open. From there `Got` follows, which is `Inv` for a
connection. A step of another process either leaves a connection alone or ends one that
waits (`ChildKept`), which is what happens to the backlog when the last process with the
listening socket ends (`ProcessesStep`). For `OrphansWait` it
matters that who waits has no child and has been sent nothing, and that somebody listens
as long as anybody waits (`WaitersHaveListener`): then no parent can start again, so that
nobody accepts, and only the end of the last child ends the wait. That somebody listens
after a failed fork needs `MinProc` to be at least 1.

**UdpCalculator.** `Accounted` is about the number of copies in a bag, whose elements are
`Copies`: a datagram and its number. So a sum over the bag is the cardinality of a set, and
putting a datagram into a bag or taking one out changes it by one (`BagGrows`,
`BagShrinks`). `Inv` says nothing of datagrams once the server has ended; `LostStays` needs
that there are never more than accounted for (`AtMost`). A client that had
nothing doubled has one datagram on its way at most, so it is about what was asked last
(`AboutAsked`).

**TcpCalculator.** `Mixed` is arithmetic with a symbol for the base: quotient and remainder
are unique (`QuotientUnique`), a quotient by a product is taken in two steps
(`QuotientTwice`), and so the two low bytes of an int turned round are its two high ones.
The rest is that `rdata` and `cal_result` are those of the last one served.

**Only model-checked:** all liveness properties (`MutexProgress`, `CountingGoesOn`,
`CatcFinishes`, `PipeBlocks`, `UdomainEndsOrAnswers`, `SelectReads`, `ChildrenFinish`,
`QueueDrains`, `IterativeAllServed`, `PollProgress`, `OobFirstOnly`, `AllServedWhileUp`,
`SetUpIsHeard`, `EverythingEnds`, `WebAnswered`, `UdpWaiting`), which need ENABLED and
are out of the prover's reach. Where one of them contains more than liveness
(`FullForGood`, `EndsOnlyWhen`, `WedgedForGood`, `FirstOnly`, `LostForGood`), that part
is proved. Every invariant that a run checks is proved.

## 7. Where the code and its comments disagree

- `17_epoll_siginfo/chat_cil/main.c:121` (run `chat_epoll_cut`). The comments say
  that the server sends a message to all clients connected at the moment (lines
  21 and 108). `write` to a client that has left raises SIGPIPE, which nobody
  handles: the process ends in the middle of the loop, and clients that stay
  never get a message that was read while they were connected. As long as the
  server lives they do: `AllServedWhileUp`.
- `17_epoll_siginfo/chat_server_rts/main.c:154` (run `chat_rts_signals`). The
  comment says that a signal of a connection makes `send_chat_msg` deliver its
  message (line 151). Two lines that one `read` takes have raised two signals; the
  read for the second one fails with EAGAIN, and `readn <= 0` closes the
  connection of a client that is there.
- `26_file_server/file_server/main.c:146` (run `file_upload_saved`). The comment
  says that what the client sends is saved as a file (line 144). `open` has no
  `O_CREAT`: if the server does not have the file yet, the child returns before it
  reads, nothing is saved, and the client, having sent all of it, returns 1.

Weak spots that the models contain and no comment denies; the properties are
stated around them and say where they end:

- the two set-up races of `chat_server_rts` (section 3);
- the leak of `client_fd` by a failed fork, and the port kept by the children of
  `echo_server_fork`; a failing fork ends the parent of
  `web_server`, and who waits then is never answered (`OrphansNeverServed`);
- the address of `client_fd` given to the threads of `echo_server_thread`, and
  that of `d_info` in `catc_multi`; its broadcast that nothing waits to be awaited;
- the consumer that enters without the semaphore;
- strangers' bytes from `echo_server_nonblocking` if TCP cuts a line, and its
  endless accept once the last descriptor is given away (`WedgedForGood`);
- `continue` for `break` in `echo_server_oob`: one client in a lifetime;
- the fifo that nobody reads, and the Unix domain server's descriptors;
- the header of `web_server` that promises a length the body may not have, and
  its cut requests;
- stale results of both calculators, `ntohs` for `ntohl` in `cal_server`, and the
  division that traps;
- `myselect`, which watches the keyboard from its second round on.

## 8. What is not modelled

| Part | Why |
|---|---|
| `13_Select/echo_server_multi` | a misplaced parenthesis passes `bind` the length 0, so the program ends before it serves anybody |
| `23_multi_cast/chat_multi_casting` | `read_fd` is assigned the result of a comparison, which is 0: `setsockopt` fails on the keyboard and the program ends before it sends or receives |
| `24_IPv6/getaddrinfo_test` | binds and listens on the addresses of a name in turn and waits; a stray semicolon makes any failing bind end it. No state beyond that |
| `19_rpc` | generated by rpcgen |
| `11_IPC/shm_producer`, `sharedmem` | one process that counts by two without a semaphore, one that reads once |
| `12_recv_send/echo_server_stdio`, `echo_server_formattedio`, `25_xinetd` | one client at a time, like the modelled iterative server; what is new is the buffering of stdio and inetd, which are the library's and the system's |
| `13_Select/prompt_timeout` | one wait with a timeout, and the end |
| `myshell`, `10_proc/command`, `exec_test`, `fork_test` | fork, exec and wait in sequence; at the end of its input `myshell` writes before its buffer, which has no defined behaviour to model |
| `21_raw_socket/packet_capture`, `6_Network_byte`, `7_IP_Address` | print or convert; no state of their own |
| `5_File_socket` and the resource examples | a few calls in sequence |
| `*/bin`, `*/obj`, `*.cbp`, `*.layout`, `*~` | built files, project files and backups |

## 9. Plan

The components are modelled, and what the runs check of their safety is proved. What is
left is liveness, which the prover cannot state, and the parts of section 8 should their code change.

## 10. Running the checks

    tlc -config MCLocal.cfg MCLocal
    tlapm LocalProofs.tla

The runs, with module and configuration, are listed in PROJECT.json; the longest
take two and a half minutes on two workers. The longest proofs, `EchoProofs` and
`RequestProofs`, take about seven minutes each, the others up to two.
