------------------------------- MODULE MCLocal -------------------------------
(***************************************************************************)
(* The programs of LocalPrograms, one at a time: `program' is chosen at    *)
(* the start, the variables of the others keep their initial values.  The  *)
(* clients of the socket connect in the order of their names: every        *)
(* behaviour is one of these, up to names.                                 *)
(***************************************************************************)
EXTENDS LocalPrograms

CONSTANTS t1, t2, t3,
          c1, c2, c3

VARIABLE program

MCThread == {t1, t2, t3}
MCPipeClient == {c1, c2}
MCUdomainClient == {c1, c2, c3}

\* The first three descriptors are a terminal.
MCFile == [fd \in 0..3 |-> IF fd = 3 THEN "fifo" ELSE "tty"]

MCAddresses == UNION {[1..n -> {"inet", "inet6"}] : n \in 0..2}
MCInterfaces == {<<"lo">>, <<"e1", "lo", "e2">>}

\* ICMP_ECHO and code 0, the checksum, the process id, 15, and two words that
\* are not sent.
MCPacket == {<<8, 0, id, 15, 0, 0>> : id \in 0 .. Word - 1}

p_vars == <<made, p_server, p_client, myfifo_r, myfifo_w, written, dropped, p_stops>>
u_vars == <<file, u_server, client_fd, used, backlog, u_client, conn, question, reply, u_shown, u_stops>>
s_vars == <<input, s_written, readfds, s_pc, s_i, again, seen>>
a_vars == <<result, ifaces, supported, up, a_pc, rp, ifp, sock_fd, connection>>
k_vars == <<k_pc, buffer, p, sum>>
threads == <<vars, r_vars, catc_vars>>
ipc == <<p_vars, u_vars>>
alone == <<s_vars, a_vars, k_vars>>

MCInit ==
  /\ program \in {"count_thread_mutex", "count_thread", "catc_multi", "pipe", "udomain",
                  "myselect", "echo_clint_all", "icmp_check"}
  /\ Init /\ RaceInit /\ CatcInit /\ Pipe!Init /\ Udomain!Init /\ Sel!Init
  /\ Icmp!Init /\ (program # "icmp_check" => buffer[3] = 0)
  /\ All!Init /\ (program # "echo_clint_all" => result = <<>> /\ ifaces = <<"lo">> /\ supported = {})

NamedInOrder ==
  /\ u_client'[c2] # "new" => u_client'[c1] # "new"
  /\ u_client'[c3] # "new" => u_client'[c2] # "new"

MCNext ==
  /\ UNCHANGED program
  /\ \/ program = "count_thread_mutex" /\ Next /\ UNCHANGED <<r_vars, catc_vars, ipc, alone>>
     \/ program = "count_thread" /\ RaceNext /\ UNCHANGED <<vars, catc_vars, ipc, alone>>
     \/ program = "catc_multi" /\ CatcNext /\ UNCHANGED <<vars, r_vars, ipc, alone>>
     \/ program = "pipe" /\ Pipe!Next /\ UNCHANGED <<threads, u_vars, alone>>
     \/ program = "udomain" /\ Udomain!Next /\ NamedInOrder /\ UNCHANGED <<threads, p_vars, alone>>
     \/ program = "myselect" /\ Sel!Next /\ UNCHANGED <<threads, ipc, a_vars, k_vars>>
     \/ program = "echo_clint_all" /\ All!Next /\ UNCHANGED <<threads, ipc, s_vars, k_vars>>
     \/ program = "icmp_check" /\ Icmp!Next /\ UNCHANGED <<threads, ipc, s_vars, a_vars>>

\* The fairness of each program, for the one that runs.
MCFairness ==
  /\ \A t \in Thread : WF_vars(program = "count_thread_mutex" /\ Worker(t))
  /\ WF_catc_vars(program = "catc_multi" /\ Main)
  /\ \A t \in Index : WF_catc_vars(program = "catc_multi" /\ ThreadStep(t))
  /\ WF_p_vars(program = "pipe" /\ Pipe!ServerStep)
  /\ \A c \in PipeClient : WF_p_vars(program = "pipe" /\ Pipe!ClientWrite(c))
  /\ WF_u_vars(program = "udomain" /\ Udomain!ServerStep)
  /\ \A c \in UdomainClient : WF_u_vars(program = "udomain" /\ Udomain!Read(c))
  /\ WF_s_vars(program = "myselect" /\ Sel!Run)

MCSpec == MCInit /\ [][MCNext]_<<program, threads, ipc, alone>> /\ MCFairness

-----------------------------------------------------------------------------
\* While it runs, the counter with the mutex advances.
MutexProgress == program = "count_thread_mutex" => Progress

\* catc_multi ends if all its threads wait when main broadcasts.
CatcFinishes == program = "catc_multi" => FinishesIfAllWait

\* A full fifo that nobody reads stays full; with room a write returns.
PipeBlocks == Pipe!FullForGood /\ (program = "pipe" => Pipe!PromptReturns)

\* What ends the Unix domain server: its limit of descriptors, or a client that
\* has gone.  Otherwise its clients are answered.
UdomainEndsOrAnswers ==
  /\ Udomain!EndsOnlyWhen
  /\ program = "udomain" => Udomain!EndsAtLimit /\ Udomain!Answered

\* All that is written is read, unless myselect waits for a single file.
SelectReads == program = "myselect" => Sel!AllRead
=============================================================================
