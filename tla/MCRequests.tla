----------------------------- MODULE MCRequests -----------------------------
(***************************************************************************)
(* Two browsers, two clients of the UDP calculator, and up to three of the *)
(* TCP calculator.  The browsers are named in the order in which they      *)
(* connect: every behaviour is one of these, up to names.                  *)
(***************************************************************************)
EXTENDS Requests, Integers

CONSTANTS c1, c2, f1, f2

MCClient == {c1, c2}
MCInode == {f1, f2}
MCPage == {<<"a">>, <<"a", "b">>}

\* A sum that wraps at two bits, the division that traps, one by zero, and an
\* operation the server does not know.
MCUdpQuestion == {<<1, "+", 1>>, <<-2, "/", -1>>, <<1, "/", 0>>, <<-2, "?", 1>>}

\* Operands with and without an upper half, of four bits.
MCTcpRequest == {<<7, -5, "+">>, <<-8, 3, "/">>, <<5, 4, "*">>, <<2, 3, "+">>, <<1, 1, "?">>}

\* One page exists at first, of two blocks; the other may be made.  What a
\* program that does not run starts from makes no difference.
MCInit ==
  /\ RequestsInit
  /\ dir = [p \in Page |-> IF p = <<"a">> THEN f1 ELSE NoFile]
  /\ len = [f \in Inode |-> IF f = f1 THEN 2 ELSE 1]
  /\ program # "calc_linux" => cal_result = 0
  /\ program # "cal_server" => rdata = Tcp!Struct(<<2, 3, "+">>) /\ t_cal_result = 0

NamedInOrder == browser'[c2] # "new" => browser'[c1] # "new"

MCNext == RequestsNext /\ NamedInOrder

MCSpec == MCInit /\ [][MCNext]_requests /\ RequestsFairness
=============================================================================
