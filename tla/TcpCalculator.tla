---------------------------- MODULE TcpCalculator ----------------------------
(***************************************************************************)
(* 8_TCP/cal_server: accept, one read into a struct that is never cleared, *)
(* compute, write, close.  The repository has no client of it; clients     *)
(* send what calc_linux_cli of 9_UDP sends: the same struct, with htonl.   *)
(* The server converts with ntohs and keeps the result in a short.  A byte *)
(* has Base values; an int is the number its four bytes stand for, on a    *)
(* little-endian machine.                                                  *)
(***************************************************************************)
EXTENDS Integers, Sequences

CONSTANTS Request, \* what clients ask: <<left_num, right_num, op>>
          Base,
          MaxServed \* bound: clients served

\* The values of half an int, as of a short.
Word == Base * Base

TcpCalcAssumption ==
  /\ Base \in Nat \ {0, 1} /\ MaxServed \in Nat
  /\ \A q \in Request : {q[1], q[2]} \subseteq -((Word * Word) \div 2) .. (Word * Word) \div 2 - 1

VARIABLES rdata,      \* the struct: left_num, right_num, op
          cal_result,
          served      \* the clients so far: what each asked, how much of the
                      \* struct the read returned, and what it was sent

vars == <<rdata, cal_result, served>>

\* The bytes of an int, from the lowest: what each stands for, and their order
\* turned round.
Weight == <<1, Base, Word, Word * Base>>
Byte(n, k) == (n \div Weight[k]) % Base
htonl(n) == Byte(n, 1) * Weight[4] + Byte(n, 2) * Weight[3] + Byte(n, 3) * Weight[2] + Byte(n, 4)

\* Mutated form of ntohs: the other half of the int.
ntohsUpper(n) == Byte(n, 3) * Base + Byte(n, 4)

\* The argument is a uint16_t: the two low bytes of what is passed.
ntohs(n) == Byte(n, 1) * Base + Byte(n, 2)

Short(n) == ((n + Word \div 2) % Word) - Word \div 2

\* The struct on the wire.
Struct(q) == <<htonl(q[1]), htonl(q[2]), q[3]>>

\* rdata and cal_result are not initialised; here they are as after some request.
Init ==
  /\ rdata \in {Struct(q) : q \in Request} /\ cal_result \in {0, 1}
  /\ served = <<>>

\* read returns the first n members of the struct (it may end within one, too),
\* none if it fails or the client has gone; the others keep what they have.
Received(q, n) == [k \in 1..3 |-> IF k <= n THEN Struct(q)[k] ELSE rdata[k]]

\* The cases of the switch, for the converted operands.
Computes(l, op, r) == op \in {"+", "-", "*"} \/ (op = "/" /\ r # 0)
Value(l, op, r) ==
  CASE op = "+" -> l + r [] op = "-" -> l - r [] op = "*" -> l * r [] OTHER -> l \div r

\* One client.  The cases that set rdata.error leave cal_result alone, and
\* rdata.error is then overwritten with cal_result as well.
Serve(q, n) ==
  /\ Len(served) < MaxServed
  /\ rdata' = Received(q, n)
  /\ LET l == ntohs(rdata'[1])
         r == ntohs(rdata'[2])
         op == rdata'[3]
     IN  cal_result' = IF Computes(l, op, r) THEN Short(Value(l, op, r)) ELSE cal_result
  /\ served' = Append(served, [asked |-> q, read |-> n, data |-> rdata', result |-> cal_result'])

Next == \E q \in Request, n \in 0..3 : Serve(q, n)

Spec == Init /\ [][Next]_vars

-----------------------------------------------------------------------------
\* The upper half of an int, as an unsigned number, and what a question is
\* about if it is cut down to them.
Upper(n) == (n % (Word * Word)) \div Word
UpperQuestion(q) == <<Upper(q[1]), q[3], Upper(q[2])>>
Answerable(q) == LET u == UpperQuestion(q) IN Computes(u[1], u[2], u[3])
UpperResult(q) == LET u == UpperQuestion(q) IN Short(Value(u[1], u[2], u[3]))

\* Mixing htonl with ntohs makes the server compute with the upper halves of the
\* operands: whoever sends numbers below 2^16 is answered about 0 and 0.
UpperHalves ==
  \A s \in {served[k] : k \in DOMAIN served} :
    s.read = 3 /\ Answerable(s.asked) => s.result = UpperResult(s.asked)

\* Who asks what is not computed, an unknown operation or a divisor without an
\* upper half, is told what the client before it was told.  Who sends a part of
\* its struct is answered about the rest of the struct of the client before it.
FromThoseBefore ==
  \A k \in 2..Len(served) :
    /\ served[k].read = 3 /\ ~Answerable(served[k].asked)
         => served[k].result = served[k - 1].result
    /\ \A m \in served[k].read + 1 .. 3 : served[k].data[m] = served[k - 1].data[m]

Inv == UpperHalves /\ FromThoseBefore
=============================================================================
