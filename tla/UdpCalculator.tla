---------------------------- MODULE UdpCalculator ----------------------------
(***************************************************************************)
(* 9_UDP: calc_linux_cli sends a question and waits for one datagram;      *)
(* calc_linux_server answers each datagram it gets by filling in its       *)
(* result.  Neither has a timeout, a retry or a number that would match an *)
(* answer with its question, and the network may lose, duplicate and       *)
(* reorder.  An int has 2 * Half values.                                   *)
(***************************************************************************)
EXTENDS Integers, BagsExt, Bags, Functions, FiniteSets

CONSTANTS Client,
          Question, \* what users type: <<left_num, op, right_num>>
          Half,     \* ints from 0 up, and as many below 0
          MaxDups, MaxLosses \* bounds: what the network does

Least == -Half
Int_ == Least .. -Least - 1
Ops == {"+", "-", "*", "/"}

CalcAssumption ==
  /\ Half \in Nat \ {0} /\ MaxDups \in Nat /\ MaxLosses \in Nat
  /\ \A q \in Question : q[1] \in Int_ /\ q[3] \in Int_

VARIABLES client,     \* "typing" or "waiting"
          asked,      \* the question each client has asked last
          shown,      \* the line it has printed source, with the error it ignores
          questions,  \* datagrams on their way to the server
          answers,    \* and back
          cal_result, \* the server's variable
          source,     \* history: the question cal_result was computed for
          dead,       \* the server has ended
          dups, losses \* history, per client

vars == <<client, asked, shown, questions, answers, cal_result, source, dead, dups, losses>>

\* The network; its record of what it did to whose datagrams.
net == <<questions, answers>>
history == <<dups, losses>>

NoQuestion == <<0, "none", 0>>
NoLine == [q |-> NoQuestion, result |-> 0, error |-> 0, source |-> NoQuestion]

\* cal_result is not initialised: it may be any int.
Init ==
  /\ client = [c \in Client |-> "typing"]
  /\ asked = [c \in Client |-> NoQuestion] /\ shown = [c \in Client |-> NoLine]
  /\ questions = EmptyBag /\ answers = EmptyBag
  /\ cal_result \in Int_ /\ source = NoQuestion /\ dead = FALSE
  /\ dups = [c \in Client |-> 0] /\ losses = [c \in Client |-> 0]

\* The lower bits of an integer, as a signed one.
Wrap(n) == ((n - Least) % (2 * Half)) + Least

\* C division truncates towards zero.
Quotient(a, b) ==
  LET Abs(n) == IF n < 0 THEN -n ELSE n
      q == Abs(a) \div Abs(b)
  IN  IF (a < 0) = (b < 0) THEN q ELSE -q

ByZero(q) == q[2] = "/" /\ q[3] = 0

\* The least int divided by -1 has no int as result: the processor traps.
Traps(q) == q[2] = "/" /\ q[1] = Least /\ q[3] = -1

\* Mutated form of Computed: any other operation is taken for a division.
ComputedDefault(q) == ~ByZero(q)

\* Does the switch assign cal_result?
Computed(q) == q[2] \in Ops /\ ~ByZero(q)

Value(q) ==
  Wrap(CASE q[2] = "+" -> q[1] + q[3]
         [] q[2] = "-" -> q[1] - q[3]
         [] q[2] = "*" -> q[1] * q[3]
         [] OTHER      -> IF q[3] = 0 THEN 0 ELSE Quotient(q[1], q[3]))

-----------------------------------------------------------------------------
(* The client. *)

\* Type a line, send the question.  A line that sscanf cannot parse repeats the
\* operands of the one before, which is asking the same again; a number that is
\* too large for an int loses its upper bits, so any int may be asked.
Ask(c) ==
  /\ client[c] = "typing"
  /\ \E q \in Question :
       /\ asked' = [asked EXCEPT ![c] = q]
       /\ questions' = BagAdd(questions, [c |-> c, q |-> q])
  /\ client' = [client EXCEPT ![c] = "waiting"]
  /\ shown' = [shown EXCEPT ![c] = NoLine]
  /\ UNCHANGED <<answers, cal_result, source, dead, history>>

\* recvfrom returns whatever datagram comes first; print it.
Show(c) ==
  /\ client[c] = "waiting"
  /\ \E a \in BagToSet(answers) :
       /\ a.c = c
       /\ shown' = [shown EXCEPT ![c] = a.line]
       /\ answers' = BagRemove(answers, a)
  /\ client' = [client EXCEPT ![c] = "typing"]
  /\ UNCHANGED <<asked, questions, cal_result, source, dead, history>>

-----------------------------------------------------------------------------
(* The server. *)

\* rdata.error: the client sends 0, the server sets 2 and nothing else.
ErrorOf(q) == IF ByZero(q) THEN 2 ELSE 0

\* Mutated form of Received: the datagram is only peeked at.
Peeked(d) == questions

\* recvfrom takes the datagram off the socket ...
Received(d) == BagRemove(questions, d)

\* Mutated form of Replies: continue instead of break after the error.
RepliesToValid(q) == ~ByZero(q)

\* sendto follows whatever the switch did.
Replies(q) == TRUE

\* ... the switch computes, or leaves cal_result as it was, and sendto answers.
Answer(d) ==
  /\ ~dead /\ ~Traps(d.q)
  /\ cal_result' = IF Computed(d.q) THEN Value(d.q) ELSE cal_result
  /\ source' = IF Computed(d.q) THEN d.q ELSE source
  /\ questions' = Received(d)
  /\ LET line == [q |-> d.q, result |-> cal_result', error |-> ErrorOf(d.q), source |-> source']
     IN  answers' = IF Replies(d.q) THEN BagAdd(answers, [c |-> d.c, line |-> line]) ELSE answers
  /\ UNCHANGED <<client, asked, shown, dead, history>>

\* SIGFPE ends the server, and with its port the datagrams that come for it.
Trap(d) ==
  /\ ~dead /\ Traps(d.q)
  /\ dead' = TRUE
  /\ questions' = EmptyBag
  /\ UNCHANGED <<client, asked, shown, answers, cal_result, source, history>>

Serve(c) == \E d \in BagToSet(questions) : d.c = c /\ (Answer(d) \/ Trap(d))

-----------------------------------------------------------------------------
(* The network: which datagram of a bag is taken next is open as it is. *)

Lose ==
  /\ SumFunction(losses) < MaxLosses
  /\ \E d \in BagToSet(questions) \cup BagToSet(answers) :
       /\ questions' = BagRemove(questions, d) /\ answers' = BagRemove(answers, d)
       /\ losses' = [losses EXCEPT ![d.c] = @ + 1]
  /\ UNCHANGED <<client, asked, shown, cal_result, source, dead, dups>>

Duplicate ==
  /\ SumFunction(dups) < MaxDups
  /\ \/ \E d \in BagToSet(questions) :
          /\ questions' = BagAdd(questions, d) /\ UNCHANGED answers
          /\ dups' = [dups EXCEPT ![d.c] = @ + 1]
     \/ \E d \in BagToSet(answers) :
          /\ answers' = BagAdd(answers, d) /\ UNCHANGED questions
          /\ dups' = [dups EXCEPT ![d.c] = @ + 1]
  /\ UNCHANGED <<client, asked, shown, cal_result, source, dead, losses>>

\* After the server's death a question finds the port closed.
Refused ==
  /\ dead /\ questions # EmptyBag
  /\ questions' = EmptyBag
  /\ UNCHANGED <<client, asked, shown, answers, cal_result, source, dead, history>>

Next ==
  \/ Lose \/ Duplicate \/ Refused
  \/ \E c \in Client : Ask(c) \/ Show(c) \/ Serve(c)

\* The programs run and what is not lost arrives: the server's socket is a
\* queue, no datagram stays in it while others overtake it for ever.
Fairness == \A c \in Client : WF_vars(Serve(c)) /\ WF_vars(Show(c))

Spec == Init /\ [][Next]_vars /\ Fairness

-----------------------------------------------------------------------------
\* The datagrams on their way for client c: those of a bag, told apart by number.
Copies(bag, c) == UNION {{d} \X (1..bag[d]) : d \in {e \in BagToSet(bag) : e.c = c}}
InFlight(c) == Cardinality(Copies(questions, c)) + Cardinality(Copies(answers, c))

\* Types of the variables.
TypeOK ==
  /\ client \in [Client -> {"typing", "waiting"}]
  /\ IsABag(questions) /\ IsABag(answers)
  /\ cal_result \in Int_ /\ source \in Question \cup {NoQuestion} /\ dead \in BOOLEAN

\* Every question is answered once: what is on its way for a client is the
\* answer it waits for, plus what was duplicated, less what was lost.
Accounted ==
  ~dead => \A c \in Client :
    InFlight(c) = (IF client[c] = "waiting" THEN 1 ELSE 0) + dups[c] - losses[c]

\* Although nothing matches answers with questions, a client none of whose
\* datagrams was ever duplicated is shown the answer to what it asked.
InStep ==
  \A c \in Client : client[c] = "typing" /\ dups[c] = 0 => shown[c].q = asked[c]

Lines == {shown[c] : c \in Client} \cup {a.line : a \in BagToSet(answers)}
Valid(q) == q[2] \in Ops /\ ~ByZero(q)

\* What is shown: the value, as an int, of the very question it is shown with.  A
\* division by zero or an unknown operation shows what was last computed, for
\* whichever client, and only the former is reported, to a client that does not
\* look.
ResultsExplained ==
  \A l \in Lines :
    /\ l.source # NoQuestion => Valid(l.source) /\ l.result = Value(l.source)
    /\ l.source # l.q => ~Valid(l.q) /\ (ByZero(l.q) => l.error = 2)
    /\ l.error # 0 => ByZero(l.q)

Inv == TypeOK /\ Accounted /\ InStep /\ ResultsExplained

\* Who has lost more datagrams than were duplicated waits for ever: nothing in
\* either program sends again.
LostForGood ==
  [][\A c \in Client : losses[c] > dups[c] /\ client[c] = "waiting" => client'[c] = "waiting"]_vars

\* Otherwise every question is answered, those after a loss that a duplicate has
\* made up for included, unless somebody has the least integer divided by minus
\* one.
Answered ==
  \A c \in Client :
    client[c] = "waiting" ~> (client[c] = "typing" \/ losses[c] > dups[c] \/ dead)
=============================================================================
