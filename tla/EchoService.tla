----------------------------- MODULE EchoService -----------------------------
(***************************************************************************)
(* What an echo server promises each client: what it sends back is, at any *)
(* moment, a beginning of the line the client asked with, and is never     *)
(* taken back.                                                             *)
(***************************************************************************)
EXTENDS Sequences, Naturals

CONSTANTS Client,  \* clients, each with one connection
          LineLen  \* units in a line

VARIABLES asked,  \* the line each client has sent, empty before
          answer  \* what has been sent back to it

Line(c) == [i \in 1..LineLen |-> <<c, i>>]

Init == asked = [c \in Client |-> <<>>] /\ answer = [c \in Client |-> <<>>]

Ask(c) ==
  /\ asked[c] = <<>>
  /\ asked' = [asked EXCEPT ![c] = Line(c)]
  /\ UNCHANGED answer

Answer(c) ==
  /\ \E n \in Len(answer[c]) + 1 .. Len(asked[c]) :
       answer' = [answer EXCEPT ![c] = SubSeq(asked[c], 1, n)]
  /\ UNCHANGED asked

Spec == Init /\ [][\E c \in Client : Ask(c) \/ Answer(c)]_<<asked, answer>>
=============================================================================
