------------------------------ MODULE IcmpCheck ------------------------------
(***************************************************************************)
(* 21_raw_socket/icmp_check: the checksum of an echo request.  in_cksum    *)
(* adds up the words of the buffer, of which only the first, the header,   *)
(* are sent, and folds the carries back in twice.  A last odd byte is a    *)
(* word like the others, whose second byte is zero.                        *)
(***************************************************************************)
EXTENDS Naturals, Sequences

CONSTANTS Word,   \* 2^16: the number of values of a u_short
          Packet, \* what the buffer may hold when in_cksum is called
          Sent    \* the words of the header

\* icmp_cksum, the second word, is zero, and so is all that is not sent.
IcmpAssumption ==
  /\ Word \in Nat /\ Word >= 2 /\ Sent \in Nat /\ 2 <= Sent
  /\ \A b \in Packet :
       /\ b \in Seq(0 .. Word - 1) /\ Sent <= Len(b) /\ Len(b) <= Word
       /\ b[2] = 0
       /\ \A k \in DOMAIN b : k > Sent => b[k] = 0

VARIABLES pc, buffer, p, sum
vars == <<pc, buffer, p, sum>>

Init == pc = "add" /\ buffer \in Packet /\ p = 0 /\ sum = 0

\* Mutated form of Carried: the carry of the first fold is dropped.
Dropped(s) == s

\* sum += sum >> 16
Carried(s) == s + (s \div Word)

\* sum = (sum >> 16) + (sum & 0xffff)
Folded(s) == (s \div Word) + (s % Word)

\* answer = ~sum, of which a u_short keeps the lower half.
Answer(s) == (Word - 1) - (Carried(Folded(s)) % Word)

Add ==
  /\ pc = "add" /\ p < Len(buffer)
  /\ p' = p + 1
  /\ sum' = sum + buffer[p + 1]
  /\ UNCHANGED <<pc, buffer>>

Send ==
  /\ pc = "add" /\ p = Len(buffer)
  /\ buffer' = [buffer EXCEPT ![2] = Answer(sum)]
  /\ pc' = "sent"
  /\ UNCHANGED <<p, sum>>

Next == Add \/ Send

Spec == Init /\ [][Next]_vars

-----------------------------------------------------------------------------
\* The checksum completes what was added up: two folds are enough for every
\* sum that a buffer can have, however many carries it makes.
Complete == pc = "sent" => Answer(sum + buffer[2]) = 0

\* What the words of b add up to, from the first to the n-th.
Sums(b) ==
  LET S[n \in 0 .. Len(b)] == IF n = 0 THEN 0 ELSE S[n - 1] + b[n]
  IN  S

\* Whoever receives the header alone finds it intact, although the checksum
\* was computed over all of the buffer.
Verifies == pc = "sent" => Answer(Sums(buffer)[Sent]) = 0
=============================================================================
