----------------------------- MODULE ChatService -----------------------------
(***************************************************************************)
(* What a chat server promises: all messages form one log; a message is    *)
(* what one client has said since it was last heard; every client receives *)
(* the log from the message after its arrival on, in order, without gaps   *)
(* and without repetitions.                                                *)
(***************************************************************************)
EXTENDS Integers, Sequences

CONSTANT Client

VARIABLES log,      \* the messages, each from a client: its first .. last line
          heard,    \* lines of each client that are in the log
          joined,   \* how long the log was when a client arrived; -1 before
          delivered \* the messages sent to each client

vars == <<log, heard, joined, delivered>>

Init ==
  /\ log = <<>>
  /\ heard = [c \in Client |-> 0]
  /\ joined = [c \in Client |-> -1]
  /\ delivered = [c \in Client |-> <<>>]

Join(c) ==
  /\ joined[c] = -1
  /\ joined' = [joined EXCEPT ![c] = Len(log)]
  /\ UNCHANGED <<log, heard, delivered>>

Post(c) ==
  /\ joined[c] # -1
  /\ heard' \in {[heard EXCEPT ![c] = n] : n \in heard[c] + 1 .. heard'[c]}
  /\ log' = Append(log, [from |-> c, first |-> heard[c] + 1, last |-> heard'[c]])
  /\ UNCHANGED <<joined, delivered>>

Deliver(c) ==
  /\ joined[c] # -1 /\ joined[c] + Len(delivered[c]) < Len(log)
  /\ delivered' =
       [delivered EXCEPT ![c] = Append(@, log[joined[c] + Len(delivered[c]) + 1])]
  /\ UNCHANGED <<log, heard, joined>>

Spec == Init /\ [][\E c \in Client : Join(c) \/ Post(c) \/ Deliver(c)]_vars
=============================================================================
