------------------------------ MODULE MySelect ------------------------------
(***************************************************************************)
(* 13_Select/myselect: prints what comes from one file; of its two         *)
(* arguments it opens the second only, and from the second round on it     *)
(* watches all lower descriptors too, since ReadLine sets them.  Several   *)
(* descriptors may be one file, as those of a terminal are.  What a read   *)
(* yields fills the buffer ("full") or does not ("short"); the end of a    *)
(* file is left out: the file is opened for writing too, so has none.      *)
(***************************************************************************)
EXTENDS Naturals, SequencesExt

CONSTANTS maxfd,   \* the descriptor opened; those below are inherited
          File,    \* what is behind each descriptor
          MaxInput \* bound: how often something is written to each file

SelectAssumption == maxfd \in Nat /\ DOMAIN File = 0..maxfd /\ MaxInput \in Nat

VARIABLES input,   \* what each file has ready, by reads
          written, \* how often each was written to
          readfds, \* what select is given, and what it leaves in it
          pc,      \* "select" or "read"
          i,       \* ReadLine's counter
          again,   \* the read before filled the buffer
          seen     \* history: what select left in readfds

vars == <<input, written, readfds, pc, i, again, seen>>

Files == Range(File)

Init ==
  /\ input = [f \in Files |-> <<>>] /\ written = [f \in Files |-> 0]
  /\ readfds = {maxfd} /\ pc = "select" /\ i = 0 /\ again = FALSE /\ seen = {}

Write(f) ==
  /\ written[f] < MaxInput
  /\ written' = [written EXCEPT ![f] = @ + 1]
  /\ \E size \in {"short", "full"} : input' = [input EXCEPT ![f] = Append(@, size)]
  /\ UNCHANGED <<readfds, pc, i, again, seen>>

Ready(fd) == input[File[fd]] # <<>>

\* select returns when something is ready and leaves only that in readfds.
Select ==
  /\ pc = "select" /\ \E fd \in readfds : Ready(fd)
  /\ readfds' = {fd \in readfds : Ready(fd)}
  /\ pc' = "read" /\ i' = 0 /\ seen' = readfds'
  /\ UNCHANGED <<input, written, again>>

\* The next descriptor, if there is one; each is in readfds again.
Advance ==
  /\ readfds' = readfds \cup {i}
  /\ i' = i + 1
  /\ pc' = IF i = maxfd THEN "select" ELSE "read"

\* Mutated form of Tested: the loop in ReadLine begins with what was opened.
TestedOpened == i \in readfds /\ i = maxfd

\* FD_ISSET(i, readfds)
Tested == i \in readfds

Skip ==
  /\ pc = "read" /\ ~Tested
  /\ Advance
  /\ UNCHANGED <<input, written, again, seen>>

\* read waits while there is nothing, and is repeated while it fills the buffer.
Read ==
  /\ pc = "read" /\ Tested /\ Ready(i)
  /\ input' = [input EXCEPT ![File[i]] = Tail(@)]
  /\ again' = (Head(input[File[i]]) = "full")
  /\ IF again' THEN UNCHANGED <<readfds, pc, i>> ELSE Advance
  /\ UNCHANGED <<written, seen>>

Run == Select \/ Skip \/ Read
Next == Run \/ \E f \in Files : Write(f)

\* The program runs; nobody need write.
Fairness == WF_vars(Run)

Spec == Init /\ [][Next]_vars /\ Fairness

-----------------------------------------------------------------------------
\* The program waits for one file whatever the others have.
Stuck == pc = "read" /\ Tested /\ ~Ready(i)

\* It does so only after a read that filled the buffer, or after another
\* descriptor of the same file has taken what select saw.
StuckOnlyIf ==
  Stuck => again \/ \E fd \in seen : fd < i /\ File[fd] = File[i]

Inv == StuckOnlyIf

\* Once all descriptors are watched, what is written is read in the end, unless
\* the program is stuck on a file that nothing more comes to.
AllRead ==
  readfds = 0..maxfd ~> Stuck \/ \A f \in Files : input[f] = <<>>
=============================================================================
