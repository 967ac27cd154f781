--------------------------- MODULE AtomicCounter ---------------------------
(***************************************************************************)
(* What a shared counter promises its users: increments take effect one    *)
(* after the other, none is lost, and an observer only ever sees a value   *)
(* the counter had at the moment it looked.                                *)
(***************************************************************************)
EXTENDS Naturals

VARIABLES value,  \* the counter
          done,   \* how many increments have been carried out
          shown   \* the value an observer printed last

vars == <<value, done, shown>>

Init == value = 0 /\ done = 0 /\ shown = 0

Increment == value' = value + 1 /\ done' = done + 1 /\ shown' = shown

Observe == shown' = value /\ UNCHANGED <<value, done>>

Spec == Init /\ [][Increment \/ Observe]_vars
=============================================================================
