----------------------------- MODULE CountThread -----------------------------
(***************************************************************************)
(* 14_Linux_Mulit_thread/count_thread: the counter of CountThreadMutex     *)
(* without the mutex.  *count = *count+1 is a load and a store, with other     *)
(* threads in between, so updates get lost.  How many can be lost, and how *)
(* far back the counter can fall, is what this module is about.  Its names *)
(* are not those of CountThreadMutex, so that one module can extend both.  *)
(***************************************************************************)
EXTENDS Naturals

CONSTANTS Racer, \* the MAX_THREAD workers
          Rounds \* bound: increments each worker makes

RaceAssumption == Racer # {} /\ Rounds \in Nat

VARIABLES r_count, \* main's int count
          r_tmp,   \* the register a worker has loaded the counter into
          r_pc,    \* is a worker about to load or to store?
          r_incs,  \* history: stores each worker has made
          r_shown  \* what main printed last

r_vars == <<r_count, r_tmp, r_pc, r_incs, r_shown>>

RaceInit ==
  /\ r_count = 0 /\ r_shown = 0
  /\ r_tmp = [t \in Racer |-> 0]
  /\ r_pc = [t \in Racer |-> "load"]
  /\ r_incs = [t \in Racer |-> 0]

\* Mutated form of Load: the counter is loaded once, before the loop.
LoadOnce(t) ==
  /\ r_pc[t] = "load" /\ r_incs[t] < Rounds
  /\ r_tmp' = IF r_incs[t] = 0 THEN [r_tmp EXCEPT ![t] = r_count] ELSE r_tmp
  /\ r_pc' = [r_pc EXCEPT ![t] = "store"]
  /\ UNCHANGED <<r_count, r_incs, r_shown>>

\* Print the counter, then load it.
Load(t) ==
  /\ r_pc[t] = "load" /\ r_incs[t] < Rounds
  /\ r_tmp' = [r_tmp EXCEPT ![t] = r_count]
  /\ r_pc' = [r_pc EXCEPT ![t] = "store"]
  /\ UNCHANGED <<r_count, r_incs, r_shown>>

\* Store the loaded value plus one, then sleep for a second.
RaceStore(t) ==
  /\ r_pc[t] = "store"
  /\ r_count' = r_tmp[t] + 1
  /\ r_incs' = [r_incs EXCEPT ![t] = @ + 1]
  /\ r_pc' = [r_pc EXCEPT ![t] = "load"]
  /\ UNCHANGED <<r_tmp, r_shown>>

\* The main thread prints the counter every two seconds.
RacePrint == r_shown' = r_count /\ UNCHANGED <<r_count, r_tmp, r_pc, r_incs>>

RaceNext == RacePrint \/ \E t \in Racer : Load(t) \/ RaceStore(t)

RaceSpec == RaceInit /\ [][RaceNext]_r_vars

-----------------------------------------------------------------------------
\* Types of the variables.
RaceTypeOK ==
  /\ r_count \in Nat /\ r_shown \in Nat
  /\ r_tmp \in [Racer -> Nat]
  /\ r_pc \in [Racer -> {"load", "store"}]
  /\ r_incs \in [Racer -> Nat]

\* The loss has a floor: once every worker has made two increments the counter
\* shows at least two, because the last one to store had, when it loaded, seen
\* the effect of its own first store or of a later one.  (With each worker's
\* first increment alone the counter may still show one.)
LossBounded == (\A t \in Racer : r_incs[t] >= 2) => r_count >= 2

\* What LossBounded rests on: a counter somebody has stored to is not zero, and
\* who has stored once never loads zero again.
NeverBackToZero ==
  /\ (\E t \in Racer : r_incs[t] >= 1) => r_count >= 1
  /\ \A t \in Racer : r_pc[t] = "store" /\ r_incs[t] >= 1 => r_tmp[t] >= 1

\* The inductive invariant of the racing counter.
LossFloor == RaceTypeOK /\ NeverBackToZero /\ LossBounded
=============================================================================
