----------------------------- MODULE CatcMulti -----------------------------
(***************************************************************************)
(* 14_Linux_Mulit_thread/catc_multi: main starts threads that wait for one *)
(* broadcast, fills an array, broadcasts, and adds up what each thread     *)
(* found in its part.  Every thread is handed the address of the same      *)
(* d_info, waits without a predicate, and nothing makes main wait for the  *)
(* threads to be waiting.  t_lock is never held across a blocking call     *)
(* other than pthread_cond_wait, which releases it, so lock-and-wait and   *)
(* wake-and-unlock are single steps.                                       *)
(***************************************************************************)
EXTENDS Integers

CONSTANTS Threads,     \* THREAD_NUM, also the number of parts of the array
          MaxSpurious  \* bound: wake-ups of pthread_cond_wait without a broadcast

CatcAssumption == Threads \in Nat \ {0} /\ MaxSpurious \in Nat

VARIABLES mpc,       \* main: "create", "fill", "join" or "done"
          i,         \* main's loop counter
          d_idx,     \* d_info.idx of main's d_info
          sum_right, \* main's sum is that of the parts joined so far
          tpc,        \* where each thread is
          idx,       \* d_info.idx of each thread's own d_info
          sum_array, \* what is in sum_array: 0, the sum of the part, or another value
          spurious   \* history: spurious wake-ups so far

catc_vars == <<mpc, i, d_idx, sum_right, tpc, idx, sum_array, spurious>>

Index == 0 .. Threads - 1

CatcInit ==
  /\ mpc = "create" /\ i = 0 /\ d_idx = 0 /\ sum_right = TRUE /\ spurious = 0
  /\ tpc = [t \in Index |-> "none"]
  /\ idx = [t \in Index |-> 0]
  /\ sum_array = [p \in Index |-> "zero"]

\* main's loops run over the indices and hand over to what follows.
Advance(next) == IF i + 1 = Threads THEN mpc' = next /\ i' = 0 ELSE i' = i + 1 /\ mpc' = mpc

\* Fill d_info for thread i, start the thread and sleep for 100 microseconds.
Create ==
  /\ mpc = "create"
  /\ d_idx' = i
  /\ tpc' = [tpc EXCEPT ![i] = "copy"]
  /\ Advance("fill")
  /\ UNCHANGED <<sum_right, idx, sum_array, spurious>>

\* Mutated form of Woken: pthread_cond_signal instead of the broadcast.
WokenOne == LET w == {t \in Index : tpc[t] = "wait"}
            IN  {t \in w : \A u \in w : t <= u}

\* The threads pthread_cond_broadcast wakes: those waiting now, and no others.
Woken == {t \in Index : tpc[t] = "wait"}

\* Fill part i of the array; after the last part, broadcast.
Fill ==
  /\ mpc = "fill"
  /\ Advance("join")
  /\ tpc' = IF i + 1 = Threads THEN [t \in Index |-> IF t \in Woken THEN "woken" ELSE tpc[t]] ELSE tpc
  /\ UNCHANGED <<d_idx, sum_right, idx, sum_array, spurious>>

\* Mutated form of Joinable: main does not wait for its threads.
NoJoin == TRUE

\* pthread_join returns once the thread has.
Joinable == tpc[i] = "done"

\* pthread_join of thread i and sum += sum_array[i]; then print the sum.
Join ==
  /\ mpc = "join" /\ Joinable
  /\ sum_right' = (sum_right /\ sum_array[i] = "whole")
  /\ Advance("done")
  /\ UNCHANGED <<d_idx, tpc, idx, sum_array, spurious>>

Main == Create \/ Fill \/ Join

\* Mutated form of Passed: the index is passed by value.
PassedByValue(t) == t

\* What a thread finds in the d_info it is given the address of.
Passed(t) == d_idx

Copy(t) ==
  /\ tpc[t] = "copy"
  /\ idx' = [idx EXCEPT ![t] = Passed(t)]
  /\ tpc' = [tpc EXCEPT ![t] = "lock"]
  /\ UNCHANGED <<mpc, i, d_idx, sum_right, sum_array, spurious>>

\* Mutated form of AfterLock: the thread does not wait for the broadcast.
NoWait == "woken"

\* What pthread_mutex_lock and pthread_cond_wait leave the thread in.
AfterLock == "wait"

Wait(t) ==
  /\ tpc[t] = "lock"
  /\ tpc' = [tpc EXCEPT ![t] = AfterLock]
  /\ UNCHANGED <<mpc, i, d_idx, sum_right, idx, sum_array, spurious>>

\* pthread_cond_wait may return without a broadcast; no loop tests for it.
WakeSpuriously(t) ==
  /\ tpc[t] = "wait" /\ spurious < MaxSpurious
  /\ spurious' = spurious + 1
  /\ tpc' = [tpc EXCEPT ![t] = "woken"]
  /\ UNCHANGED <<mpc, i, d_idx, sum_right, idx, sum_array>>

\* Has main filled part p?
Filled(p) == mpc \in {"join", "done"} \/ (mpc = "fill" /\ p < i)

\* Sum the part; before it is filled that is whatever malloc returned.
SumPart(t) ==
  /\ tpc[t] = "woken"
  /\ sum_array' = [sum_array EXCEPT ![idx[t]] = IF Filled(idx[t]) THEN "whole" ELSE "other"]
  /\ tpc' = [tpc EXCEPT ![t] = "done"]
  /\ UNCHANGED <<mpc, i, d_idx, sum_right, idx, spurious>>

ThreadStep(t) == Copy(t) \/ Wait(t) \/ SumPart(t)

CatcNext == Main \/ \E t \in Index : ThreadStep(t) \/ WakeSpuriously(t)

\* The kernel runs every runnable thread; it owes nobody a spurious wake-up.
CatcFairness == WF_catc_vars(Main) /\ \A t \in Index : WF_catc_vars(ThreadStep(t))

CatcSpec == CatcInit /\ [][CatcNext]_catc_vars /\ CatcFairness

-----------------------------------------------------------------------------
\* Types of the variables.
CatcTypeOK ==
  /\ mpc \in {"create", "fill", "join", "done"}
  /\ i \in Index /\ d_idx \in Index /\ sum_right \in BOOLEAN /\ spurious \in Nat
  /\ tpc \in [Index -> {"none", "copy", "lock", "wait", "woken", "done"}]
  /\ idx \in [Index -> Index]
  /\ sum_array \in [Index -> {"zero", "whole", "other"}]

\* Copied its d_info.
Copied(t) == tpc[t] \in {"lock", "wait", "woken", "done"}

\* A late copy only ever finds the index of a thread started later, so part p
\* is summed by thread p or by an earlier one.
LateCopiesSkipAhead ==
  /\ \A t \in Index : tpc[t] # "none" => t <= d_idx
  /\ \A t \in Index : Copied(t) => t <= idx[t]
  /\ \A p \in Index : sum_array[p] # "zero" => \E t \in Index : tpc[t] = "done" /\ idx[t] = p

\* Without spurious wake-ups nobody sums before the broadcast, and so nobody
\* sums a part main has not filled: the broadcast is the only hand-over.
BroadcastGuards ==
  spurious = 0 =>
    /\ mpc \in {"create", "fill"} => \A t \in Index : tpc[t] \notin {"woken", "done"}
    /\ \A p \in Index : sum_array[p] # "other"

\* The parts main has joined, all of them once it is done.
Joined(p) == mpc = "done" \/ (mpc = "join" /\ p < i)

\* main's sum stays right only if every thread joined so far had copied its own
\* index, and without spurious wake-ups that is all it takes: the sum printed is
\* wrong exactly when some thread was more than 100 microseconds late.
SumRightOnlyIfInTime ==
  /\ \A p \in Index : Joined(p) => tpc[p] = "done"
  /\ sum_right => \A p \in Index : Joined(p) => idx[p] = p
  /\ (spurious = 0 /\ \A p \in Index : Joined(p) => idx[p] = p) => sum_right

SumDecided == CatcTypeOK /\ LateCopiesSkipAhead /\ BroadcastGuards /\ SumRightOnlyIfInTime

\* If every thread has come to its wait by the time main broadcasts, main prints
\* its sum: nothing else holds a thread or main back.
FinishesIfAllWait ==
  (mpc = "fill" /\ i = Threads - 1 /\ \A t \in Index : tpc[t] \in {"wait", "woken", "done"})
    ~> mpc = "done"

\* Has thread t missed the only broadcast?
Missed(t) == mpc \in {"join", "done"} /\ tpc[t] \in {"copy", "lock", "wait"}

\* Who missed the broadcast is never woken again but by accident, and main with
\* it: no step takes a thread out of it, or main past it, without a spurious
\* wake-up.
MissedForGood ==
  [][\A t \in Index : (Missed(t) /\ spurious' = spurious) => (Missed(t)' /\ mpc' # "done")]_catc_vars
=============================================================================
