----------------------------- MODULE LocalProofs -----------------------------
(***************************************************************************)
(* Proofs about the programs of one machine, for any number of threads and *)
(* clients, any bound and any size of a word.                              *)
(*                                                                         *)
(* CountThreadMutex: Inv is inductive as it stands.  NoLostUpdate needs    *)
(* LoadStillFresh (what is stored is the counter plus one), which needs    *)
(* MutualExclusion (nobody else stores while a worker sleeps).             *)
(*                                                                         *)
(* CountThread: even without a mutex the loss of updates has a floor.      *)
(*                                                                         *)
(* CatcMulti: the broadcast stands for the filled array, and the order of  *)
(* creation limits which index a late thread can find in the one d_info.   *)
(*                                                                         *)
(* PipeEcho: each line is in one place.  UdomainEcho: by where a client is *)
(* one knows what is on its way over its connection.                       *)
(*                                                                         *)
(* MySelect: of the descriptors ReadLine has not come to, those set are    *)
(* the ones select has seen.  EchoClientAll: what has been tried.          *)
(*                                                                         *)
(* IcmpCheck: two folds are enough for a buffer of at most as many words   *)
(* as a word has values; the sum is that of the words so far, which stays  *)
(* the same beyond the header.                                             *)
(***************************************************************************)
EXTENDS LocalPrograms, QueueLemmas, WellFoundedInduction

(* CountThreadMutex *)

\* Inv holds in the initial state of the program.
LEMMA InitInv == Init => Inv
BY CounterAssumption
DEF Init, Inv, TypeOK, MutualExclusion, LoadStillFresh, NoLostUpdate, InLoopBody

\* Every step of the workers and of main preserves Inv.
LEMMA NextInv == Inv /\ [Next]_vars => Inv'
<1> SUFFICES ASSUME Inv, [Next]_vars PROVE Inv'
  OBVIOUS
<1> USE CounterAssumption
    DEF Inv, TypeOK, MutualExclusion, LoadStillFresh, NoLostUpdate, InLoopBody
<1>1. ASSUME NEW t \in Thread, LockAndLoad(t) PROVE Inv'
  <2>1. TypeOK'
    BY <1>1 DEF LockAndLoad, MutexFree
  <2>2. MutualExclusion'
    BY <1>1 DEF LockAndLoad, MutexFree
  <2>3. LoadStillFresh' /\ NoLostUpdate'
    BY <1>1 DEF LockAndLoad, MutexFree
  <2> QED
    BY <2>1, <2>2, <2>3
<1>2. ASSUME NEW t \in Thread, Store(t) PROVE Inv'
  <2>1. TypeOK'
    BY <1>2 DEF Store
  <2>2. MutualExclusion'
    BY <1>2 DEF Store
  <2>3. LoadStillFresh'
    \* No other worker is at its store: the mutex has one owner.
    BY <1>2 DEF Store
  <2>4. NoLostUpdate'
    BY <1>2 DEF Store
  <2> QED
    BY <2>1, <2>2, <2>3, <2>4
<1>3. ASSUME NEW t \in Thread, Unlock(t) PROVE Inv'
  BY <1>3 DEF Unlock, AfterUnlock
<1>4. CASE MainPrint
  BY <1>4 DEF MainPrint
<1>5. CASE UNCHANGED vars
  BY <1>5 DEF vars
<1> QED
  BY <1>1, <1>2, <1>3, <1>4, <1>5 DEF Next, Worker

\* The mutex excludes, the sleeping worker's copy stays fresh and no update is
\* lost, for every set of workers.
THEOREM Safety == Spec => []Inv
<1> QED
  BY InitInv, NextInv, PTL DEF Spec

\* The value main has printed is never ahead of the counter.
ShownBehind == shown \in Nat /\ shown <= count

\* main prints without the lock and still never sees the counter run backwards.
THEOREM UnlockedReadsMonotone == Spec => MainMonotone
<1>1. Init => ShownBehind
  BY DEF Init, ShownBehind
<1>2. Inv /\ ShownBehind /\ [Next]_vars => ShownBehind'
  <2> SUFFICES ASSUME Inv, ShownBehind, [Next]_vars PROVE ShownBehind'
    OBVIOUS
  <2> USE DEF Inv, TypeOK, LoadStillFresh, ShownBehind
  <2>1. ASSUME NEW t \in Thread, Worker(t) PROVE ShownBehind'
    BY <2>1 DEF Worker, LockAndLoad, Store, Unlock
  <2>2. CASE MainPrint
    BY <2>2 DEF MainPrint
  <2>3. CASE UNCHANGED vars
    BY <2>3 DEF vars
  <2> QED
    BY <2>1, <2>2, <2>3 DEF Next
<1>3. Inv /\ ShownBehind /\ [Next]_vars => [shown' >= shown]_shown
  BY DEF Inv, TypeOK, ShownBehind, Next, vars, Worker, LockAndLoad, Store, Unlock, MainPrint
<1> QED
  BY <1>1, <1>2, <1>3, Safety, PTL DEF Spec, MainMonotone

\* The program implements an atomic counter: only the store changes it, by one.
THEOREM Refinement == Spec => ImplementsAtomicCounter
<1>1. Init => Atomic!Init
  BY DEF Init, Atomic!Init
<1>2. Inv /\ [Next]_vars => [Atomic!Increment \/ Atomic!Observe]_(Atomic!vars)
  <2> SUFFICES ASSUME Inv, [Next]_vars
               PROVE [Atomic!Increment \/ Atomic!Observe]_(Atomic!vars)
    OBVIOUS
  <2>1. ASSUME NEW t \in Thread, LockAndLoad(t) PROVE UNCHANGED Atomic!vars
    BY <2>1 DEF LockAndLoad, Atomic!vars
  <2>2. ASSUME NEW t \in Thread, Store(t) PROVE Atomic!Increment
    BY <2>2 DEF Store, Inv, LoadStillFresh, Atomic!Increment
  <2>3. ASSUME NEW t \in Thread, Unlock(t) PROVE UNCHANGED Atomic!vars
    BY <2>3 DEF Unlock, Atomic!vars
  <2>4. CASE MainPrint
    BY <2>4 DEF MainPrint, Atomic!Observe
  <2>5. CASE UNCHANGED vars
    BY <2>5 DEF vars, Atomic!vars
  <2> QED
    BY <2>1, <2>2, <2>3, <2>4, <2>5 DEF Next, Worker
<1> QED
  BY <1>1, <1>2, Safety, PTL DEF Spec, ImplementsAtomicCounter, Atomic!Spec

-----------------------------------------------------------------------------
(* CountThread *)

\* Every step, the racing ones included, preserves LossFloor.
LEMMA NextFloor == ASSUME RaceAssumption, LossFloor, [RaceNext]_r_vars PROVE LossFloor'
<1> USE DEF RaceAssumption, LossFloor, RaceTypeOK
<1>1. ASSUME NEW t \in Racer, Load(t) PROVE LossFloor'
  \* Who has stored once finds a counter that is no longer zero.
  BY <1>1 DEF Load, NeverBackToZero, LossBounded
<1>2. ASSUME NEW t \in Racer, RaceStore(t) PROVE LossFloor'
  <2>1. RaceTypeOK' /\ r_count' >= 1
    BY <1>2 DEF RaceStore
  <2>2. NeverBackToZero'
    BY <1>2, <2>1 DEF RaceStore, NeverBackToZero
  <2>3. LossBounded'
    <3>1. SUFFICES ASSUME \A u \in Racer : r_incs'[u] >= 2 PROVE r_count' >= 2
      BY DEF LossBounded
    <3>2. r_incs[t] >= 1
      BY <3>1, <1>2 DEF RaceStore
    <3>3. r_tmp[t] >= 1
      BY <3>2, <1>2 DEF RaceStore, NeverBackToZero
    <3> QED
      BY <3>3, <1>2 DEF RaceStore
  <2> QED
    BY <2>1, <2>2, <2>3
<1>3. CASE RacePrint
  BY <1>3 DEF RacePrint, NeverBackToZero, LossBounded
<1>4. CASE UNCHANGED r_vars
  BY <1>4 DEF r_vars, NeverBackToZero, LossBounded
<1> QED
  BY <1>1, <1>2, <1>3, <1>4 DEF RaceNext

\* For every set of workers: the racing counter, once every worker has made two
\* increments, shows at least two, and it never falls back to zero.
THEOREM Floor == ASSUME RaceAssumption PROVE RaceSpec => []LossFloor
<1>1. RaceInit => LossFloor
  BY DEF RaceAssumption, RaceInit, LossFloor, RaceTypeOK, NeverBackToZero, LossBounded
<1> QED
  BY <1>1, NextFloor, PTL DEF RaceSpec

-----------------------------------------------------------------------------
(* CatcMulti *)

\* What SumDecided needs besides itself: d_idx is the last index handed out, the
\* threads created are those below it, main's sum is that of no part before it
\* joins, and who is done has left something in its part.
CatcOrder ==
  /\ mpc = "create" => \A t \in Index : tpc[t] # "none" <=> t < i
  /\ mpc # "create" => \A t \in Index : tpc[t] # "none"
  /\ mpc = "create" => i = 0 \/ d_idx = i - 1
  /\ mpc # "create" => d_idx = Threads - 1
  /\ mpc \in {"create", "fill"} => sum_right
  /\ \A t \in Index : tpc[t] = "done" => sum_array[idx[t]] # "zero"

CatcIInv == SumDecided /\ CatcOrder

\* The parts of CatcIInv hold when main starts.
LEMMA CatcInitIInv == ASSUME CatcAssumption, CatcInit PROVE CatcIInv
BY DEF CatcAssumption, CatcInit, CatcIInv, SumDecided, CatcTypeOK, LateCopiesSkipAhead, BroadcastGuards,
       SumRightOnlyIfInTime, CatcOrder, Index, Copied, Joined

\* Every step of main and of the threads preserves CatcIInv.
LEMMA CatcNextIInv == ASSUME CatcAssumption, CatcIInv, [CatcNext]_catc_vars PROVE CatcIInv'
<1> USE DEF CatcAssumption, CatcIInv, SumDecided, CatcTypeOK, Index
<1> USE DEF LateCopiesSkipAhead, BroadcastGuards, SumRightOnlyIfInTime, CatcOrder, Copied, Joined
<1>1. CASE Create
  <2>1. CatcTypeOK'
    BY SMTT(30), <1>1 DEF Create, Advance
  <2>2. LateCopiesSkipAhead'
    BY SMTT(30), <1>1 DEF Create, Advance
  <2>3. BroadcastGuards'
    BY <1>1 DEF Create, Advance
  <2>4. SumRightOnlyIfInTime'
    BY <1>1 DEF Create, Advance
  <2>5. CatcOrder'
    <3>1. tpc[i] = "none"
      BY <1>1 DEF Create
    <3>2. CASE i + 1 = Threads
      BY <1>1, <3>1, <3>2 DEF Create, Advance
    <3>3. CASE i + 1 # Threads
      <4>1. mpc' = "create" /\ i' = i + 1 /\ d_idx' = i /\ tpc' = [tpc EXCEPT ![i] = "copy"]
        BY <1>1, <3>3 DEF Create, Advance
      <4>2. \A t \in Index : tpc'[t] # "none" <=> t < i'
        BY <1>1, <4>1 DEF Create
      <4>3. \A t \in Index : tpc'[t] = "done" => sum_array'[idx'[t]] # "zero"
        BY <1>1, <4>1 DEF Create
      <4> QED
        BY <1>1, <4>1, <4>2, <4>3 DEF Create
    <3> QED
      BY <3>2, <3>3
  <2> QED
    BY <2>1, <2>2, <2>3, <2>4, <2>5
<1>2. CASE Fill
  <2>1. CatcTypeOK'
    BY SMTT(30), <1>2 DEF Fill, Advance, Woken
  <2>2. LateCopiesSkipAhead'
    BY <1>2 DEF Fill, Advance, Woken
  <2>3. BroadcastGuards'
    BY <1>2 DEF Fill, Advance, Woken
  <2>4. SumRightOnlyIfInTime'
    <3>1. CASE i + 1 = Threads
      BY <1>2, <3>1 DEF Fill, Advance, Woken
    <3>2. CASE i + 1 # Threads
      BY <1>2, <3>2 DEF Fill, Advance, Woken
    <3> QED
      BY <3>1, <3>2
  <2>5. CatcOrder'
    BY <1>2 DEF Fill, Advance, Woken
  <2> QED
    BY <2>1, <2>2, <2>3, <2>4, <2>5
<1>3. CASE Join
  <2>1. CatcTypeOK'
    <3>1. mpc' \in {"join", "done"} /\ i' \in Index
      <4>1. CASE i + 1 = Threads
        BY <1>3, <4>1 DEF Join, Joinable, Advance
      <4>2. CASE i + 1 # Threads
        BY <1>3, <4>2 DEF Join, Joinable, Advance
      <4> QED
        BY <4>1, <4>2
    <3> QED
      BY <1>3, <3>1 DEF Join, Joinable
  <2>2. LateCopiesSkipAhead'
    <3>1. CASE i + 1 = Threads
      BY <1>3, <3>1 DEF Join, Joinable, Advance
    <3>2. CASE i + 1 # Threads
      BY <1>3, <3>2 DEF Join, Joinable, Advance
    <3> QED
      BY <3>1, <3>2
  <2>3. BroadcastGuards'
    BY <1>3 DEF Join, Joinable, Advance
  <2>4. SumRightOnlyIfInTime'
    <3>1. \A k \in Index : Joined(k)' <=> Joined(k) \/ k = i
      <4>1. CASE i + 1 = Threads
        BY <1>3, <4>1 DEF Join, Joinable, Advance
      <4>2. CASE i + 1 # Threads
        <5>1. mpc = "join" /\ mpc' = "join" /\ i' = i + 1
          BY <1>3, <4>2 DEF Join, Joinable, Advance
        <5> QED
          BY <5>1
      <4> QED
        BY <4>1, <4>2
    <3>2. sum_right' = (sum_right /\ sum_array[i] = "whole")
      BY <1>3 DEF Join, Joinable
    \* Part i was summed by thread i or an earlier one; the earlier ones are
    \* joined, and if each of them took its own part only thread i is left.
    <3>3. sum_right' => idx[i] = i
      <4> SUFFICES ASSUME sum_right' PROVE idx[i] = i
        OBVIOUS
      <4>1. PICK t \in Index : tpc[t] = "done" /\ idx[t] = i
        BY <3>2
      <4>2. t <= i
        BY <4>1
      <4>3. t < i => idx[t] = t
        BY <1>3, <3>2 DEF Join, Joinable
      <4> QED
        BY <4>1, <4>2, <4>3
    <3>4. spurious = 0 /\ idx[i] = i => sum_array[i] = "whole"
      BY <1>3 DEF Join, Joinable
    <3>5. UNCHANGED <<tpc, idx, spurious>>
      BY <1>3 DEF Join, Joinable
    <3>6. tpc[i] = "done"
      BY <1>3 DEF Join, Joinable
    <3> HIDE DEF Joined
    <3> QED
      BY <3>1, <3>2, <3>3, <3>4, <3>5, <3>6
  <2>5. CatcOrder'
    <3>1. UNCHANGED <<d_idx, tpc, idx, sum_array>> /\ mpc = "join" /\ mpc' \in {"join", "done"}
      BY <1>3 DEF Join, Advance
    <3>2. CatcOrder
      OBVIOUS
    <3>3. /\ d_idx = Threads - 1 /\ mpc' # "create" /\ mpc' # "fill"
          /\ \A t \in Index : tpc[t] # "none" /\ (tpc[t] = "done" => sum_array[idx[t]] # "zero")
      BY ONLY <3>1, <3>2 DEF CatcOrder
    <3> QED
      BY ONLY <3>1, <3>3 DEF CatcOrder, Index
  <2> QED
    BY <2>1, <2>2, <2>3, <2>4, <2>5
<1>4. ASSUME NEW t \in Index, Copy(t) PROVE CatcIInv'
  <2>1. CatcTypeOK'
    BY <1>4 DEF Copy, Passed
  <2>2. LateCopiesSkipAhead'
    BY <1>4 DEF Copy, Passed
  <2>3. BroadcastGuards'
    BY <1>4 DEF Copy, Passed
  <2>4. SumRightOnlyIfInTime'
    \* t is not joined: a joined thread is done.
    <3>1. \A k \in Index : Joined(k)' <=> Joined(k)
      BY <1>4 DEF Copy
    <3>2. \A k \in Index : Joined(k) => k # t /\ idx'[k] = idx[k] /\ tpc'[k] = tpc[k]
      BY SMTT(60), <1>4 DEF Copy
    <3> QED
      BY <1>4, <3>1, <3>2 DEF Copy
  <2>5. CatcOrder'
    BY SMTT(60), <1>4 DEF Copy, Passed
  <2> QED
    BY <2>1, <2>2, <2>3, <2>4, <2>5
<1>5. ASSUME NEW t \in Index, Wait(t) PROVE CatcIInv'
  BY SMTT(60), <1>5 DEF Wait, AfterLock
<1>6. ASSUME NEW t \in Index, WakeSpuriously(t) PROVE CatcIInv'
  BY SMTT(60), <1>6 DEF WakeSpuriously
<1>7. ASSUME NEW t \in Index, SumPart(t) PROVE CatcIInv'
  <2>1. CatcTypeOK'
    BY <1>7 DEF SumPart, Filled
  <2>2. LateCopiesSkipAhead'
    BY SMTT(60), <1>7 DEF SumPart, Filled
  <2>3. BroadcastGuards'
    BY <1>7 DEF SumPart, Filled
  <2>4. SumRightOnlyIfInTime'
    BY <1>7 DEF SumPart, Filled
  <2>5. CatcOrder'
    BY SMTT(60), <1>7 DEF SumPart, Filled
  <2> QED
    BY <2>1, <2>2, <2>3, <2>4, <2>5
<1>8. CASE UNCHANGED catc_vars
  BY <1>8 DEF catc_vars
<1> QED
  BY <1>1, <1>2, <1>3, <1>4, <1>5, <1>6, <1>7, <1>8 DEF CatcNext, Main, ThreadStep

\* Whatever the threads interleave with: a late copy skips ahead, the broadcast
\* guards the array, and the printed sum is right only if every thread copied
\* its index in time.
THEOREM Decided == ASSUME CatcAssumption PROVE CatcSpec => []SumDecided
<1>1. CatcInit => CatcIInv
  BY CatcInitIInv
<1>2. CatcIInv /\ [CatcNext]_catc_vars => CatcIInv'
  BY CatcNextIInv
<1>3. CatcIInv => SumDecided
  BY DEF CatcIInv
<1> QED
  BY <1>1, <1>2, <1>3, PTL DEF CatcSpec

\* Who missed the broadcast stays where it is and keeps main from its end: main is
\* done only when every thread is.
THEOREM LateForGood == ASSUME CatcAssumption PROVE CatcSpec => MissedForGood
<1>1. ASSUME CatcIInv, [CatcNext]_catc_vars, NEW t \in Index, Missed(t), spurious' = spurious
      PROVE Missed(t)' /\ mpc' # "done"
  <2> USE DEF CatcAssumption, CatcIInv, SumDecided, CatcTypeOK, Index, SumRightOnlyIfInTime, Joined
  <2>1. mpc = "join" /\ tpc[t] \in {"copy", "lock", "wait"} /\ i < Threads
    BY <1>1 DEF Missed
  <2>2. CASE Join
    <3>1. i # t /\ tpc' = tpc
      BY <2>1, <2>2 DEF Join, Joinable
    <3>2. ~(t < i)
      BY <1>1, <2>1
    <3>3. i + 1 # Threads
      <4>1. t \in Nat /\ i \in Nat /\ t < Threads /\ Threads \in Nat
        BY <1>1
      <4> QED
        BY <3>1, <3>2, <4>1
    <3> QED
      BY <1>1, <2>1, <2>2, <3>1, <3>3 DEF Join, Advance, Missed
  <2>3. ASSUME NEW u \in Index, Copy(u) \/ Wait(u) \/ SumPart(u) PROVE Missed(t)' /\ mpc' # "done"
    BY <1>1, <2>1, <2>3 DEF Copy, Wait, AfterLock, SumPart, Missed
  <2>4. CASE UNCHANGED catc_vars
    BY <1>1, <2>1, <2>4 DEF catc_vars, Missed
  <2>5. ASSUME NEW u \in Index, WakeSpuriously(u) PROVE FALSE
    BY <1>1, <2>5 DEF WakeSpuriously
  <2>6. ~Create /\ ~Fill
    BY <2>1 DEF Create, Fill
  <2> QED
    BY <1>1, <2>2, <2>3, <2>4, <2>5, <2>6 DEF CatcNext, Main, ThreadStep
<1>2. CatcIInv /\ [CatcNext]_catc_vars =>
        [\A t \in Index : (Missed(t) /\ spurious' = spurious) => (Missed(t)' /\ mpc' # "done")]_catc_vars
  BY <1>1
<1>3. CatcInit => CatcIInv
  BY CatcInitIInv
<1>4. CatcIInv /\ [CatcNext]_catc_vars => CatcIInv'
  BY CatcNextIInv
<1> QED
  BY <1>2, <1>3, <1>4, PTL DEF CatcSpec, MissedForGood

-----------------------------------------------------------------------------
(* PipeEcho *)

\* The bound of the history `dropped' is a number.
PipeIInv == Pipe!Inv /\ p_stops \in Nat

\* Every step of the server, of a client and of who stops them preserves it.
LEMMA PipeNextIInv == ASSUME PipeIInv, [Pipe!Next]_(Pipe!vars) PROVE PipeIInv'
<1> USE LocalAssumption DEF LocalAssumption, Pipe!PipeAssumption, PipeIInv, Pipe!Inv, Pipe!TypeOK, Pipe!LinesAccounted
<1>1. CASE Pipe!StartServer
  BY <1>1 DEF Pipe!StartServer
<1>2. ASSUME NEW c \in PipeClient, Pipe!StartClient(c) \/ Pipe!Type(c) PROVE PipeIInv'
  BY <1>2 DEF Pipe!StartClient, Pipe!Type
\* The line joins those in the fifo; a fifo that has room has room for it.
<1>3. ASSUME NEW c \in PipeClient, Pipe!ClientWrite(c) PROVE PipeIInv'
  BY <1>3 DEF Pipe!ClientWrite, Pipe!Unread
\* Closed by all, the fifos are empty and the history starts anew.
<1>4. ASSUME NEW c \in PipeClient, Pipe!Quit(c) PROVE PipeIInv'
  BY <1>4 DEF Pipe!Quit, Pipe!Closing, Pipe!Running
\* The line moves from the fifo into the buffer, from there into the other fifo,
\* or is dropped with the server.
<1>5. CASE Pipe!ServerStep
  BY <1>5 DEF Pipe!ServerStep, Pipe!ServerRead, Pipe!ServerWrite, Pipe!Readable
<1>6. CASE Pipe!StopServer
  BY <1>6 DEF Pipe!StopServer, Pipe!Closing
<1>7. CASE UNCHANGED Pipe!vars
  BY <1>7 DEF Pipe!vars
<1> QED
  BY <1>1, <1>2, <1>3, <1>4, <1>5, <1>6, <1>7 DEF Pipe!Next

\* Every line written over the fifos is accounted for, so two fifos and a buffer
\* are all that clients can write.
LEMMA PipeInvariant == Pipe!Spec => []PipeIInv
<1>1. Pipe!Init => PipeIInv
  <2>1. Capacity \in Nat /\ Capacity >= 1
    BY LocalAssumption DEF LocalAssumption, Pipe!PipeAssumption
  <2>2. Pipe!Init => Pipe!TypeOK /\ p_stops \in Nat
    <3>1. Pipe!Init => made \in BOOLEAN
      BY DEF Pipe!Init
    <3>2. Pipe!Init => p_client \in [PipeClient -> {"none", "typing", "write"}]
      BY DEF Pipe!Init
    <3> QED
      BY <2>1, <3>1, <3>2 DEF Pipe!Init, Pipe!TypeOK
  <2>3. Pipe!Init => Pipe!LinesAccounted
    BY <2>1 DEF Pipe!Init, Pipe!LinesAccounted
  <2> QED
    BY <2>2, <2>3 DEF PipeIInv, Pipe!Inv
<1>2. PipeIInv /\ [Pipe!Next]_(Pipe!vars) => PipeIInv'
  BY PipeNextIInv
<1> QED
  BY <1>1, <1>2, PTL DEF Pipe!Spec

\* Nothing takes a line out of myfifo_w but the last process that closes it.
THEOREM FifoFullForGood == Pipe!Spec => Pipe!FullForGood
<1>1. ASSUME PipeIInv, [Pipe!Next]_(Pipe!vars), myfifo_w = Capacity
      PROVE  myfifo_w' = Capacity \/ (p_server' = "down" /\ Pipe!Running' = {})
  <2> USE <1>1 DEF PipeIInv, Pipe!Inv, Pipe!TypeOK
  <2>1. ASSUME NEW c \in PipeClient, Pipe!Quit(c)
        PROVE  myfifo_w' = Capacity \/ (p_server' = "down" /\ Pipe!Running' = {})
    BY <2>1 DEF Pipe!Quit, Pipe!Closing, Pipe!Running
  <2>2. CASE Pipe!StopServer
    BY <2>2 DEF Pipe!StopServer, Pipe!Closing, Pipe!Running
  <2>3. CASE Pipe!StartServer \/ Pipe!ServerStep \/ UNCHANGED Pipe!vars
    BY <2>3 DEF Pipe!StartServer, Pipe!ServerStep, Pipe!ServerRead, Pipe!ServerWrite, Pipe!vars
  <2>4. ASSUME NEW c \in PipeClient, Pipe!StartClient(c) \/ Pipe!Type(c) \/ Pipe!ClientWrite(c)
        PROVE  myfifo_w' = Capacity
    BY <2>4 DEF Pipe!StartClient, Pipe!Type, Pipe!ClientWrite, Pipe!Unread
  <2> QED
    BY <2>1, <2>2, <2>3, <2>4 DEF Pipe!Next
<1> QED
  BY <1>1, PipeInvariant, PTL DEF Pipe!Spec, Pipe!FullForGood

-----------------------------------------------------------------------------
(* UdomainEcho *)

\* What each client has said and heard over its connection, by where it is: who
\* has not connected has nothing; a question is out only while its client waits
\* or after the server's end, and who types has read the reply; nobody leaves
\* by `quit' in the middle of a conversation.
Exchange ==
  /\ question \in [UdomainClient -> BOOLEAN] /\ reply \in [UdomainClient -> BOOLEAN]
  /\ \A c \in UdomainClient :
       /\ u_client[c] = "new" => conn[c] = "none" /\ u_shown[c] = "none" /\ ~question[c]
       /\ conn[c] = "none" => ~question[c]
       /\ u_client[c] \in {"new", "typing", "quit"} => ~reply[c]
       /\ u_client[c] = "quit" => ~question[c] \/ conn[c] = "dead"

\* The server that is down has no connection; no client waits twice.
Served ==
  /\ backlog \in Seq(UdomainClient) /\ u_stops \in Nat
  /\ u_server = "down" => client_fd = NoClient /\ backlog = <<>>
  /\ client_fd \notin Range(backlog)

UdomainIInv == Udomain!Inv /\ Exchange /\ Served

\* The operators of the component are those of the lemmas about queues.
LEMMA UdomainQueue ==
  ASSUME NEW q PROVE Udomain!Range(q) = Range(q) /\ (Udomain!IsInjective(q) <=> IsInjective(q))
BY DEF Range, IsInjective, Udomain!Range, Udomain!IsInjective

\* What a step of a client leaves alone but for its own part.
LEMMA UdomainClientIInv ==
  ASSUME UdomainIInv, NEW c \in UdomainClient,
         Udomain!Ask(c) \/ Udomain!Read(c) \/ Udomain!Quit(c) \/ Udomain!Kill(c)
  PROVE  UdomainIInv'
<1> USE DEF UdomainIInv, Udomain!Inv, Udomain!TypeOK, Udomain!OneAtATime, Udomain!NoSelfTalk, Exchange, Served
<1>1. CASE Udomain!Ask(c)
  <2>1. UNCHANGED <<u_server, file, client_fd, used, backlog, conn, reply, u_shown, u_stops>>
    BY <1>1 DEF Udomain!Ask
  <2>2. \A d \in UdomainClient \ {c} : u_client'[d] = u_client[d] /\ question'[d] = question[d]
    BY <1>1 DEF Udomain!Ask
  <2>3. /\ u_client[c] = "typing" /\ question'[c] = (conn[c] = "alive")
        /\ u_client'[c] = IF conn[c] = "dead" THEN "killed" ELSE "asking"
    BY <1>1 DEF Udomain!Ask
  <2>4. Udomain!TypeOK' /\ question' \in [UdomainClient -> BOOLEAN]
    BY <1>1 DEF Udomain!Ask
  <2> QED
    BY <2>1, <2>2, <2>3, <2>4
<1>2. CASE Udomain!Read(c)
  <2>1. UNCHANGED <<u_server, file, client_fd, used, backlog, conn, question, u_stops>>
    BY <1>2 DEF Udomain!Read
  <2>2. \A d \in UdomainClient \ {c} :
          u_client'[d] = u_client[d] /\ reply'[d] = reply[d] /\ u_shown'[d] = u_shown[d]
    BY <1>2 DEF Udomain!Read
  <2>3. /\ u_client[c] = "asking" /\ u_client'[c] = "typing" /\ ~reply'[c]
        /\ conn[c] # "alive" \/ reply[c]
        /\ u_shown'[c] = IF reply[c] THEN "server" ELSE "self"
    BY <1>2 DEF Udomain!Read, Udomain!Blocking
  <2>4. Udomain!TypeOK' /\ reply' \in [UdomainClient -> BOOLEAN]
    BY <1>2 DEF Udomain!Read
  <2> QED
    BY <2>1, <2>2, <2>3, <2>4
<1>3. CASE Udomain!Quit(c) \/ Udomain!Kill(c)
  <2>1. UNCHANGED <<u_server, file, client_fd, used, backlog, conn, question, reply, u_shown, u_stops>>
    BY <1>3 DEF Udomain!Quit, Udomain!Kill
  <2>2. \A d \in UdomainClient \ {c} : u_client'[d] = u_client[d]
    BY <1>3 DEF Udomain!Quit, Udomain!Kill
  <2>3. \/ u_client[c] = "typing" /\ u_client'[c] = "quit"
        \/ u_client'[c] = "killed"
    BY <1>3 DEF Udomain!Quit, Udomain!Kill
  <2>4. Udomain!TypeOK'
    BY <1>3 DEF Udomain!Quit, Udomain!Kill
  <2> QED
    BY <2>1, <2>2, <2>3, <2>4
<1> QED
  BY <1>1, <1>2, <1>3

\* connect: who has not been there before joins the queue, or finds nobody.
LEMMA UdomainConnectIInv ==
  ASSUME UdomainIInv, NEW c \in UdomainClient, Udomain!Connect(c)
  PROVE  UdomainIInv'
<1> USE DEF UdomainIInv, Udomain!Inv, Udomain!TypeOK, Udomain!OneAtATime, Udomain!NoSelfTalk, Exchange, Served
<1>1. /\ UNCHANGED <<u_server, file, client_fd, used, question, reply, u_shown, u_stops>>
      /\ u_client[c] = "new" /\ u_client' = [u_client EXCEPT ![c] = "typing"]
  BY DEF Udomain!Connect
<1>2. CASE u_server = "down"
  <2>1. UNCHANGED <<conn, backlog>>
    BY <1>2 DEF Udomain!Connect
  <2> QED
    BY <1>1, <1>2, <2>1
<1>3. CASE u_server # "down"
  <2>1. conn' = [conn EXCEPT ![c] = "alive"] /\ backlog' = Append(backlog, c)
    BY <1>3 DEF Udomain!Connect
  <2>2. conn[c] = "none" /\ c # client_fd /\ c \notin Range(backlog) /\ u_shown[c] = "none"
    BY <1>1, UdomainQueue
  <2>3. /\ backlog' \in Seq(UdomainClient) /\ Udomain!IsInjective(backlog')
        /\ Range(backlog') = Range(backlog) \cup {c} /\ Udomain!Range(backlog') = Range(backlog')
        /\ Udomain!Range(backlog) = Range(backlog)
    BY <2>1, <2>2, QueueAppend, UdomainQueue
  <2>4. Udomain!TypeOK'
    BY <1>1, <2>1, <2>3
  <2> QED
    BY <1>1, <1>3, <2>1, <2>2, <2>3, <2>4
<1> QED
  BY <1>2, <1>3

\* The process ends: what was alive is dead.
LEMMA UdomainEndsIInv ==
  ASSUME UdomainIInv, Udomain!Ends, UNCHANGED reply, u_stops' \in Nat
  PROVE  UdomainIInv'
<1> USE DEF UdomainIInv, Udomain!Inv, Udomain!TypeOK, Udomain!OneAtATime, Udomain!NoSelfTalk, Exchange, Served
<1>1. /\ UNCHANGED <<file, used, u_client, question, reply, u_shown>>
      /\ u_server' = "down" /\ client_fd' = NoClient /\ backlog' = <<>>
  BY DEF Udomain!Ends
<1>2. /\ conn' \in [UdomainClient -> {"none", "dead"}]
      /\ \A c \in UdomainClient : /\ conn'[c] = "none" <=> conn[c] = "none"
                                  /\ conn[c] = "dead" => conn'[c] = "dead"
  BY DEF Udomain!Ends
<1>3. NoClient \notin UdomainClient /\ Range(<<>>) = {} /\ <<>> \in Seq(UdomainClient) /\ IsInjective(<<>>)
  BY LocalAssumption DEF LocalAssumption, Udomain!UdomainAssumption, Range, IsInjective
<1>4. Udomain!Range(backlog') = {} /\ Range(backlog') = {} /\ Udomain!IsInjective(backlog')
  BY <1>1, <1>3, UdomainQueue
<1> HIDE DEF Udomain!Ends
<1>5. Udomain!TypeOK'
  BY <1>1, <1>2, <1>3, <1>4
<1>6. Udomain!OneAtATime' /\ Udomain!NoSelfTalk'
  BY <1>1, <1>2, <1>3, <1>4
<1>7. Exchange' /\ Served'
  BY <1>1, <1>2, <1>3, <1>4
<1> QED
  BY <1>5, <1>6, <1>7

\* Every step preserves UdomainIInv.
LEMMA UdomainNextIInv == ASSUME UdomainIInv, [Udomain!Next]_(Udomain!vars) PROVE UdomainIInv'
<1> USE DEF UdomainIInv, Udomain!Inv, Udomain!TypeOK, Udomain!OneAtATime, Udomain!NoSelfTalk, Exchange, Served
<1>a. NoClient \notin UdomainClient /\ FdLimit \in Nat \ {0}
  BY LocalAssumption DEF LocalAssumption, Udomain!UdomainAssumption
<1>1. CASE Udomain!Start
  BY <1>1, <1>a DEF Udomain!Start, Udomain!mine
\* The first of the queue is served, by a descriptor of its own.
<1>2. CASE Udomain!Accept
  <2>1. /\ u_server = "accept" /\ u_server' = "read" /\ backlog # <<>> /\ client_fd' = Head(backlog)
        /\ backlog' = Tail(backlog) /\ used' \in 0..FdLimit
        /\ UNCHANGED <<file, u_client, conn, question, reply, u_shown, u_stops>>
    BY <1>2, <1>a DEF Udomain!Accept, Udomain!mine
  <2>2. /\ backlog' \in Seq(UdomainClient) /\ Udomain!IsInjective(backlog')
        /\ Range(backlog') = Range(backlog) \ {client_fd'} /\ Udomain!Range(backlog') = Range(backlog')
        /\ Udomain!Range(backlog) = Range(backlog) /\ client_fd' \in Range(backlog) /\ client_fd' \in UdomainClient
    BY <2>1, QueueTail, UdomainQueue
  <2> QED
    BY <2>1, <2>2, <1>a
\* The question becomes the reply.
<1>3. CASE Udomain!Serve
  <2>1. /\ u_server = "read" /\ client_fd \in UdomainClient /\ question[client_fd]
        /\ u_client[client_fd] \notin {"quit", "killed"}
        /\ question' = [question EXCEPT ![client_fd] = FALSE] /\ reply' = [reply EXCEPT ![client_fd] = TRUE]
        /\ UNCHANGED <<file, u_server, client_fd, used, backlog, u_client, conn, u_shown, u_stops>>
    BY <1>3, <1>a DEF Udomain!Serve, Udomain!Gone
  <2>2. conn[client_fd] = "alive" /\ u_client[client_fd] = "asking"
    BY <2>1
  <2> QED
    BY <2>1, <2>2
<1>4. CASE Udomain!ClientEnds
  <2>1. /\ u_server = "read" /\ u_server' = "accept" /\ client_fd' = NoClient
        /\ UNCHANGED <<file, used, backlog, u_client, conn, question, reply, u_shown, u_stops>>
    BY <1>4 DEF Udomain!ClientEnds, Udomain!mine
  <2>2. NoClient \notin Range(backlog)
    BY <1>a, UdomainQueue
  <2> QED
    BY <2>1, <2>2, <1>a
<1>5. CASE Udomain!AcceptFails \/ Udomain!BrokenPipe \/ Udomain!Stop
  BY <1>5, UdomainEndsIInv DEF Udomain!AcceptFails, Udomain!BrokenPipe, Udomain!Stop
<1>6. ASSUME NEW c \in UdomainClient,
             Udomain!Connect(c) \/ Udomain!Ask(c) \/ Udomain!Read(c) \/ Udomain!Quit(c) \/ Udomain!Kill(c)
      PROVE  UdomainIInv'
  BY <1>6, UdomainConnectIInv, UdomainClientIInv
<1>7. CASE UNCHANGED Udomain!vars
  BY <1>7 DEF Udomain!vars
<1> QED
  BY <1>1, <1>2, <1>3, <1>4, <1>5, <1>6, <1>7 DEF Udomain!Next, Udomain!ServerStep

\* Over a living connection every line shown was echoed.
LEMMA UdomainInvariant == Udomain!Spec => []UdomainIInv
<1>1. Udomain!Init => UdomainIInv
  <2> SUFFICES ASSUME Udomain!Init PROVE UdomainIInv
    OBVIOUS
  <2>1. NoClient \notin UdomainClient /\ FdLimit \in Nat \ {0}
    BY LocalAssumption DEF LocalAssumption, Udomain!UdomainAssumption
  <2>2. /\ Range(<<>>) = {} /\ <<>> \in Seq(UdomainClient) /\ Udomain!IsInjective(<<>>) /\ Udomain!Range(<<>>) = {}
    BY UdomainQueue DEF Range, IsInjective
  <2>3. file \in BOOLEAN /\ question \in [UdomainClient -> BOOLEAN] /\ reply \in [UdomainClient -> BOOLEAN]
    BY DEF Udomain!Init
  <2>4. Udomain!TypeOK
    BY <2>1, <2>2, <2>3 DEF Udomain!Init, Udomain!TypeOK
  <2>5. Udomain!OneAtATime /\ Udomain!NoSelfTalk
    BY <2>1, <2>2 DEF Udomain!Init, Udomain!OneAtATime, Udomain!NoSelfTalk
  <2> QED
    BY <2>1, <2>2, <2>3, <2>4, <2>5 DEF Udomain!Init, UdomainIInv, Udomain!Inv, Exchange, Served
<1>2. UdomainIInv /\ [Udomain!Next]_(Udomain!vars) => UdomainIInv'
  BY UdomainNextIInv
<1> QED
  BY <1>1, <1>2, PTL DEF Udomain!Spec

\* The server ends of itself only at its first accept, at the limit of its
\* descriptors, or by a client that was killed: who quits leaves no reply and
\* no question behind, so the end of its connection is an end of file.
THEOREM SocketEndsOnlyWhen == Udomain!Spec => Udomain!EndsOnlyWhen
<1>1. ASSUME UdomainIInv, [Udomain!Next]_(Udomain!vars), u_server # "down", u_server' = "down", u_stops' = u_stops
      PROVE  used \in {0, FdLimit} \/ u_client[client_fd] = "killed"
  <2>1. CASE Udomain!AcceptFails
    BY <2>1 DEF Udomain!AcceptFails, Udomain!MayFail
  <2>2. CASE Udomain!BrokenPipe
    <3>1. client_fd \in UdomainClient /\ conn[client_fd] = "alive"
      BY <1>1, <2>2 DEF Udomain!BrokenPipe, UdomainIInv, Udomain!Inv, Udomain!TypeOK, Udomain!OneAtATime
    <3> QED
      BY <1>1, <2>2, <3>1 DEF Udomain!BrokenPipe, Udomain!Broken, Udomain!Gone, UdomainIInv, Exchange
  <2>3. ~Udomain!Stop
    BY <1>1 DEF Udomain!Stop, UdomainIInv, Served
  <2> QED
    BY <1>1, <2>1, <2>2, <2>3
    DEF Udomain!Next, Udomain!ServerStep, Udomain!Start, Udomain!Accept, Udomain!Serve, Udomain!ClientEnds,
        Udomain!Connect, Udomain!Ask, Udomain!Read, Udomain!Quit, Udomain!Kill, Udomain!vars
<1> QED
  BY <1>1, UdomainInvariant, PTL DEF Udomain!Spec, Udomain!EndsOnlyWhen

-----------------------------------------------------------------------------
(* MySelect *)

\* While ReadLine runs, of the descriptors it has not come to exactly those
\* select has seen are set; each of them is ready, or is the one whose buffer the
\* last read filled, or its file is that of one already read from.
Watched ==
  /\ input \in [Sel!Files -> Seq({"short", "full"})]
  /\ readfds \subseteq 0..maxfd /\ seen \subseteq 0..maxfd
  /\ s_pc \in {"select", "read"} /\ s_i \in Nat
  /\ again => s_pc = "read" /\ s_i \in readfds

ReadInOrder ==
  s_pc = "read" =>
    /\ s_i <= maxfd
    /\ \A fd \in 0..maxfd : fd >= s_i => (fd \in readfds <=> fd \in seen)
    /\ \A fd \in seen : fd >= s_i =>
         \/ Sel!Ready(fd)
         \/ again /\ File[fd] = File[s_i]
         \/ \E e \in seen : e < s_i /\ File[e] = File[fd]

SelIInv == Watched /\ ReadInOrder

\* ReadLine goes on to the next descriptor after one that is not set, or one
\* whose file it has read from.
LEMMA SelAdvance ==
  ASSUME SelIInv, s_pc = "read", Sel!Advance, UNCHANGED seen, ~again',
         input' \in [Sel!Files -> Seq({"short", "full"})],
         \A fd \in seen : fd >= s_i /\ Sel!Ready(fd) => Sel!Ready(fd)' \/ (s_i \in readfds /\ File[fd] = File[s_i])
  PROVE  SelIInv'
<1> USE DEF SelIInv
<1>1. maxfd \in Nat /\ s_i \in 0..maxfd
  BY LocalAssumption DEF LocalAssumption, Sel!SelectAssumption, Watched, ReadInOrder
<1>2. /\ readfds' = readfds \cup {s_i} /\ s_i' = s_i + 1
      /\ s_pc' = IF s_i = maxfd THEN "select" ELSE "read"
  BY DEF Sel!Advance
<1>3. Watched'
  BY <1>1, <1>2 DEF Watched
<1>4. ASSUME s_pc' = "read", NEW fd \in seen, fd >= s_i + 1
      PROVE  Sel!Ready(fd)' \/ \E e \in seen : e < s_i + 1 /\ File[e] = File[fd]
  <2>1. fd \in 0..maxfd /\ fd >= s_i
    BY <1>1, <1>4 DEF Watched
  <2>2. CASE \E e \in seen : e < s_i /\ File[e] = File[fd]
    BY <1>1, <2>2 DEF Watched
  <2>3. CASE File[fd] = File[s_i] /\ s_i \in readfds
    <3>1. s_i \in seen
      BY <1>1, <2>3 DEF ReadInOrder
    <3> QED
      BY <1>1, <2>3, <3>1
  <2> QED
    BY <2>1, <2>2, <2>3 DEF ReadInOrder, Watched
<1>5. ReadInOrder'
  BY <1>1, <1>2, <1>4 DEF ReadInOrder, Watched
<1> QED
  BY <1>3, <1>5

\* Nothing is ready that select has not reported; a write only adds to what is.
LEMMA SelNextIInv == ASSUME SelIInv, [Sel!Next]_(Sel!vars) PROVE SelIInv'
<1> USE DEF SelIInv
<1>a. maxfd \in Nat
  BY LocalAssumption DEF LocalAssumption, Sel!SelectAssumption
<1>b. \A fd \in 0..maxfd : File[fd] \in Sel!Files
  BY LocalAssumption DEF LocalAssumption, Sel!SelectAssumption, Sel!Files, Sel!Range
<1>1. CASE Sel!Select
  <2>1. /\ readfds' = {fd \in readfds : Sel!Ready(fd)} /\ seen' = readfds'
        /\ s_pc' = "read" /\ s_i' = 0 /\ UNCHANGED <<input, again>> /\ s_pc = "select"
    BY <1>1 DEF Sel!Select
  <2>2. ~again
    BY <2>1 DEF Watched
  <2>3. \A fd \in readfds' : Sel!Ready(fd)'
    BY <2>1 DEF Sel!Ready
  <2>4. Watched'
    BY <2>1, <2>2 DEF Watched
  <2>5. ReadInOrder'
    BY <1>a, <2>1, <2>3 DEF ReadInOrder, Watched
  <2> QED
    BY <2>4, <2>5
<1>2. CASE Sel!Skip
  <2>1. s_pc = "read" /\ s_i \notin readfds /\ Sel!Advance /\ UNCHANGED <<input, again, seen>>
    BY <1>2 DEF Sel!Skip, Sel!Tested
  <2>2. ~again'
    BY <2>1 DEF Watched
  <2>3. \A fd : Sel!Ready(fd)' <=> Sel!Ready(fd)
    BY <2>1 DEF Sel!Ready
  <2> QED
    BY <2>1, <2>2, <2>3, SelAdvance DEF Watched
<1>3. CASE Sel!Read
  <2>1. /\ s_pc = "read" /\ s_i \in readfds /\ input[File[s_i]] # <<>>
        /\ input' = [input EXCEPT ![File[s_i]] = Tail(@)] /\ UNCHANGED seen
        /\ IF again' THEN UNCHANGED <<readfds, s_pc, s_i>> ELSE Sel!Advance
    BY <1>3 DEF Sel!Read, Sel!Tested, Sel!Ready
  <2>2. File[s_i] \in Sel!Files
    BY <2>1, <1>b DEF Watched
  <2>3. input' \in [Sel!Files -> Seq({"short", "full"})]
    BY <2>1, <2>2 DEF Watched
  <2>4. \A fd \in seen : Sel!Ready(fd) => Sel!Ready(fd)' \/ File[fd] = File[s_i]
    BY <2>1, <1>b DEF Sel!Ready, Watched
  <2>5. CASE again'
    <3>1. UNCHANGED <<readfds, s_pc, s_i, seen>> /\ s_pc = "read" /\ s_i \in readfds
      BY <2>1, <2>5
    <3>2. Watched'
      BY <3>1, <2>3 DEF Watched
    <3>3. ReadInOrder'
      BY <2>1, <2>4, <2>5 DEF ReadInOrder, Watched
    <3> QED
      BY <3>2, <3>3
  <2>6. CASE ~again'
    BY <2>1, <2>3, <2>4, <2>6, SelAdvance
  <2> QED
    BY <2>1, <2>5, <2>6
<1>4. ASSUME NEW f \in Sel!Files, Sel!Write(f) PROVE SelIInv'
  <2>1. PICK size \in {"short", "full"} : input' = [input EXCEPT ![f] = Append(@, size)]
    BY <1>4 DEF Sel!Write
  <2>2. UNCHANGED <<readfds, s_pc, s_i, again, seen>>
    BY <1>4 DEF Sel!Write
  <2>3. input' \in [Sel!Files -> Seq({"short", "full"})]
    BY <2>1 DEF Watched
  <2>4. \A fd \in seen : Sel!Ready(fd) => Sel!Ready(fd)'
    <3>1. input[f] \in Seq({"short", "full"}) /\ Append(input[f], size) # <<>>
      BY DEF Watched
    <3> QED
      BY <1>b, <2>1, <3>1 DEF Sel!Ready, Watched
  <2> QED
    BY <2>2, <2>3, <2>4 DEF Watched, ReadInOrder
<1>5. CASE UNCHANGED Sel!vars
  BY <1>5 DEF Sel!vars, Watched, ReadInOrder, Sel!Ready
<1> QED
  BY <1>1, <1>2, <1>3, <1>4, <1>5 DEF Sel!Next, Sel!Run

\* A read that waits after select has reported its descriptor follows one that
\* filled the buffer, or one from the same file.
LEMMA SelInvariant == Sel!Spec => []Sel!Inv
<1>1. Sel!Init => SelIInv
  BY LocalAssumption DEF LocalAssumption, Sel!SelectAssumption, Sel!Init, SelIInv, Watched, ReadInOrder
<1>2. SelIInv /\ [Sel!Next]_(Sel!vars) => SelIInv'
  BY SelNextIInv
<1>3. SelIInv => Sel!Inv
  BY LocalAssumption
  DEF LocalAssumption, Sel!SelectAssumption, SelIInv, Watched, ReadInOrder, Sel!Inv, Sel!StuckOnlyIf, Sel!Stuck, Sel!Tested
<1> QED
  BY <1>1, <1>2, <1>3, PTL DEF Sel!Spec

-----------------------------------------------------------------------------
(* EchoClientAll *)

\* The loops have found no address yet: none before rp can be reached, and at rp
\* no interface before ifp reaches it; the socket open is for rp.
Tries ==
  /\ result \in Seq({"inet", "inet6"}) /\ ifaces \in Seq(STRING)
  /\ a_pc \in {"socket", "inet", "inet6", "close", "over"} /\ ifp \in Nat \ {0}
  /\ rp \in 1 .. Len(result) + 1
  /\ \A k \in 1..Len(result) : k < rp => ~All!Reachable(k)
  /\ a_pc \in {"inet", "inet6"} => ~connection /\ sock_fd = rp /\ rp <= Len(result)
                                  /\ result[rp] = a_pc /\ result[rp] \in supported
  /\ a_pc = "inet6" =>
       \A j \in 1..Len(ifaces) : j < ifp => ~(ifaces[j] # "lo" /\ <<rp, j>> \in up)
  /\ a_pc = "close" => sock_fd = rp /\ rp <= Len(result) /\ (connection <=> All!Reachable(rp))
  /\ a_pc = "socket" => ~connection /\ sock_fd = 0
  /\ a_pc = "over" => /\ connection <=> rp <= Len(result)
                      /\ connection => All!Reachable(rp)
                      /\ sock_fd = IF connection THEN rp ELSE 0

\* Every step of the loops preserves Tries.
LEMMA AllNextTries == ASSUME Tries, [All!Next]_(All!vars) PROVE Tries'
<1>a. Len(result) \in Nat /\ Len(ifaces) \in Nat /\ DOMAIN ifaces = 1..Len(ifaces) /\ rp \in Nat
  BY DEF Tries
<1>1. CASE UNCHANGED All!world
  <2>1. /\ \A k : All!Reachable(k)' <=> All!Reachable(k)
        /\ UNCHANGED <<result, ifaces, supported, up>>
    BY <1>1 DEF All!world, All!Reachable
  <2>2. CASE All!Socket
    <3>1. /\ rp \in 1..Len(result) /\ result[rp] \in {"inet", "inet6"}
          /\ ~connection /\ UNCHANGED connection
      BY <1>a, <2>2 DEF Tries, All!Socket
    <3>2. CASE result[rp] \in supported
      <4>1. sock_fd' = rp /\ ifp' = 1 /\ a_pc' = result[rp] /\ rp' = rp
        BY <2>2, <3>2 DEF All!Socket
      <4> QED
        BY <1>a, <2>1, <3>1, <3>2, <4>1 DEF Tries
    <3>3. CASE result[rp] \notin supported
      <4>1. rp' = rp + 1 /\ a_pc' = "socket" /\ UNCHANGED <<ifp, sock_fd>> /\ a_pc = "socket"
        BY <2>2, <3>3 DEF All!Socket, All!NextAddress
      <4>2. ~All!Reachable(rp)
        BY <3>3 DEF All!Reachable
      <4> QED
        BY <1>a, <2>1, <3>1, <4>1, <4>2 DEF Tries
    <3> QED
      BY <3>2, <3>3
  <2>3. CASE All!Inet
    BY <1>a, <2>1, <2>3 DEF Tries, All!Inet, All!Reachable
  <2>4. CASE All!Inet6
    <3>1. a_pc = "inet6" /\ UNCHANGED <<rp, sock_fd>> /\ result[rp] = "inet6" /\ result[rp] \in supported
      BY <2>4 DEF Tries, All!Inet6
    <3>2. All!Reachable(rp) <=> \E j \in 1..Len(ifaces) : ifaces[j] # "lo" /\ <<rp, j>> \in up
      BY <1>a, <3>1 DEF All!Reachable
    <3>3. CASE connection'
      <4>1. a_pc' = "close" /\ ifp' = ifp /\ ifp <= Len(ifaces) /\ ifaces[ifp] # "lo" /\ <<rp, ifp>> \in up
        BY <2>4, <3>3 DEF All!Inet6, All!Skips
      <4>2. ifp \in 1..Len(ifaces)
        BY <1>a, <4>1 DEF Tries
      <4>3. All!Reachable(rp)
        BY <3>2, <4>1, <4>2
      <4>4. connection' <=> All!Reachable(rp)'
        BY <2>1, <3>1, <3>3, <4>3 DEF All!Reachable
      <4> QED
        BY <1>a, <2>1, <3>1, <4>1, <4>4 DEF Tries
    <3>4. CASE ~connection'
      <4>1. /\ a_pc' = (IF ifp > Len(ifaces) THEN "close" ELSE "inet6") /\ ifp' = ifp + 1
            /\ ifp <= Len(ifaces) => ~(ifaces[ifp] # "lo" /\ <<rp, ifp>> \in up)
        BY <2>4, <3>4 DEF All!Inet6, All!Skips
      <4>2. \A j \in 1..Len(ifaces) : j < ifp + 1 => ~(ifaces[j] # "lo" /\ <<rp, j>> \in up)
        BY SMTT(30), <1>a, <3>1, <4>1 DEF Tries
      <4>3. CASE ifp > Len(ifaces)
        <5>1. ~All!Reachable(rp)
          <6>1. \A j \in 1..Len(ifaces) : j < ifp + 1
            BY <1>a, <4>3 DEF Tries
          <6> QED
            BY <3>2, <4>2, <6>1
        <5>2. connection' <=> All!Reachable(rp)'
          BY <2>1, <3>1, <3>4, <5>1 DEF All!Reachable
        <5> QED
          BY <1>a, <2>1, <3>1, <4>1, <4>3, <5>2 DEF Tries
      <4>4. CASE ~(ifp > Len(ifaces))
        BY <1>a, <2>1, <3>1, <3>4, <4>1, <4>2, <4>4 DEF Tries
      <4> QED
        BY <4>3, <4>4
    <3> QED
      BY <3>3, <3>4
  <2>5. CASE All!Close
    BY <1>a, <2>1, <2>5 DEF Tries, All!Close, All!NextAddress
  <2>6. CASE All!Fails
    BY <1>a, <2>1, <2>6 DEF Tries, All!Fails
  <2>7. CASE UNCHANGED All!vars
    BY <1>a, <2>1, <2>7 DEF Tries, All!vars
  <2> QED
    BY <2>2, <2>3, <2>4, <2>5, <2>6, <2>7 DEF All!Next
<1> QED
  BY <1>1 DEF All!Next, All!Socket, All!Inet, All!Inet6, All!Close, All!Fails, All!vars

\* Whatever addresses and interfaces there are, the program ends connected to
\* the first address that can be reached, or has found none.
LEMMA AllInvariant == All!Spec => []All!FirstReachable
<1>1. All!Init => Tries
  BY LocalAssumption DEF LocalAssumption, All!LookupAssumption, All!Init, Tries
<1>2. Tries /\ [All!Next]_(All!vars) => Tries'
  BY AllNextTries
<1>3. Tries => All!FirstReachable
  BY DEF Tries, All!FirstReachable
<1> QED
  BY <1>1, <1>2, <1>3, PTL DEF All!Spec

-----------------------------------------------------------------------------
(* IcmpCheck *)

\* Quotient and remainder by Word.
LEMMA Division ==
  ASSUME Icmp!IcmpAssumption, NEW s \in Nat
  PROVE  /\ s \div Word \in Nat /\ s % Word \in 0 .. Word - 1
         /\ s = Word * (s \div Word) + (s % Word)
  BY SMT DEF Icmp!IcmpAssumption

\* ... are the only ones.
LEMMA DivisionUnique ==
  ASSUME Icmp!IcmpAssumption, NEW q \in Nat, NEW r \in 0 .. Word - 1
  PROVE  (Word * q + r) \div Word = q /\ (Word * q + r) % Word = r
  BY SMT DEF Icmp!IcmpAssumption

\* The answer, by whether the second fold has a carry to add (in_cksum, its
\* last three lines), if the first leaves at most one.
LEMMA AnswerIs ==
  ASSUME Icmp!IcmpAssumption, NEW s \in Nat
  PROVE  /\ Icmp!Folded(s) \in Nat
         /\ Icmp!Folded(s) < Word => Icmp!Answer(s) = (Word - 1) - Icmp!Folded(s)
         /\ Word <= Icmp!Folded(s) /\ Icmp!Folded(s) < 2 * Word - 1 => Icmp!Answer(s) = (2 * Word - 2) - Icmp!Folded(s)
<1> DEFINE f == Icmp!Folded(s)
<1>w. Word \in Nat /\ Word >= 2
  BY DEF Icmp!IcmpAssumption
<1>1. f \in Nat
  BY <1>w, Division DEF Icmp!Folded
<1>2. ASSUME f < Word PROVE Icmp!Answer(s) = (Word - 1) - f
  <2>1. f = Word * 0 + f /\ f \in 0 .. Word - 1
    BY <1>w, <1>1, <1>2
  <2>2. f \div Word = 0 /\ f % Word = f
    BY <2>1, DivisionUnique
  <2>3. Icmp!Carried(f) = f
    BY <2>2, <1>1 DEF Icmp!Carried
  <2> QED BY <2>2, <2>3 DEF Icmp!Answer
<1>3. ASSUME Word <= f, f < 2 * Word - 1 PROVE Icmp!Answer(s) = (2 * Word - 2) - f
  <2>1. /\ f - Word \in 0 .. Word - 1 /\ f = Word * 1 + (f - Word)
        /\ (f + 1) - Word \in 0 .. Word - 1 /\ f + 1 = Word * 1 + ((f + 1) - Word)
    BY <1>w, <1>1, <1>3
  <2>2. f \div Word = 1
    BY <2>1, DivisionUnique
  <2>3. Icmp!Carried(f) = f + 1
    BY <2>2 DEF Icmp!Carried
  <2>4. (f + 1) % Word = (f + 1) - Word
    BY <2>1, DivisionUnique
  <2>5. Icmp!Answer(s) = (Word - 1) - ((f + 1) - Word)
    BY <2>3, <2>4 DEF Icmp!Answer
  <2> QED BY <2>5, <1>w, <1>1
<1> QED BY <1>1, <1>2, <1>3

\* What in_cksum answers is a word, and completes the sum: added up with it, the
\* words leave nothing to complete.
THEOREM Complement ==
  ASSUME Icmp!IcmpAssumption, NEW s \in Nat, s <= Word * (Word - 1)
  PROVE  Icmp!Answer(s) \in 0 .. Word - 1 /\ Icmp!Answer(s + Icmp!Answer(s)) = 0
<1> DEFINE h == s \div Word
           l == s % Word
<1>w. Word \in Nat /\ Word >= 2
  BY DEF Icmp!IcmpAssumption
<1>1. h \in Nat /\ l \in 0 .. Word - 1 /\ s = Word * h + l /\ Icmp!Folded(s) = h + l
  BY Division DEF Icmp!Folded
<1> HIDE DEF h, l
<1>2. h <= Word - 1
  <2>1. SUFFICES ASSUME h >= Word PROVE FALSE
    BY <1>w, <1>1
  <2>2. Word * h >= Word * Word
    BY <2>1, <1>w, <1>1
  <2> QED BY <2>2, <1>w, <1>1
<1>3. h = Word - 1 => l = 0
  BY <1>w, <1>1
\* A sum of quotient q and remainder Word - 1 - q is complete.
<1>4. ASSUME NEW q \in Nat, q <= Word - 1
      PROVE  Icmp!Answer(Word * q + ((Word - 1) - q)) = 0
  <2> DEFINE t == Word * q + ((Word - 1) - q)
  <2>1. (Word - 1) - q \in 0 .. Word - 1 /\ t \in Nat
    BY <1>4, <1>w
  <2>2. t \div Word = q /\ t % Word = (Word - 1) - q
    BY <2>1, DivisionUnique
  <2>3. Icmp!Folded(t) = Word - 1
    BY <2>2, <1>4, <1>w DEF Icmp!Folded
  <2> HIDE DEF t
  <2>4. Icmp!Answer(t) = (Word - 1) - (Word - 1)
    BY <2>1, <2>3, <1>w, AnswerIs
  <2> QED BY <2>4, <1>w DEF t
<1>5. CASE h + l < Word
  <2>1. Icmp!Answer(s) = (Word - 1) - (h + l)
    BY <1>1, <1>5, AnswerIs
  <2>2. s + Icmp!Answer(s) = Word * h + ((Word - 1) - h)
    BY <2>1, <1>1, <1>w
  <2>3. Icmp!Answer(s + Icmp!Answer(s)) = 0
    BY <2>2, <1>1, <1>2, <1>4
  <2> QED BY <2>1, <2>3, <1>1, <1>5, <1>w
<1>6. CASE h + l >= Word
  <2>1. h + 1 \in Nat /\ h + 1 <= Word - 1
    BY <1>1, <1>2, <1>3, <1>6, <1>w
  <2>2. Icmp!Answer(s) = (2 * Word - 2) - (h + l)
    BY <2>1, <1>1, <1>6, <1>w, AnswerIs
  <2>3. s + Icmp!Answer(s) = Word * (h + 1) + ((Word - 1) - (h + 1))
    BY <2>2, <1>1, <1>w
  <2>4. Icmp!Answer(s + Icmp!Answer(s)) = 0
    BY <2>1, <2>3, <1>4
  <2> QED BY <2>1, <2>2, <2>4, <1>1, <1>6, <1>w
<1> QED BY <1>1, <1>5, <1>6, <1>w

-----------------------------------------------------------------------------
\* Words of at most Word - 1 each: n of them add up to at most n times as much.
IcmpIInv ==
  /\ buffer \in Seq(0 .. Word - 1) /\ 2 <= Len(buffer) /\ Len(buffer) <= Word
  /\ p \in 0 .. Len(buffer)
  /\ sum \in Nat /\ sum <= p * (Word - 1)
  /\ k_pc \in {"add", "sent"}
  /\ k_pc = "sent" => buffer[2] = Icmp!Answer(sum)

\* The sum never grows beyond what two folds can take.
LEMMA SumBounded ==
  ASSUME Icmp!IcmpAssumption, IcmpIInv
  PROVE  sum <= Word * (Word - 1)
<1>1. Word \in Nat /\ Word >= 2 /\ p \in Nat /\ p <= Word
  BY DEF Icmp!IcmpAssumption, IcmpIInv
<1>2. p * (Word - 1) <= Word * (Word - 1)
  BY <1>1
<1> QED BY <1>1, <1>2 DEF IcmpIInv

\* Nothing is added up at first.
LEMMA IcmpInitIInv == ASSUME Icmp!IcmpAssumption, Icmp!Init PROVE IcmpIInv
  BY DEF Icmp!IcmpAssumption, Icmp!Init, IcmpIInv

\* A word more is at most Word - 1 more; the answer to such a sum is a word.
LEMMA IcmpNextIInv == ASSUME Icmp!IcmpAssumption, IcmpIInv, [Icmp!Next]_(Icmp!vars) PROVE IcmpIInv'
<1>w. Word \in Nat /\ Word >= 2
  BY DEF Icmp!IcmpAssumption
<1>1. CASE Icmp!Add
  <2>1. /\ buffer' = buffer /\ k_pc' = k_pc /\ k_pc = "add"
        /\ p \in Nat /\ p < Len(buffer) /\ p' = p + 1
        /\ sum' = sum + buffer[p + 1]
    BY <1>1 DEF Icmp!Add, IcmpIInv
  <2>2. buffer[p + 1] \in 0 .. Word - 1
    <3>1. p + 1 \in 1 .. Len(buffer)
      BY <2>1 DEF IcmpIInv
    <3>2. \A S, b : b \in Seq(S) => \A k \in 1 .. Len(b) : b[k] \in S
      OBVIOUS
    <3> QED BY <3>1, <3>2 DEF IcmpIInv
  <2>3. sum' \in Nat /\ sum' <= p * (Word - 1) + (Word - 1)
    BY <2>1, <2>2, <1>w DEF IcmpIInv
  <2>4. (p + 1) * (Word - 1) = p * (Word - 1) + (Word - 1)
    BY <2>1, <1>w
  <2> QED BY <2>1, <2>3, <2>4 DEF IcmpIInv
<1>2. CASE Icmp!Send
  <2>1. Icmp!Answer(sum) \in 0 .. Word - 1
    BY SumBounded, Complement DEF IcmpIInv
  <2>2. UNCHANGED <<p, sum>> /\ k_pc' = "sent" /\ buffer' = [buffer EXCEPT ![2] = Icmp!Answer(sum)]
    BY <1>2 DEF Icmp!Send
  <2>3. buffer' \in Seq(0 .. Word - 1) /\ Len(buffer') = Len(buffer) /\ buffer'[2] = Icmp!Answer(sum)
    BY <2>1, <2>2 DEF IcmpIInv
  <2>4. Icmp!Answer(sum)' = Icmp!Answer(sum)
    BY <2>2 DEF Icmp!Answer, Icmp!Carried, Icmp!Folded
  <2> QED BY <2>2, <2>3, <2>4 DEF IcmpIInv
<1>3. CASE UNCHANGED Icmp!vars
  BY <1>3 DEF Icmp!vars, IcmpIInv, Icmp!Answer, Icmp!Carried, Icmp!Folded
<1> QED BY <1>1, <1>2, <1>3 DEF Icmp!Next

\* The checksum of every packet completes what in_cksum has added up.
THEOREM Completes == ASSUME Icmp!IcmpAssumption PROVE Icmp!Spec => []Icmp!Complete
<1>1. Icmp!Init => IcmpIInv
  BY IcmpInitIInv
<1>2. IcmpIInv /\ [Icmp!Next]_(Icmp!vars) => IcmpIInv'
  BY IcmpNextIInv
<1>3. IcmpIInv => Icmp!Complete
  BY SumBounded, Complement DEF IcmpIInv, Icmp!Complete
<1> QED BY <1>1, <1>2, <1>3, PTL DEF Icmp!Spec

-----------------------------------------------------------------------------
\* A set of numbers with 0 and the successors of its members has all of them.
LEMMA Induction ==
  ASSUME NEW S \in SUBSET Nat, 0 \in S, \A n \in S : n + 1 \in S
  PROVE  S = Nat
<1> SUFFICES ASSUME Nat \ S # {} PROVE FALSE
  OBVIOUS
<1>1. PICK m \in Nat \ S : \A n \in Nat \ S : ~(<<n, m>> \in OpToRel(<, Nat))
  <2>1. Nat \ S \subseteq Nat
    OBVIOUS
  <2> QED BY <2>1, NatLessThanWellFounded, WFMin
<1>2. m \in Nat /\ m \notin S /\ m # 0
  OBVIOUS
<1>3. m - 1 \in Nat /\ m - 1 < m /\ (m - 1) + 1 = m
  BY <1>2
<1>4. <<m - 1, m>> \in OpToRel(<, Nat)
  BY <1>2, <1>3 DEF OpToRel
<1>5. m - 1 \in S
  BY <1>1, <1>3, <1>4
<1>6. (m - 1) + 1 \in S
  BY <1>5
<1> QED BY <1>2, <1>3, <1>6

\* One step of the sum over the words of b.
Adds(f, b, n) == IF n = 0 THEN 0 ELSE f[n - 1] + b[n]

\* The sums over the words of a buffer are defined: those of n words give those
\* of one more.
LEMMA SumsDefined ==
  ASSUME NEW b \in Seq(Nat)
  PROVE  Icmp!Sums(b) = [n \in 0 .. Len(b) |-> Adds(Icmp!Sums(b), b, n)]
<1> DEFINE Defined == {m \in Nat : \E f : f = [n \in 0 .. m |-> Adds(f, b, n)]}
<1>1. 0 \in Defined
  <2> DEFINE f == [n \in 0 .. 0 |-> 0]
  <2>1. \A n \in 0 .. 0 : Adds(f, b, n) = 0
    BY DEF Adds
  <2>2. f = [n \in 0 .. 0 |-> Adds(f, b, n)]
    BY <2>1
  <2> QED BY <2>2
<1>2. ASSUME NEW m \in Defined PROVE m + 1 \in Defined
  <2>1. PICK f : f = [n \in 0 .. m |-> Adds(f, b, n)]
    OBVIOUS
  <2> DEFINE g == [n \in 0 .. m + 1 |-> IF n = m + 1 THEN f[m] + b[m + 1] ELSE f[n]]
  <2>2. m \in Nat
    OBVIOUS
  <2>3. \A n \in 0 .. m : f[n] = Adds(f, b, n)
    BY <2>1
  <2>4. ASSUME NEW n \in 0 .. m + 1 PROVE g[n] = Adds(g, b, n)
    <3>1. CASE n = m + 1
      <4>1. g[n] = f[m] + b[m + 1] /\ g[m] = f[m] /\ n # 0 /\ n - 1 = m
        BY <3>1, <2>2
      <4> QED BY <3>1, <4>1 DEF Adds
    <3>2. CASE n # m + 1
      <4>1. n \in 0 .. m /\ g[n] = f[n]
        BY <3>2, <2>2
      <4>2. n # 0 => n - 1 \in 0 .. m + 1 /\ n - 1 # m + 1 /\ g[n - 1] = f[n - 1]
        BY <4>1, <2>2
      <4>3. Adds(g, b, n) = Adds(f, b, n)
        BY <4>2 DEF Adds
      <4> QED BY <4>1, <4>3, <2>3
    <3> QED BY <3>1, <3>2
  <2>5. g = [n \in 0 .. m + 1 |-> Adds(g, b, n)]
    BY <2>4
  <2> HIDE DEF g
  <2>6. m + 1 \in Nat
    BY <2>2
  <2> QED BY <2>5, <2>6
<1>3. Len(b) \in Defined
  <2> HIDE DEF Defined
  <2>1. Defined \in SUBSET Nat
    BY DEF Defined
  <2>2. Defined = Nat
    BY <1>1, <1>2, <2>1, Induction
  <2> QED BY <2>2
<1>4. \E f : f = [n \in 0 .. Len(b) |-> Adds(f, b, n)]
  BY <1>3
<1>5. Icmp!Sums(b) = CHOOSE f : f = [n \in 0 .. Len(b) |-> Adds(f, b, n)]
  BY DEF Icmp!Sums, Adds
<1> QED BY <1>4, <1>5

\* Step by step: nothing, and a word more.
LEMMA SumsStep ==
  ASSUME NEW b \in Seq(Nat)
  PROVE  /\ Icmp!Sums(b)[0] = 0
         /\ \A n \in 0 .. Len(b) - 1 : Icmp!Sums(b)[n + 1] = Icmp!Sums(b)[n] + b[n + 1]
<1> DEFINE f == Icmp!Sums(b)
<1>1. f = [n \in 0 .. Len(b) |-> Adds(f, b, n)]
  BY SumsDefined
<1> HIDE DEF f
<1>2. Len(b) \in Nat
  OBVIOUS
<1>3. \A n \in 0 .. Len(b) : f[n] = Adds(f, b, n)
  BY <1>1
<1>4. f[0] = 0
  BY <1>2, <1>3 DEF Adds
<1>5. ASSUME NEW n \in 0 .. Len(b) - 1 PROVE f[n + 1] = f[n] + b[n + 1]
  <2>1. n + 1 \in 0 .. Len(b) /\ n + 1 # 0 /\ (n + 1) - 1 = n
    BY <1>2
  <2> QED BY <2>1, <1>3 DEF Adds
<1> QED BY <1>4, <1>5 DEF f

\* Where two buffers of one length differ by a in the second word alone, the
\* sums differ by a, from the second word on.
LEMMA SumsDiffer ==
  ASSUME NEW b \in Seq(Nat), NEW d \in Seq(Nat), NEW a \in Nat, Len(d) = Len(b),
         \A k \in 1 .. Len(b) : d[k] = IF k = 2 THEN b[k] + a ELSE b[k]
  PROVE  \A n \in 0 .. Len(b) :
           /\ Icmp!Sums(b)[n] \in Nat
           /\ Icmp!Sums(d)[n] = IF n < 2 THEN Icmp!Sums(b)[n] ELSE Icmp!Sums(b)[n] + a
<1> DEFINE f == Icmp!Sums(b)
           g == Icmp!Sums(d)
           Good == {n \in Nat : n <= Len(b) => f[n] \in Nat /\ g[n] = IF n < 2 THEN f[n] ELSE f[n] + a}
<1>1. /\ f[0] = 0 /\ \A n \in 0 .. Len(b) - 1 : f[n + 1] = f[n] + b[n + 1]
      /\ g[0] = 0 /\ \A n \in 0 .. Len(b) - 1 : g[n + 1] = g[n] + d[n + 1]
  BY SumsStep
<1> HIDE DEF f, g
<1>2. 0 \in Good
  BY <1>1
<1>3. ASSUME NEW n \in Good PROVE n + 1 \in Good
  <2>1. n \in Nat /\ n + 1 \in Nat /\ Len(b) \in Nat
    OBVIOUS
  <2> SUFFICES ASSUME n + 1 <= Len(b)
               PROVE  f[n + 1] \in Nat /\ g[n + 1] = IF n + 1 < 2 THEN f[n + 1] ELSE f[n + 1] + a
    BY <2>1
  <2>2. n <= Len(b) /\ n \in 0 .. Len(b) - 1 /\ n + 1 \in 1 .. Len(b)
    BY <2>1
  <2>3. f[n] \in Nat /\ g[n] = IF n < 2 THEN f[n] ELSE f[n] + a
    BY <2>2
  <2>4. f[n + 1] = f[n] + b[n + 1] /\ g[n + 1] = g[n] + d[n + 1]
    BY <2>2, <1>1
  <2>5. b[n + 1] \in Nat /\ d[n + 1] = IF n + 1 = 2 THEN b[n + 1] + a ELSE b[n + 1]
    BY <2>2
  <2> HIDE DEF Good
  <2>6. f[n + 1] \in Nat
    <3>1. \A x, y \in Nat : x + y \in Nat
      OBVIOUS
    <3> QED BY Zenon, <3>1, <2>3, <2>4, <2>5
  <2>7. CASE n + 1 < 2
    <3>1. g[n] = f[n] /\ d[n + 1] = b[n + 1]
      BY <2>1, <2>3, <2>5, <2>7
    <3>2. g[n + 1] = f[n + 1]
      BY <2>4, <3>1
    <3> QED BY <2>6, <2>7, <3>2
  <2>8. CASE n + 1 = 2
    <3>1. g[n] = f[n] /\ d[n + 1] = b[n + 1] + a
      BY <2>1, <2>3, <2>5, <2>8
    <3>2. g[n + 1] = f[n + 1] + a
      BY <2>3, <2>4, <2>5, <3>1
    <3>3. ~(n + 1 < 2)
      BY <2>8
    <3> QED BY <2>6, <3>2, <3>3
  <2>9. CASE n + 1 > 2
    <3>1. g[n] = f[n] + a /\ d[n + 1] = b[n + 1]
      BY <2>1, <2>3, <2>5, <2>9
    <3>2. g[n + 1] = f[n + 1] + a
      BY <2>3, <2>4, <2>5, <3>1
    <3>3. ~(n + 1 < 2)
      BY <2>1, <2>9
    <3> QED BY <2>6, <3>2, <3>3
  <2> QED BY <2>1, <2>7, <2>8, <2>9
<1>4. Good = Nat
  <2> HIDE DEF Good
  <2>1. Good \in SUBSET Nat
    BY DEF Good
  <2>2. \A n \in Good : n + 1 \in Good
    BY <1>3
  <2> QED BY <1>2, <2>1, <2>2, Induction
<1>5. \A n \in 0 .. Len(b) : n \in Nat /\ n <= Len(b)
  OBVIOUS
<1>6. \A n \in 0 .. Len(b) : n \in Good
  <2> HIDE DEF Good
  <2> QED BY <1>4, <1>5
<1>7. \A n \in 0 .. Len(b) : f[n] \in Nat /\ g[n] = IF n < 2 THEN f[n] ELSE f[n] + a
  BY <1>5, <1>6
<1> QED BY <1>7 DEF f, g

\* What has been added up is the sum of the words so far, and from the end of the
\* header on that of the header; once the checksum is in the header, its sum is
\* more by the checksum.
HeaderIInv ==
  /\ IcmpIInv
  /\ Sent \in Nat /\ 2 <= Sent /\ Sent <= Len(buffer)
  /\ \A k \in 1 .. Len(buffer) : k > Sent => buffer[k] = 0
  /\ k_pc = "add" => /\ buffer[2] = 0
                     /\ p <= Sent => sum = Icmp!Sums(buffer)[p]
                     /\ p >= Sent => sum = Icmp!Sums(buffer)[Sent]
  /\ k_pc = "sent" => Icmp!Sums(buffer)[Sent] = sum + buffer[2]

\* The words of a buffer are numbers.
LEMMA BufferOfNumbers ==
  ASSUME Icmp!IcmpAssumption, NEW b \in Seq(0 .. Word - 1)
  PROVE  b \in Seq(Nat)
<1>1. \A S, T, s : S \subseteq T /\ s \in Seq(S) => s \in Seq(T)
  OBVIOUS
<1>2. 0 .. Word - 1 \subseteq Nat
  BY DEF Icmp!IcmpAssumption
<1> QED BY <1>1, <1>2

LEMMA HeaderInitIInv == ASSUME Icmp!IcmpAssumption, Icmp!Init PROVE HeaderIInv
<1>1. IcmpIInv
  BY IcmpInitIInv
<1>2. /\ Sent \in Nat /\ 2 <= Sent /\ Sent <= Len(buffer) /\ buffer[2] = 0
      /\ \A k \in 1 .. Len(buffer) : k > Sent => buffer[k] = 0
      /\ k_pc = "add" /\ p = 0 /\ sum = 0
  <2>1. buffer \in Seq(0 .. Word - 1) => DOMAIN buffer = 1 .. Len(buffer)
    OBVIOUS
  <2> QED BY <1>1, <2>1 DEF Icmp!IcmpAssumption, Icmp!Init, IcmpIInv
<1>3. buffer \in Seq(Nat)
  BY <1>1, BufferOfNumbers DEF IcmpIInv
<1>4. Icmp!Sums(buffer)[0] = 0
  BY <1>3, SumsStep
<1> QED BY <1>1, <1>2, <1>4 DEF HeaderIInv

LEMMA HeaderNextIInv ==
  ASSUME Icmp!IcmpAssumption, HeaderIInv, [Icmp!Next]_(Icmp!vars) PROVE HeaderIInv'
<1>1. IcmpIInv'
  BY IcmpNextIInv DEF HeaderIInv
<1>2. /\ buffer \in Seq(Nat) /\ buffer \in Seq(0 .. Word - 1) /\ Len(buffer) \in Nat
      /\ p \in 0 .. Len(buffer) /\ sum \in Nat /\ Word \in Nat
      /\ Sent \in Nat /\ 2 <= Sent /\ Sent <= Len(buffer)
      /\ \A k \in 1 .. Len(buffer) : k > Sent => buffer[k] = 0
  BY BufferOfNumbers DEF HeaderIInv, IcmpIInv, Icmp!IcmpAssumption
<1>3. CASE Icmp!Add
  <2>1. /\ buffer' = buffer /\ k_pc' = k_pc /\ k_pc = "add"
        /\ p < Len(buffer) /\ p' = p + 1 /\ sum' = sum + buffer[p + 1]
    BY <1>3 DEF Icmp!Add
  <2>2. Icmp!Sums(buffer)' = Icmp!Sums(buffer)
    BY <2>1 DEF Icmp!Sums
  <2>3. p \in 0 .. Len(buffer) - 1 /\ p + 1 \in 1 .. Len(buffer)
    BY <1>2, <2>1
  <2>4. p' <= Sent => sum' = Icmp!Sums(buffer)[p']
    <3> SUFFICES ASSUME p + 1 <= Sent PROVE sum + buffer[p + 1] = Icmp!Sums(buffer)[p + 1]
      BY <2>1
    <3>1. sum = Icmp!Sums(buffer)[p]
      BY <1>2, <2>1 DEF HeaderIInv
    <3>2. Icmp!Sums(buffer)[p + 1] = Icmp!Sums(buffer)[p] + buffer[p + 1]
      BY <1>2, <2>3, SumsStep
    <3> QED BY <3>1, <3>2
  <2>5. p' >= Sent => sum' = Icmp!Sums(buffer)[Sent]
    <3>1. CASE p + 1 <= Sent
      BY <2>1, <2>4, <3>1, <1>2
    <3>2. CASE p + 1 > Sent
      <4>1. buffer[p + 1] = 0
        BY <1>2, <2>3, <3>2
      <4>2. sum = Icmp!Sums(buffer)[Sent]
        BY <1>2, <2>1, <3>2 DEF HeaderIInv
      <4> QED BY <2>1, <4>1, <4>2, <1>2
    <3> QED BY <3>1, <3>2, <1>2
  <2>6. buffer[2] = 0
    BY <2>1 DEF HeaderIInv
  <2>7. k_pc' # "sent"
    BY <2>1
  <2> QED BY <1>1, <1>2, <2>1, <2>2, <2>4, <2>5, <2>6, <2>7 DEF HeaderIInv
<1>4. CASE Icmp!Send
  <2> DEFINE a == Icmp!Answer(sum)
  <2>1. /\ k_pc = "add" /\ p = Len(buffer) /\ UNCHANGED <<p, sum>> /\ k_pc' = "sent"
        /\ buffer' = [buffer EXCEPT ![2] = a]
    BY <1>4 DEF Icmp!Send
  <2>2. a \in 0 .. Word - 1
    BY SumBounded, Complement DEF HeaderIInv, IcmpIInv
  <2> HIDE DEF a
  <2>3. sum = Icmp!Sums(buffer)[Sent] /\ buffer[2] = 0
    BY <1>2, <2>1 DEF HeaderIInv
  <2>4. a \in Nat /\ buffer' \in Seq(Nat) /\ Len(buffer') = Len(buffer)
    BY <1>2, <2>1, <2>2
  <2>5. \A k \in 1 .. Len(buffer) : buffer'[k] = IF k = 2 THEN a ELSE buffer[k]
    BY <1>2, <2>1
  <2>6. \A k \in 1 .. Len(buffer) : buffer'[k] = IF k = 2 THEN buffer[k] + a ELSE buffer[k]
    BY <2>3, <2>4, <2>5
  <2>7. Sent \in 0 .. Len(buffer) /\ ~(Sent < 2)
    BY <1>2
  <2>8. Icmp!Sums(buffer')[Sent] = Icmp!Sums(buffer)[Sent] + a
    BY <1>2, <2>4, <2>6, <2>7, SumsDiffer
  <2>9. Icmp!Sums(buffer)' = Icmp!Sums(buffer')
    BY DEF Icmp!Sums
  <2>10. buffer'[2] = a
    BY <1>2, <2>5
  <2>11. \A k \in 1 .. Len(buffer') : k > Sent => buffer'[k] = 0
    BY <1>2, <2>4, <2>5
  <2>12. (Icmp!Sums(buffer)[Sent])' = sum' + buffer'[2]
    BY <2>1, <2>3, <2>8, <2>9, <2>10
  <2> QED BY <1>1, <1>2, <2>1, <2>4, <2>11, <2>12 DEF HeaderIInv
<1>5. CASE UNCHANGED Icmp!vars
  <2>1. buffer' = buffer /\ p' = p /\ sum' = sum /\ k_pc' = k_pc
    BY <1>5 DEF Icmp!vars
  <2>2. Icmp!Sums(buffer)' = Icmp!Sums(buffer)
    BY <2>1 DEF Icmp!Sums
  <2> QED BY <1>1, <2>1, <2>2 DEF HeaderIInv
<1> QED BY <1>3, <1>4, <1>5 DEF Icmp!Next

\* Whoever receives the header alone finds its checksum intact, although in_cksum
\* has added up the whole of the buffer.
THEOREM HeaderIntact == Icmp!Spec => []HeaderVerifies
<1>1. Icmp!Init => HeaderIInv
  BY HeaderInitIInv, LocalAssumption DEF LocalAssumption
<1>2. HeaderIInv /\ [Icmp!Next]_(Icmp!vars) => HeaderIInv'
  BY HeaderNextIInv, LocalAssumption DEF LocalAssumption
<1>3. HeaderIInv => HeaderVerifies
  <2>1. Icmp!IcmpAssumption
    BY LocalAssumption DEF LocalAssumption
  <2>2. IcmpIInv => Icmp!Complete
    BY <2>1, SumBounded, Complement DEF IcmpIInv, Icmp!Complete
  <2> QED BY <2>2 DEF HeaderIInv, HeaderVerifies, Icmp!Verifies, Icmp!Complete
<1> QED BY <1>1, <1>2, <1>3, PTL DEF Icmp!Spec

-----------------------------------------------------------------------------
(* All of them *)

\* Each program keeps its invariant: who blocks on a fifo, what a client of the
\* socket takes for an answer, what makes myselect wait, which address is
\* connected to, and what the checksum completes.
THEOREM LocalSafety ==
  Pipe!Spec /\ Udomain!Spec /\ Sel!Spec /\ All!Spec /\ Icmp!Spec => []LocalInv
<1>1. PipeIInv /\ UdomainIInv /\ Sel!Inv /\ All!FirstReachable /\ Icmp!Complete => LocalInv
  BY DEF PipeIInv, UdomainIInv, LocalInv
<1> QED
  BY <1>1, PipeInvariant, UdomainInvariant, SelInvariant, AllInvariant, Completes, LocalAssumption, PTL
  DEF LocalAssumption
=============================================================================
