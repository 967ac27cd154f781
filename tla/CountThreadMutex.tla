-------------------------- MODULE CountThreadMutex --------------------------
(***************************************************************************)
(* 14_Linux_Mulit_thread/count_thread_mutex: worker threads add one to a   *)
(* counter on main's stack, reading it, sleeping and writing it back while *)
(* they hold m_lock; main prints the counter without taking the lock.      *)
(***************************************************************************)
EXTENDS Naturals

CONSTANTS Thread,   \* the MAX_THREAD workers
          NoThread, \* the owner of a free mutex
          MaxIncs   \* bound: increments made in a behaviour

ASSUME CounterAssumption == NoThread \notin Thread /\ MaxIncs \in Nat

VARIABLES count,  \* main's int count
          m_lock, \* owner of the mutex
          tmp,    \* each worker's local
          pc,     \* where each worker is in its loop
          shown,  \* what main printed last
          incs    \* history: stores made to count

vars == <<count, m_lock, tmp, pc, shown, incs>>

\* The threads are created 5 ms apart: until then they are at their first lock.
Init ==
  /\ count = 0 /\ shown = 0 /\ incs = 0
  /\ m_lock = NoThread
  /\ tmp = [t \in Thread |-> 0]
  /\ pc = [t \in Thread |-> "lock"]

\* Mutated form of MutexFree: the call to pthread_mutex_lock is missing.
MutexIgnored(t) == pc[t] = "lock" /\ incs < MaxIncs

\* pthread_mutex_lock: blocks while another thread owns the mutex.
MutexFree(t) == pc[t] = "lock" /\ incs < MaxIncs /\ m_lock = NoThread

\* Take the lock and read the counter into the local, plus one.
LockAndLoad(t) ==
  /\ MutexFree(t)
  /\ m_lock' = t
  /\ tmp' = [tmp EXCEPT ![t] = count + 1]
  /\ pc' = [pc EXCEPT ![t] = "store"]
  /\ UNCHANGED <<count, shown, incs>>

\* After the sleep: write the local back (and print the counter).
Store(t) ==
  /\ pc[t] = "store"
  /\ count' = tmp[t]
  /\ incs' = incs + 1
  /\ pc' = [pc EXCEPT ![t] = "unlock"]
  /\ UNCHANGED <<m_lock, tmp, shown>>

\* Mutated form of AfterUnlock: the call to pthread_mutex_unlock is missing.
NeverUnlocked == m_lock

\* The owner of the mutex once pthread_mutex_unlock returns.
AfterUnlock == NoThread

Unlock(t) ==
  /\ pc[t] = "unlock"
  /\ m_lock' = AfterUnlock
  /\ pc' = [pc EXCEPT ![t] = "lock"]
  /\ UNCHANGED <<count, tmp, shown, incs>>

\* The main thread prints the counter every two seconds, without the lock.
MainPrint == shown' = count /\ UNCHANGED <<count, m_lock, tmp, pc, incs>>

Worker(t) == LockAndLoad(t) \/ Store(t) \/ Unlock(t)

Next == MainPrint \/ \E t \in Thread : Worker(t)

\* Threads are preemptively scheduled by the kernel: none is left runnable
\* for ever.  Nothing says which waiter a mutex wakes, so no strong fairness.
Fairness == \A t \in Thread : WF_vars(Worker(t))

Spec == Init /\ [][Next]_vars /\ Fairness

-----------------------------------------------------------------------------
\* Types of the variables.
TypeOK ==
  /\ count \in Nat /\ shown \in Nat /\ incs \in Nat
  /\ m_lock \in Thread \cup {NoThread}
  /\ tmp \in [Thread -> Nat]
  /\ pc \in [Thread -> {"lock", "store", "unlock"}]

\* Between the lock and the unlock.
InLoopBody(t) == pc[t] \in {"store", "unlock"}

\* A worker is between lock and unlock exactly when it owns the mutex, so
\* never two of them, although each sleeps a second in there.
MutualExclusion == \A t \in Thread : InLoopBody(t) <=> m_lock = t

\* What a sleeping worker is about to store is still the counter plus one.
LoadStillFresh == \A t \in Thread : pc[t] = "store" => tmp[t] = count + 1

\* No increment is ever lost: the counter is the number of stores made to it.
NoLostUpdate == count = incs

\* The inductive invariant: all four hold together or not at all.
Inv == TypeOK /\ MutualExclusion /\ LoadStillFresh /\ NoLostUpdate

\* The unlocked reads of main never run backwards, whatever it interleaves
\* with: the counter it prints is at least the one it printed before.
MainMonotone == [][shown' >= shown]_shown

\* The program is an atomic counter.
Atomic == INSTANCE AtomicCounter WITH value <- count, done <- incs
ImplementsAtomicCounter == Atomic!Spec

\* The workers never block one another for good: the counting goes on.
Progress == <>(count = MaxIncs)
=============================================================================
