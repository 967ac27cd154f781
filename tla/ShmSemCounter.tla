---------------------------- MODULE ShmSemCounter ----------------------------
(***************************************************************************)
(* 11_IPC/shm_producer_sem, shm_consumer_sem and shm_consumer: processes   *)
(* that add one to an int in a System V shared memory segment, between a   *)
(* semaphore's down and up, and one that prints it without the semaphore.  *)
(* Segment and semaphore outlive the processes, which come and go: a       *)
(* process may be killed anywhere (the kernel then applies its SEM_UNDO    *)
(* adjustment), started again, or stopped and continued in a blocked semop *)
(* (which then fails with EINTR).                                          *)
(***************************************************************************)
EXTENDS Integers

CONSTANTS Producer,   \* instances of shm_producer_sem
          Consumer,   \* instances of shm_consumer_sem
          MaxIncs,    \* bound: no increment is begun once these are made
          MaxSetVals, \* bound: executions of semctl(SETVAL)
          MaxKills,   \* bound: processes killed
          MaxStops    \* bound: blocked semops interrupted

Process == Producer \cup Consumer

ASSUME ShmAssumption ==
  /\ Producer \cap Consumer = {}
  /\ {MaxIncs, MaxSetVals, MaxKills, MaxStops} \subseteq Nat

VARIABLES exists,    \* have the segment and the semaphore been created?
          cal_num,   \* the int in the segment
          semval,    \* the semaphore's value
          semadj,    \* the kernel's undo value of each process
          pc,        \* where each process is; "off" when it does not run
          local_var, \* each process's local
          incs,      \* history: stores made to *cal_num
          shown,     \* what shm_consumer printed last
          ready,     \* history: has SETVAL ever been executed?
          disturbed, \* history: the semaphore no longer guards one process
          setvals, kills, stops \* counted against their bounds

mem == <<cal_num, local_var, incs>>
sem == <<semval, semadj, ready, disturbed>>
env == <<setvals, kills, stops>>
vars == <<exists, mem, sem, env, pc, shown>>

Inside == {p \in Process : pc[p] \in {"load", "store", "up"}}

\* IPC_CREAT yields a zeroed segment and a semaphore of value 0.
Init ==
  /\ exists = FALSE /\ cal_num = 0 /\ semval = 0
  /\ semadj = [p \in Process |-> 0]
  /\ pc = [p \in Process |-> "off"]
  /\ local_var = [p \in Process |-> 0]
  /\ incs = 0 /\ shown = 0 /\ ready = FALSE /\ disturbed = FALSE
  /\ setvals = 0 /\ kills = 0 /\ stops = 0

Goto(p, where) == pc' = [pc EXCEPT ![p] = where]

\* shmget, semget and shmat of the producer create what is missing.
Create(p) ==
  /\ p \in Producer /\ pc[p] = "off" /\ setvals < MaxSetVals
  /\ exists' = TRUE
  /\ Goto(p, "setval")
  /\ UNCHANGED <<mem, sem, env, shown>>

\* shmget and semget of the consumer, without IPC_CREAT, fail until then.
Attach(p) ==
  /\ p \in Consumer /\ pc[p] = "off" /\ exists
  /\ Goto(p, "down")
  /\ UNCHANGED <<exists, mem, sem, env, shown>>

\* semctl(SETVAL) sets the value and clears the undo values of every process.
\* A process inside at that moment is forgotten by the semaphore.
SetVal(p) ==
  /\ pc[p] = "setval" /\ setvals < MaxSetVals
  /\ semval' = 1
  /\ semadj' = [q \in Process |-> 0]
  /\ ready' = TRUE
  /\ disturbed' = (Inside # {})
  /\ setvals' = setvals + 1
  /\ Goto(p, "down")
  /\ UNCHANGED <<exists, mem, kills, stops, shown>>

\* Mutated form of CanDown: the operation does not wait.
NeverWaits == TRUE

\* semop(-1) blocks while the value is zero.
CanDown == semval > 0

\* Mutated form of UndoDown: semopen lacks SEM_UNDO.
NoUndo(p) == semadj

\* SEM_UNDO in semopen: the kernel remembers to give the unit back.
UndoDown(p) == [semadj EXCEPT ![p] = @ + 1]

Down(p) ==
  /\ pc[p] = "down" /\ incs < MaxIncs
  /\ CanDown
  /\ semval' = semval - 1
  /\ semadj' = UndoDown(p)
  /\ Goto(p, "load")
  /\ UNCHANGED <<exists, mem, ready, disturbed, env, shown>>

\* local_var = *cal_num + 1, then a second or two of sleep.
Load(p) ==
  /\ pc[p] = "load"
  /\ local_var' = [local_var EXCEPT ![p] = cal_num + 1]
  /\ Goto(p, "store")
  /\ UNCHANGED <<exists, cal_num, incs, sem, env, shown>>

\* Mutated form of Stored: the store adds to what is there by then.
StoredTwice(p) == cal_num + local_var[p]

Stored(p) == local_var[p]

\* *cal_num = local_var
Store(p) ==
  /\ pc[p] = "store"
  /\ cal_num' = Stored(p)
  /\ incs' = incs + 1
  /\ Goto(p, "up")
  /\ UNCHANGED <<exists, local_var, sem, env, shown>>

\* semop(+1), whether or not this process had taken the semaphore.
Up(p) ==
  /\ pc[p] = "up"
  /\ semval' = semval + 1
  /\ semadj' = [semadj EXCEPT ![p] = @ - 1]
  /\ Goto(p, "down")
  /\ UNCHANGED <<exists, mem, ready, disturbed, env, shown>>

\* The kernel applies the undo value of a process that exits, but never below
\* zero.
Undone(p) == IF semval + semadj[p] < 0 THEN 0 ELSE semval + semadj[p]

Exit(p) ==
  /\ semval' = Undone(p)
  /\ semadj' = [semadj EXCEPT ![p] = 0]
  /\ Goto(p, "off")
  /\ UNCHANGED <<exists, mem, ready, disturbed, setvals, shown>>

Kill(p) ==
  /\ pc[p] # "off" /\ kills < MaxKills
  /\ kills' = kills + 1
  /\ UNCHANGED stops
  /\ Exit(p)

\* A semop that blocks is interrupted: the producer returns ...
InterruptProducer(p) ==
  /\ p \in Producer /\ pc[p] = "down" /\ ~CanDown /\ stops < MaxStops
  /\ stops' = stops + 1
  /\ UNCHANGED kills
  /\ Exit(p)

\* ... but the consumer reports the error and goes on, without the semaphore.
InterruptConsumer(p) ==
  /\ p \in Consumer /\ pc[p] = "down" /\ ~CanDown /\ stops < MaxStops
  /\ stops' = stops + 1
  /\ disturbed' = TRUE
  /\ Goto(p, "load")
  /\ UNCHANGED <<exists, mem, semval, semadj, ready, setvals, kills, shown>>

\* shm_consumer prints the int every second and never uses the semaphore.
Observe ==
  /\ exists
  /\ shown' = cal_num
  /\ UNCHANGED <<exists, mem, sem, env, pc>>

Step(p) == SetVal(p) \/ Down(p) \/ Load(p) \/ Store(p) \/ Up(p)

Next ==
  \/ Observe
  \/ \E p \in Process : \/ Step(p)
                        \/ Create(p) \/ Attach(p) \/ Kill(p)
                        \/ InterruptProducer(p) \/ InterruptConsumer(p)

\* A running process is scheduled; nobody need start, kill or stop one.
Fairness == \A p \in Process : WF_vars(Step(p))

Spec == Init /\ [][Next]_vars /\ Fairness

-----------------------------------------------------------------------------
\* Types of the variables.
TypeOK ==
  /\ exists \in BOOLEAN /\ ready \in BOOLEAN /\ disturbed \in BOOLEAN
  /\ cal_num \in Nat /\ semval \in Nat /\ incs \in Nat /\ shown \in Nat
  /\ setvals \in Nat /\ kills \in Nat /\ stops \in Nat
  /\ semadj \in [Process -> Int]
  /\ pc \in [Process -> {"off", "setval", "down", "load", "store", "up"}]
  /\ local_var \in [Process -> Nat]

\* While the environment behaves, kills and restarts included, exactly one
\* unit is in circulation: in the semaphore or with the one process inside,
\* which the kernel remembers to take it back from.
OneUnit ==
  ~disturbed =>
    /\ semval = IF ready /\ Inside = {} THEN 1 ELSE 0
    /\ \A p \in Process : semadj[p] = IF p \in Inside THEN 1 ELSE 0
    /\ \A p, q \in Inside : p = q
    /\ Inside # {} => ready

\* So the value a process holds across its sleep is not overtaken.
LoadStillFresh ==
  ~disturbed => \A p \in Process : pc[p] = "store" => local_var[p] = cal_num + 1

Inv == TypeOK /\ OneUnit /\ LoadStillFresh

\* From one undisturbed state to the next the processes, however killed and
\* restarted, take the steps of an atomic counter: no increment is lost.  This
\* holds again after earlier disturbances, as a SETVAL that finds nobody inside
\* repairs everything.
Atomic == INSTANCE AtomicCounter WITH value <- cal_num, done <- incs
AtomicWhileUndisturbed ==
  Atomic!Init /\ [][~disturbed /\ ~disturbed' =>
                      Atomic!Increment \/ Atomic!Observe \/ UNCHANGED Atomic!vars]_vars

\* Disturbed or not, the counter never shows more than the stores made to it.
NeverOvercounts == cal_num <= incs

\* No sequence of kills, restarts, interruptions and re-initialisations loses
\* the last unit: once set, the semaphore lets a process in or one is inside.
NeverWedged == ready => semval > 0 \/ Inside # {}

\* So some running process always gets on with the counting.
CountingGoesOn ==
  \A p \in Process :
    ready /\ pc[p] # "off" ~> incs >= MaxIncs \/ pc[p] = "off"
=============================================================================
