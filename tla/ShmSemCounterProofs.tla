------------------------- MODULE ShmSemCounterProofs -------------------------
(***************************************************************************)
(* Proofs about ShmSemCounter, for any producers, consumers and bounds.    *)
(* Inv is inductive: OneUnit says where the semaphore's single unit is,    *)
(* the kernel's undo values included, as long as disturbed is FALSE; the   *)
(* steps that make it TRUE are left out by the implication, and the step   *)
(* that makes it FALSE again establishes OneUnit from nothing.             *)
(* NeverWedged also holds in the disturbed states: its invariant is a      *)
(* Ledger, by cardinalities, of the units in the kernel's undo values.     *)
(***************************************************************************)
EXTENDS ShmSemCounter, FiniteSetTheorems, TLAPS

\* Nothing has been created, nobody runs.
LEMMA InitInv == Init => Inv
<1> SUFFICES ASSUME Init PROVE Inv
  OBVIOUS
<1>1. Inside = {}
  BY DEF Init, Inside
<1>2. TypeOK
  <2>1. exists \in BOOLEAN /\ ready \in BOOLEAN /\ disturbed \in BOOLEAN
    BY Zenon DEF Init
  <2> QED
    BY <2>1, SMT DEF Init, TypeOK
<1> QED
  BY <1>1, <1>2 DEF Init, Inv, OneUnit, LoadStillFresh

\* A process that leaves the critical section with the unit gives it back;
\* one outside has nothing to give back: what a kill or an interrupt does.
LEMMA ExitInv ==
  ASSUME Inv, NEW p \in Process, Exit(p), kills' \in Nat, stops' \in Nat
  PROVE  Inv'
<1> USE ShmAssumption
<1>1. TypeOK'
  BY DEF Inv, TypeOK, Exit, Undone, Goto, mem
<1>2. Inside' = Inside \ {p}
  BY DEF Inside, Exit, Goto, Inv, TypeOK
<1>3. OneUnit'
  <2> SUFFICES ASSUME ~disturbed PROVE OneUnit'
    BY DEF OneUnit, Exit
  <2>1. CASE p \in Inside
    <3>1. semval = 0 /\ semadj[p] = 1 /\ Inside = {p} /\ ready
      BY <2>1 DEF Inv, OneUnit
    <3>2. semval' = 1 /\ Inside' = {} /\ ready'
      BY <3>1, <1>2 DEF Exit, Undone
    <3> QED
      BY <3>1, <3>2 DEF Inv, TypeOK, OneUnit, Exit
  <2>2. CASE p \notin Inside
    <3>1. semadj[p] = 0 /\ Inside' = Inside
      BY <2>2, <1>2 DEF Inv, OneUnit
    <3>2. semval' = semval /\ semadj' = semadj
      BY <3>1 DEF Exit, Undone, Inv, TypeOK
    <3> QED
      BY <3>1, <3>2 DEF Inv, OneUnit, Exit
  <2> QED
    BY <2>1, <2>2
<1>4. LoadStillFresh'
  BY DEF Inv, TypeOK, LoadStillFresh, Exit, Goto, mem
<1> QED
  BY <1>1, <1>3, <1>4 DEF Inv

\* Every step preserves Inv.
LEMMA NextInv == Inv /\ [Next]_vars => Inv'
<1> SUFFICES ASSUME Inv, [Next]_vars PROVE Inv'
  OBVIOUS
<1> USE ShmAssumption DEF Inv
<1>1. ASSUME NEW p \in Process, SetVal(p) PROVE Inv'
  <2>1. TypeOK'
    BY <1>1 DEF SetVal, TypeOK, Goto, mem
  <2>2. Inside' = Inside
    BY <1>1 DEF SetVal, TypeOK, Goto, Inside
  <2>3. OneUnit'
    BY <1>1, <2>2 DEF SetVal, OneUnit
  <2>4. LoadStillFresh'
    BY <1>1, <2>2 DEF SetVal, LoadStillFresh, Inside, TypeOK, Goto, mem
  <2> QED
    BY <2>1, <2>3, <2>4
<1>2. ASSUME NEW p \in Process, Down(p) PROVE Inv'
  <2>1. TypeOK'
    BY <1>2 DEF Down, CanDown, UndoDown, TypeOK, Goto, mem, env
  <2>2. Inside' = Inside \cup {p}
    BY <1>2 DEF Down, TypeOK, Goto, Inside
  <2>3. OneUnit'
    <3>1. SUFFICES ASSUME ~disturbed PROVE OneUnit'
      BY <1>2 DEF Down, OneUnit
    <3>2. ready /\ Inside = {} /\ semval = 1 /\ \A q \in Process : semadj[q] = 0
      BY <1>2, <3>1 DEF Down, CanDown, OneUnit, TypeOK
    <3> QED
      BY <1>2, <2>2, <3>2 DEF Down, UndoDown, OneUnit, TypeOK
  <2>4. LoadStillFresh'
    BY <1>2 DEF Down, LoadStillFresh, TypeOK, Goto, mem
  <2> QED
    BY <2>1, <2>3, <2>4
<1>3. ASSUME NEW p \in Process, Load(p) PROVE Inv'
  <2>1. TypeOK'
    BY <1>3 DEF Load, TypeOK, Goto, sem, env
  <2>2. Inside' = Inside
    BY <1>3 DEF Load, TypeOK, Goto, Inside
  <2>3. OneUnit'
    BY <1>3, <2>2 DEF Load, OneUnit, sem
  <2>4. LoadStillFresh'
    BY <1>3 DEF Load, LoadStillFresh, TypeOK, Goto, sem
  <2> QED
    BY <2>1, <2>3, <2>4
<1>4. ASSUME NEW p \in Process, Store(p) PROVE Inv'
  <2>1. TypeOK'
    BY <1>4 DEF Store, Stored, TypeOK, Goto, sem, env
  <2>2. Inside' = Inside
    BY <1>4 DEF Store, TypeOK, Goto, Inside
  <2>3. OneUnit'
    BY <1>4, <2>2 DEF Store, OneUnit, sem
  <2>4. LoadStillFresh'
    \* Undisturbed, no other process is about to store.
    BY <1>4 DEF Store, LoadStillFresh, OneUnit, Inside, TypeOK, Goto, sem
  <2> QED
    BY <2>1, <2>3, <2>4
<1>5. ASSUME NEW p \in Process, Up(p) PROVE Inv'
  <2>1. TypeOK'
    BY <1>5 DEF Up, TypeOK, Goto, mem, env
  <2>2. p \in Inside /\ Inside' = Inside \ {p}
    BY <1>5 DEF Up, TypeOK, Goto, Inside
  <2>3. OneUnit'
    <3>1. SUFFICES ASSUME ~disturbed PROVE OneUnit'
      BY <1>5 DEF Up, OneUnit
    <3>2. ready /\ Inside = {p} /\ semval = 0 /\ Inside' = {}
      BY <2>2, <3>1 DEF OneUnit
    <3> QED
      BY <1>5, <2>2, <3>1, <3>2 DEF Up, OneUnit, TypeOK
  <2>4. LoadStillFresh'
    BY <1>5 DEF Up, LoadStillFresh, TypeOK, Goto, mem
  <2> QED
    BY <2>1, <2>3, <2>4
<1>6. ASSUME NEW p \in Process, Create(p) \/ Attach(p) PROVE Inv'
  <2>1. TypeOK'
    BY <1>6 DEF Create, Attach, TypeOK, Goto, mem, sem, env
  <2>2. Inside' = Inside
    BY <1>6 DEF Create, Attach, TypeOK, Goto, Inside
  <2>3. OneUnit'
    BY <1>6, <2>2 DEF Create, Attach, OneUnit, sem
  <2>4. LoadStillFresh'
    BY <1>6 DEF Create, Attach, LoadStillFresh, TypeOK, Goto, mem, sem
  <2> QED
    BY <2>1, <2>3, <2>4
<1>7. ASSUME NEW p \in Process, Kill(p) \/ InterruptProducer(p) PROVE Inv'
  <2>1. Exit(p) /\ kills' \in Nat /\ stops' \in Nat
    BY <1>7 DEF Kill, InterruptProducer, TypeOK
  <2> QED
    BY <2>1, ExitInv
<1>8. ASSUME NEW p \in Process, InterruptConsumer(p) PROVE Inv'
  <2>1. TypeOK'
    BY <1>8 DEF InterruptConsumer, TypeOK, Goto, mem
  <2>2. disturbed'
    BY <1>8 DEF InterruptConsumer
  <2> QED
    BY <2>1, <2>2 DEF OneUnit, LoadStillFresh
<1>9. CASE Observe \/ UNCHANGED vars
  BY <1>9 DEF Observe, vars, mem, sem, env, TypeOK, OneUnit, LoadStillFresh, Inside
<1> QED
  BY <1>1, <1>2, <1>3, <1>4, <1>5, <1>6, <1>7, <1>8, <1>9 DEF Next, Step

\* As long as no blocked semop is interrupted and no SETVAL hits a process
\* inside, the semaphore guards one process, through any kills and restarts.
THEOREM Safety == Spec => []Inv
BY InitInv, NextInv, PTL DEF Spec

\* Between two undisturbed states the processes implement the atomic counter:
\* in particular no increment is lost.
THEOREM NoLoss == Spec => AtomicWhileUndisturbed
<1> DEFINE Step1 == Atomic!Increment \/ Atomic!Observe \/ UNCHANGED Atomic!vars
<1>1. Init => Atomic!Init
  BY DEF Init, Atomic!Init
<1>2. Inv /\ [Next]_vars => [~disturbed /\ ~disturbed' => Step1]_vars
  <2> SUFFICES ASSUME Inv, Next, ~disturbed PROVE Step1
    OBVIOUS
  <2>1. ASSUME NEW p \in Process, Store(p) PROVE Atomic!Increment
    BY <2>1 DEF Store, Stored, Inv, TypeOK, LoadStillFresh, Atomic!Increment
  <2>2. CASE Observe
    BY <2>2 DEF Observe, mem, Atomic!Observe
  <2>3. CASE UNCHANGED <<cal_num, incs, shown>>
    BY <2>3 DEF Atomic!vars
  <2>4. (\E p \in Process : Store(p)) \/ Observe \/ UNCHANGED <<cal_num, incs, shown>>
    BY DEF Next, Step, SetVal, Down, Load, Up, Create, Attach, Kill,
           Exit, InterruptProducer, InterruptConsumer, mem
  <2> QED
    BY <2>1, <2>2, <2>3, <2>4
<1> QED
  BY <1>1, <1>2, Safety, PTL DEF Spec, AtomicWhileUndisturbed

\* What a process holds was at most the number of stores, plus its own, when it
\* loaded it, and stores only become more.
LocalsBounded == \A p \in Process : local_var[p] <= incs + 1

\* Disturbed or not, the counter never runs ahead of the stores made to it.
THEOREM NoOvercount == Spec => []NeverOvercounts
<1>1. Init => NeverOvercounts /\ LocalsBounded
  BY DEF Init, NeverOvercounts, LocalsBounded
<1>2. Inv /\ NeverOvercounts /\ LocalsBounded /\ [Next]_vars
        => (NeverOvercounts /\ LocalsBounded)'
  <2> SUFFICES ASSUME Inv, NeverOvercounts, LocalsBounded, [Next]_vars
               PROVE (NeverOvercounts /\ LocalsBounded)'
    OBVIOUS
  <2> USE DEF Inv, TypeOK, NeverOvercounts, LocalsBounded
  <2>1. ASSUME NEW p \in Process, Load(p) \/ Store(p)
        PROVE (NeverOvercounts /\ LocalsBounded)'
    BY <2>1 DEF Load, Store, Stored
  <2>2. (\E p \in Process : Load(p) \/ Store(p)) \/ UNCHANGED mem
    BY DEF Next, Step, Observe, SetVal, Down, Up, Create, Attach, Kill,
           Exit, InterruptProducer, InterruptConsumer, vars, mem
  <2>3. CASE UNCHANGED mem
    BY <2>3 DEF mem
  <2> QED
    BY <2>1, <2>2, <2>3
<1> QED
  BY <1>1, <1>2, Safety, PTL DEF Spec
-----------------------------------------------------------------------------
(* NeverWedged.  OneUnit says nothing once disturbed is TRUE: processes give *)
(* back units they have not taken, SETVAL forgets who has taken one.  What   *)
(* remains is a ledger: the value and the kernel's undo values add up to one *)
(* unit at least, and a process outside never has one to its credit.         *)

\* The processes the kernel has a taken unit on record for; the units given back
\* by processes that had not taken them.
Taken(adj) == {p \in Process : adj[p] > 0}
OwedBy(adj, p) == {<<p, k>> : k \in 1 .. 0 - adj[p]}
OwedByOthers(adj, p) == UNION {OwedBy(adj, q) : q \in Process \ {p}}
Owed(adj) == UNION {OwedBy(adj, p) : p \in Process}
Countable(adj) == adj \in [Process -> Int] /\ IsFiniteSet(Taken(adj)) /\ IsFiniteSet(Owed(adj))
Balance(adj) == Cardinality(Taken(adj)) - Cardinality(Owed(adj))

\* The units owed, those of one process counted apart.
LEMMA OwedParts ==
  ASSUME NEW adj \in [Process -> Int], NEW p \in Process, IsFiniteSet(OwedByOthers(adj, p))
  PROVE  /\ IsFiniteSet(Owed(adj))
         /\ Cardinality(Owed(adj)) = Cardinality(OwedByOthers(adj, p)) + (IF adj[p] < 0 THEN 0 - adj[p] ELSE 0)
<1> DEFINE n == 0 - adj[p]
           f == [k \in 1..n |-> <<p, k>>]
           mine == OwedBy(adj, p)
           rest == OwedByOthers(adj, p)
<1>1. f \in Bijection(1..n, mine)
  <2>1. f \in [1..n -> mine] /\ \A j, k \in 1..n : f[j] = f[k] => j = k
    BY DEF OwedBy
  <2>2. \A x \in mine : \E k \in 1..n : f[k] = x
    BY DEF OwedBy
  <2> HIDE DEF f, mine
  <2>3. QED
    <3>1. IsInjective(f)
      BY <2>1 DEF IsInjective
    <3>2. f \in Injection(1..n, mine)
      BY <2>1, <3>1 DEF Injection
    <3>3. f \in Surjection(1..n, mine)
      BY <2>1, <2>2 DEF Surjection
    <3> QED
      BY <3>2, <3>3 DEF Bijection
<1>2. n \in Int /\ IsFiniteSet(1..n) /\ Cardinality(1..n) = IF 1 > n THEN 0 ELSE n - 1 + 1
  <2>1. n \in Int
    OBVIOUS
  <2> HIDE DEF n
  <2> QED
    BY <2>1, FS_Interval
<1>3. IsFiniteSet(mine) /\ Cardinality(mine) = Cardinality(1..n)
  BY <1>1, <1>2, FS_Bijection DEF ExistsBijection
<1>4. Owed(adj) = rest \cup mine /\ rest \cap mine = {}
  BY DEF Owed, OwedByOthers, OwedBy
<1>5. Cardinality(rest \cap mine) = 0
  BY <1>4, FS_EmptySet
<1> HIDE DEF mine, rest
<1>6. IsFiniteSet(rest \cup mine) /\ Cardinality(rest \cup mine) = Cardinality(rest) + Cardinality(mine)
  <2>1. IsFiniteSet(rest)
    BY DEF rest
  <2>2. /\ IsFiniteSet(rest \cup mine)
        /\ Cardinality(rest \cup mine) = Cardinality(rest) + Cardinality(mine) - Cardinality(rest \cap mine)
    BY <1>3, <2>1, FS_Union
  <2>3. Cardinality(rest) \in Nat /\ Cardinality(mine) \in Nat
    BY <1>3, <2>1, FS_CardinalityType
  <2> QED
    BY <1>5, <2>2, <2>3
<1>7. Cardinality(mine) = IF adj[p] < 0 THEN 0 - adj[p] ELSE 0
  BY <1>2, <1>3
<1> QED
  BY <1>4, <1>6, <1>7 DEF rest

\* The processes that hold a unit when the record of one of them changes.
LEMMA TakenAdjusted ==
  ASSUME NEW adj \in [Process -> Int], IsFiniteSet(Taken(adj)), NEW p \in Process, adj[p] <= 1,
         NEW v \in Int, v <= 1, NEW new, new = [adj EXCEPT ![p] = v]
  PROVE  /\ IsFiniteSet(Taken(new))
         /\ Cardinality(Taken(new))
              = Cardinality(Taken(adj)) + (IF v > 0 THEN 1 ELSE 0) - (IF adj[p] > 0 THEN 1 ELSE 0)
<1>1. Cardinality(Taken(adj)) \in Nat
  BY FS_CardinalityType
<1>2. \A q \in Process : new[q] = IF q = p THEN v ELSE adj[q]
  OBVIOUS
<1>3. adj[p] \in Int /\ (v = 1 \/ v < 1) /\ (adj[p] = 1 \/ adj[p] < 1)
  OBVIOUS
<1>4. CASE (v = 1 /\ adj[p] = 1) \/ (v < 1 /\ adj[p] < 1)
  <2>1. Taken(new) = Taken(adj)
    BY <1>4, <1>2, <1>3 DEF Taken
  <2> QED
    BY <1>1, <1>4, <2>1
<1>5. CASE v = 1 /\ adj[p] < 1
  <2>1. Taken(new) = Taken(adj) \cup {p} /\ p \notin Taken(adj)
    BY <1>5, <1>2, <1>3 DEF Taken
  <2>2. IsFiniteSet(Taken(new)) /\ Cardinality(Taken(new)) = Cardinality(Taken(adj)) + 1
    <3>1. /\ IsFiniteSet(Taken(adj) \cup {p})
          /\ Cardinality(Taken(adj) \cup {p})
               = IF p \in Taken(adj) THEN Cardinality(Taken(adj)) ELSE Cardinality(Taken(adj)) + 1
      BY FS_AddElement
    <3> QED
      BY <2>1, <3>1
  <2> QED
    BY <1>1, <1>5, <2>2
<1>6. CASE v < 1 /\ adj[p] = 1
  <2>1. Taken(new) = Taken(adj) \ {p} /\ p \in Taken(adj)
    BY <1>6, <1>2, <1>3 DEF Taken
  <2>2. IsFiniteSet(Taken(new)) /\ Cardinality(Taken(new)) = Cardinality(Taken(adj)) - 1
    BY <2>1, FS_RemoveElement
  <2> QED
    BY <1>1, <1>6, <2>2
<1> QED
  BY <1>4, <1>5, <1>6, <1>3

\* The balance moves with the record of the one process that changes.
LEMMA Adjusted ==
  ASSUME NEW adj, Countable(adj), NEW p \in Process, adj[p] <= 1, NEW v \in Int, v <= 1,
         NEW new, new = [adj EXCEPT ![p] = v]
  PROVE  Countable(new) /\ Balance(new) \in Int /\ Balance(new) = Balance(adj) + v - adj[p]
<1>1. new \in [Process -> Int] /\ adj \in [Process -> Int] /\ new[p] = v /\ adj[p] \in Int
  BY DEF Countable
<1>2. OwedByOthers(new, p) = OwedByOthers(adj, p)
  BY <1>1 DEF OwedByOthers, OwedBy
<1>3. IsFiniteSet(OwedByOthers(adj, p)) /\ Cardinality(OwedByOthers(adj, p)) \in Nat
  <2>1. OwedByOthers(adj, p) \subseteq Owed(adj)
    BY DEF OwedByOthers, Owed
  <2> QED
    BY <2>1, FS_Subset, FS_CardinalityType DEF Countable
<1>4. Cardinality(Owed(adj)) = Cardinality(OwedByOthers(adj, p)) + (IF adj[p] < 0 THEN 0 - adj[p] ELSE 0)
  BY <1>1, <1>3, OwedParts
<1>5. /\ IsFiniteSet(Owed(new))
      /\ Cardinality(Owed(new)) = Cardinality(OwedByOthers(adj, p)) + (IF v < 0 THEN 0 - v ELSE 0)
  BY <1>1, <1>2, <1>3, OwedParts
<1>6. /\ IsFiniteSet(Taken(new)) /\ Cardinality(Taken(adj)) \in Nat
      /\ Cardinality(Taken(new))
           = Cardinality(Taken(adj)) + (IF v > 0 THEN 1 ELSE 0) - (IF adj[p] > 0 THEN 1 ELSE 0)
  BY <1>1, TakenAdjusted, FS_CardinalityType DEF Countable
<1>7. Countable(new)
  BY <1>1, <1>5, <1>6 DEF Countable
<1>8. Balance(new) \in Int /\ Balance(new) = Balance(adj) + v - adj[p]
  BY <1>1, <1>3, <1>4, <1>5, <1>6 DEF Balance
<1> QED
  BY <1>7, <1>8

Ledger ==
  /\ Countable(semadj)
  /\ \A p \in Process : semadj[p] <= IF p \in Inside THEN 1 ELSE 0
  /\ ready => semval + Balance(semadj) >= 1

\* Nobody has taken or given back anything.
LEMMA NothingRecorded ==
  ASSUME NEW adj, adj = [p \in Process |-> 0] PROVE Countable(adj) /\ Balance(adj) = 0
<1>1. Taken(adj) = {} /\ Owed(adj) = {}
  BY DEF Taken, Owed, OwedBy
<1> QED
  BY <1>1, FS_EmptySet DEF Countable, Balance

\* Every step balances the ledger.
LEMMA NextLedger == ASSUME Inv, Ledger, [Next]_vars PROVE Ledger'
<1> USE DEF Inv, TypeOK
<1>1. Balance(semadj) \in Int
  BY FS_CardinalityType DEF Ledger, Countable, Balance
<1>2. ASSUME NEW p \in Process, Down(p) PROVE Ledger'
  <2>1. /\ pc[p] = "down" /\ semval > 0 /\ semval' = semval - 1 /\ ready' = ready
        /\ semadj' = [semadj EXCEPT ![p] = semadj[p] + 1]
    BY <1>2 DEF Down, CanDown, UndoDown
  <2>2. Inside' = Inside \cup {p} /\ p \notin Inside
    BY <1>2 DEF Down, Inside, Goto
  <2>3. semadj[p] <= 0
    BY <2>2 DEF Ledger
  <2>4. Countable(semadj') /\ Balance(semadj') \in Int /\ Balance(semadj') = Balance(semadj) + 1
    <3>1. semadj[p] <= 1 /\ semadj[p] \in Int /\ semadj[p] + 1 \in Int /\ semadj[p] + 1 <= 1
      BY <2>3
    <3>2. /\ Countable(semadj') /\ Balance(semadj') \in Int
          /\ Balance(semadj') = Balance(semadj) + (semadj[p] + 1) - semadj[p]
      BY <2>1, <3>1, Adjusted DEF Ledger
    <3> QED
      BY <1>1, <3>1, <3>2
  <2>5. \A q \in Process : semadj'[q] <= IF q \in Inside' THEN 1 ELSE 0
    BY <2>1, <2>2, <2>3 DEF Ledger
  <2>6. ready' => semval' + Balance(semadj') >= 1
    BY <1>1, <2>1, <2>4 DEF Ledger
  <2> QED
    BY <2>4, <2>5, <2>6 DEF Ledger
<1>3. ASSUME NEW p \in Process, Up(p) PROVE Ledger'
  <2>1. /\ pc[p] = "up" /\ semval' = semval + 1 /\ ready' = ready
        /\ semadj' = [semadj EXCEPT ![p] = semadj[p] - 1]
    BY <1>3 DEF Up
  <2>2. Inside' = Inside \ {p}
    BY <1>3 DEF Up, Inside, Goto
  <2>3. semadj[p] <= 1
    BY <1>3 DEF Ledger
  <2>4. Countable(semadj') /\ Balance(semadj') \in Int /\ Balance(semadj') = Balance(semadj) - 1
    <3>1. semadj[p] \in Int /\ semadj[p] - 1 \in Int /\ semadj[p] - 1 <= 1
      BY <2>3
    <3>2. /\ Countable(semadj') /\ Balance(semadj') \in Int
          /\ Balance(semadj') = Balance(semadj) + (semadj[p] - 1) - semadj[p]
      BY <2>1, <2>3, <3>1, Adjusted DEF Ledger
    <3> QED
      BY <1>1, <3>1, <3>2
  <2>5. \A q \in Process : semadj'[q] <= IF q \in Inside' THEN 1 ELSE 0
    BY <2>1, <2>2, <2>3 DEF Ledger
  <2>6. ready' => semval' + Balance(semadj') >= 1
    BY <1>1, <2>1, <2>4 DEF Ledger
  <2> QED
    BY <2>4, <2>5, <2>6 DEF Ledger
<1>4. ASSUME NEW p \in Process, Exit(p) PROVE Ledger'
  <2>1. /\ ready' = ready /\ semval' \in Nat /\ semval' >= semval + semadj[p]
        /\ semadj' = [semadj EXCEPT ![p] = 0]
    BY <1>4 DEF Exit, Undone, mem
  <2>2. Inside' = Inside \ {p}
    BY <1>4 DEF Exit, Inside, Goto
  <2>3. semadj[p] <= 1 /\ semadj[p] \in Int
    BY DEF Ledger
  <2>4. /\ Countable(semadj') /\ Balance(semadj') \in Int
        /\ Balance(semadj') = Balance(semadj) + 0 - semadj[p]
    <3>1. Countable(semadj) /\ 0 \in Int /\ 0 <= 1
      BY DEF Ledger
    <3> HIDE DEF Inv, TypeOK
    <3> QED
      BY <2>1, <2>3, <3>1, Adjusted
  <2>5. \A q \in Process : semadj'[q] <= IF q \in Inside' THEN 1 ELSE 0
    BY <2>1, <2>2 DEF Ledger
  <2>6. ready' => semval' + Balance(semadj') >= 1
    BY <1>1, <2>1, <2>3, <2>4 DEF Ledger
  <2> QED
    BY <2>4, <2>5, <2>6 DEF Ledger
<1>5. ASSUME NEW p \in Process, SetVal(p) PROVE Ledger'
  <2>1. semadj' = [q \in Process |-> 0] /\ semval' = 1
    BY <1>5 DEF SetVal
  <2>2. Countable(semadj') /\ Balance(semadj') = 0
    BY <2>1, NothingRecorded
  <2>3. \A q \in Process : semadj'[q] <= IF q \in Inside' THEN 1 ELSE 0
    BY <2>1
  <2> QED
    BY <2>1, <2>2, <2>3 DEF Ledger
<1>6. ASSUME UNCHANGED <<semval, semadj, ready>>, Inside \subseteq Inside' PROVE Ledger'
  BY <1>6 DEF Ledger
<1>7. ASSUME NEW p \in Process, Load(p) \/ Store(p) \/ Create(p) \/ Attach(p) \/ InterruptConsumer(p)
      PROVE  UNCHANGED <<semval, semadj, ready>> /\ Inside \subseteq Inside'
  BY <1>7 DEF Load, Store, Create, Attach, InterruptConsumer, Goto, Inside, sem
<1>8. CASE Observe \/ UNCHANGED vars
  BY <1>6, <1>8 DEF Observe, vars, sem, Inside
<1> QED
  BY <1>2, <1>3, <1>4, <1>5, <1>6, <1>7, <1>8 DEF Next, Step, Kill, InterruptProducer

\* Whatever is killed, restarted, interrupted or initialised again, once the
\* semaphore has been set a process is inside or can get in: if nobody is
\* inside, no process has a unit to its credit, and the one unit of the ledger
\* is in the semaphore.
THEOREM NotWedged == Spec => []NeverWedged
<1>1. Init => Ledger
  BY NothingRecorded DEF Init, Ledger
<1>2. Inv /\ Ledger /\ [Next]_vars => Ledger'
  BY NextLedger
<1>3. Inv /\ Ledger => NeverWedged
  <2> SUFFICES ASSUME Inv, Ledger, ready, Inside = {}, semval = 0 PROVE FALSE
    BY DEF NeverWedged, Inv, TypeOK
  <2>1. Taken(semadj) = {}
    BY DEF Ledger, Taken, Inv, TypeOK
  <2>2. Cardinality(Taken(semadj)) = 0 /\ Cardinality(Owed(semadj)) \in Nat
    BY <2>1, FS_EmptySet, FS_CardinalityType DEF Ledger, Countable
  <2> QED
    BY <2>2 DEF Ledger, Balance
<1> QED
  BY <1>1, <1>2, <1>3, Safety, PTL DEF Spec
=============================================================================
