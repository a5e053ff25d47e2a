--------------------------- MODULE UpgradeProofs ---------------------------
(***************************************************************************)
(* Proofs about rolling upgrades and the hook of the applier, for any      *)
(* fleet, any number of runs and any versions.                             *)
(***************************************************************************)
EXTENDS Upgrade, FiniteSetTheorems, TLAPS

(***************************************************************************)
(* Different rows get different places, every place goes to a row, and a   *)
(* control plane gets a place before every worker (ListMachinesInOrder).   *)
(***************************************************************************)
LEMMA PlaceFacts ==
  /\ Len(MachineList) \in Nat
  /\ \A j \in 1..Len(MachineList) : PlaceOf(j) \in 1..Len(MachineList)
  /\ \A j, k \in 1..Len(MachineList) : PlaceOf(j) = PlaceOf(k) => j = k
  /\ \A p \in 1..Len(MachineList) : \E j \in 1..Len(MachineList) : PlaceOf(j) = p
  /\ \A j, k \in 1..Len(MachineList) :
       IsControlPlane(j) /\ ~IsControlPlane(k) => PlaceOf(j) < PlaceOf(k)
  <1> DEFINE N == Len(MachineList)
             UpTo(j) == {k \in 1..N : NotAfter(k, j)}
  <1>1. N \in Nat
    BY UpgradeAssumption DEF UpgradeAssumption
  <1>2. IsFiniteSet(1..N) /\ Cardinality(1..N) = N
    BY <1>1, FS_Interval, SMTT(30)
  <1>3. ASSUME NEW j \in 1..N
        PROVE  /\ UpTo(j) \subseteq 1..N /\ IsFiniteSet(UpTo(j))
               /\ PlaceOf(j) = Cardinality(UpTo(j)) /\ PlaceOf(j) \in Nat
               /\ PlaceOf(j) <= N /\ j \in UpTo(j)
    <2>1. UpTo(j) \in SUBSET (1..N)
      OBVIOUS
    <2>2. IsFiniteSet(UpTo(j)) /\ Cardinality(UpTo(j)) <= N
      BY <1>2, <2>1, FS_Subset
    <2>3. PlaceOf(j) = Cardinality(UpTo(j))
      BY DEF PlaceOf
    <2>4. Cardinality(UpTo(j)) \in Nat
      BY <2>2, FS_CardinalityType
    <2>5. NotAfter(j, j)
      BY <1>1 DEF NotAfter
    <2> QED BY <2>1, <2>2, <2>3, <2>4, <2>5
  <1>4. ASSUME NEW j \in 1..N
        PROVE  PlaceOf(j) \in 1..N
    <2>1. Cardinality(UpTo(j)) # 0
      BY <1>3, FS_EmptySet
    <2>2. PlaceOf(j) \in Nat /\ PlaceOf(j) <= N /\ PlaceOf(j) # 0
      BY <1>3, <2>1
    <2> QED BY <1>1, <2>2
  <1>5. ASSUME NEW j \in 1..N, NEW k \in 1..N, NotAfter(j, k)
        PROVE  UpTo(j) \subseteq UpTo(k)
    BY <1>1, <1>5 DEF NotAfter
  <1>6. \A j, k \in 1..N : NotAfter(j, k) \/ NotAfter(k, j)
    BY <1>1 DEF NotAfter
  <1>7. \A j, k \in 1..N : NotAfter(j, k) /\ NotAfter(k, j) => j = k
    BY <1>1 DEF NotAfter
  <1>8. ASSUME NEW j \in 1..N, NEW k \in 1..N, NotAfter(j, k), j # k
        PROVE  PlaceOf(j) < PlaceOf(k)
    <2>1. UpTo(j) \subseteq UpTo(k) /\ k \in UpTo(k) /\ k \notin UpTo(j)
      BY <1>3, <1>5, <1>7, <1>8
    <2>2. /\ Cardinality(UpTo(j)) <= Cardinality(UpTo(k))
          /\ Cardinality(UpTo(k)) # Cardinality(UpTo(j))
      BY <1>3, <2>1, FS_Subset
    <2>3. /\ PlaceOf(j) = Cardinality(UpTo(j)) /\ PlaceOf(j) \in Nat
          /\ PlaceOf(k) = Cardinality(UpTo(k)) /\ PlaceOf(k) \in Nat
      BY <1>3
    <2> HIDE DEF UpTo
    <2> QED BY <2>2, <2>3
  <1> HIDE DEF N, UpTo
  <1>9. \A j, k \in 1..N : PlaceOf(j) = PlaceOf(k) => j = k
    <2> SUFFICES ASSUME NEW j \in 1..N, NEW k \in 1..N, j # k
                 PROVE  PlaceOf(j) # PlaceOf(k)
      OBVIOUS
    <2>1. PlaceOf(j) \in Nat /\ PlaceOf(k) \in Nat
      BY <1>3
    <2> QED BY <1>6, <1>8, <2>1
  <1>10. ASSUME NEW p \in 1..N
         PROVE  \E j \in 1..N : PlaceOf(j) = p
    <2> DEFINE f == [j \in 1..N |-> PlaceOf(j)]
    <2>1. f \in Injection(1..N, 1..N)
      BY <1>4, <1>9 DEF Injection, IsInjective
    <2>2. f \in Surjection(1..N, 1..N)
      BY <1>2, <2>1, FS_Injection
    <2> QED BY <2>2 DEF Surjection
  <1>11. ASSUME NEW j \in 1..N, NEW k \in 1..N, IsControlPlane(j), ~IsControlPlane(k)
         PROVE  PlaceOf(j) < PlaceOf(k)
    <2>1. NotAfter(j, k) /\ j # k
      BY <1>11 DEF NotAfter
    <2> QED BY <1>8, <2>1
  <1> QED BY <1>1, <1>4, <1>9, <1>10, <1>11 DEF N

(***************************************************************************)
(* What ListMachinesInOrder returns for any fleet: every machine has a     *)
(* place, and control planes come before workers.                          *)
(***************************************************************************)
LEMMA OrderIsComplete ==
  /\ ListMachinesInOrder \in [1..Len(MachineList) -> Fleet]
  /\ \A m \in Fleet : \E j \in 1..Len(MachineList) : ListMachinesInOrder[j] = m
  /\ \A i, j \in 1..Len(MachineList) :
       (i < j /\ ListMachinesInOrder[j] \in ControlPlanes)
         => ListMachinesInOrder[i] \in ControlPlanes
  <1> DEFINE N == Len(MachineList)
             Row(p) == CHOOSE j \in 1..N : PlaceOf(j) = p
  <1>1. N \in Nat /\ DOMAIN MachineList = 1..N
    BY UpgradeAssumption DEF UpgradeAssumption
  <1>2. /\ \A m \in Fleet : \E j \in 1..N : MachineList[j] = m
        /\ \A j \in 1..N : MachineList[j] \in Fleet
    BY <1>1 DEF Fleet, Range
  <1>3. ASSUME NEW p \in 1..N
        PROVE  Row(p) \in 1..N /\ PlaceOf(Row(p)) = p
    BY PlaceFacts
  <1>4. ASSUME NEW p \in 1..N
        PROVE  ListMachinesInOrder[p] = MachineList[Row(p)]
    BY DEF ListMachinesInOrder
  <1>5. \A j \in 1..N : Row(PlaceOf(j)) = j
    BY <1>3, PlaceFacts
  <1> HIDE DEF Row
  <1>6. ListMachinesInOrder \in [1..N -> Fleet]
    <2>1. ListMachinesInOrder = [p \in 1..N |-> ListMachinesInOrder[p]]
      BY DEF ListMachinesInOrder
    <2> QED BY <1>2, <1>3, <1>4, <2>1
  <1>7. ASSUME NEW m \in Fleet
        PROVE  \E j \in 1..N : ListMachinesInOrder[j] = m
    <2>1. PICK j \in 1..N : MachineList[j] = m
      BY <1>2
    <2>2. PlaceOf(j) \in 1..N
      BY PlaceFacts
    <2> QED BY <1>4, <1>5, <2>1, <2>2
  <1>8. ASSUME NEW i \in 1..N, NEW j \in 1..N, i < j,
               ListMachinesInOrder[j] \in ControlPlanes,
               ListMachinesInOrder[i] \notin ControlPlanes
        PROVE  FALSE
    <2>1. IsControlPlane(Row(j)) /\ ~IsControlPlane(Row(i))
      BY <1>4, <1>8 DEF IsControlPlane
    <2>2. j < i
      BY <1>3, <2>1, PlaceFacts, SMTT(30)
    <2> QED BY <1>1, <1>8, <2>2
  <1> QED BY <1>6, <1>7, <1>8

(***************************************************************************)
(* The first machines of the order, one by one.                            *)
(***************************************************************************)
LEMMA OrderFacts ==
  /\ Len(MachineList) \in Nat
  /\ \A j \in 1..Len(MachineList) : ListMachinesInOrder[j] \in Fleet
  /\ \A m \in Fleet : \E j \in 1..Len(MachineList) : ListMachinesInOrder[j] = m
  /\ FirstMachines(0) = {}
  /\ FirstMachines(Len(MachineList)) = Fleet
  /\ \A k \in 0..Len(MachineList) : FirstMachines(k) \subseteq Fleet
  /\ \A k \in 1..Len(MachineList) :
       FirstMachines(k) = FirstMachines(k - 1) \cup {ListMachinesInOrder[k]}
  <1>1. Len(MachineList) \in Nat
    BY UpgradeAssumption DEF UpgradeAssumption
  <1>2. \A j \in 1..Len(MachineList) : ListMachinesInOrder[j] \in Fleet
    BY OrderIsComplete
  <1>3. \A m \in Fleet : \E j \in 1..Len(MachineList) : ListMachinesInOrder[j] = m
    BY OrderIsComplete
  <1>4. FirstMachines(0) = {}
    BY DEF FirstMachines
  <1>5. FirstMachines(Len(MachineList)) = Fleet
    BY <1>2, <1>3 DEF FirstMachines
  <1>6. \A k \in 0..Len(MachineList) : FirstMachines(k) \subseteq Fleet
    BY <1>1, <1>2 DEF FirstMachines
  <1>7. ASSUME NEW k \in 1..Len(MachineList)
        PROVE  FirstMachines(k) = FirstMachines(k - 1) \cup {ListMachinesInOrder[k]}
    <2>1. \A j \in Int : j \in 1..k <=> (j \in 1..(k - 1) \/ j = k)
      BY <1>1
    <2> QED BY <2>1 DEF FirstMachines
  <1> QED BY <1>1, <1>2, <1>3, <1>4, <1>5, <1>6, <1>7

(***************************************************************************)
(* The first k machines of the order are a prefix of the list.             *)
(***************************************************************************)
LEMMA PrefixFacts ==
  ASSUME NEW k \in 0..Len(MachineList)
  PROVE  Range(SubSeq(ListMachinesInOrder, 1, k)) = FirstMachines(k)
  <1>1. k \in Nat /\ Len(MachineList) \in Nat
    BY OrderFacts
  <1>2. ListMachinesInOrder \in Seq(Fleet) /\ Len(ListMachinesInOrder) = Len(MachineList)
    BY <1>1, OrderIsComplete
  <1>3. /\ DOMAIN SubSeq(ListMachinesInOrder, 1, k) = 1..k
        /\ \A j \in 1..k : SubSeq(ListMachinesInOrder, 1, k)[j] = ListMachinesInOrder[j]
    BY <1>1, <1>2
  <1> QED BY <1>3 DEF Range, FirstMachines

(***************************************************************************)
(* A roller, a run's progress and its record depend on nothing but the     *)
(* entries of the roller: what a step leaves alone stays right.            *)
(***************************************************************************)
LEMMA RollerFrame ==
  ASSUME NEW s \in Rollers, RollerOK(s),
         roll'[s] = roll[s], touched'[s] = touched[s]
  PROVE  RollerOK(s)'
  BY DEF RollerOK, FirstMachines

(***************************************************************************)
(* The same for the progress and the record of a run.                      *)
(***************************************************************************)
LEMMA RunFrame ==
  ASSUME NEW s \in Runs, ProgressOK(s), RecordOK(s),
         roll'[s] = roll[s], touched'[s] = touched[s], row'[s] = row[s],
         s \in running' <=> s \in running,
         s \in orphaned' <=> s \in orphaned
  PROVE  ProgressOK(s)' /\ RecordOK(s)'
  BY DEF ProgressOK, RecordOK, FirstMachines

(***************************************************************************)
(* The first state: nothing rolls and nothing is recorded.                 *)
(***************************************************************************)
LEMMA UpgradeInitInv == UpgradeInit => UpgradeInv
  <1> SUFFICES ASSUME UpgradeInit PROVE UpgradeInv
    OBVIOUS
  <1> USE DEF UpgradeInit
  <1>1. Oldest \in Versions
    BY UpgradeAssumption DEF UpgradeAssumption, Oldest
  <1>2. Len(MachineList) \in Nat /\ FirstMachines(0) = {}
    BY OrderFacts
  <1>3. Hook \in Rollers /\ Runs \subseteq Rollers
    BY DEF Rollers
  <1>4. UpgradeTypeOK
    <2>1. IdleRoll \in RollState
      BY <1>2 DEF IdleRoll, RollState
    <2>2. NoRow \in RunRow
      BY <1>2 DEF NoRow, RunRow, RunPhases
    <2>3. [ver |-> Oldest, prev |-> 0, staged |-> 0] \in NodeState
      BY <1>1 DEF NodeState
    <2>4. edits \in 0..MaxEdits /\ crashes \in 0..MaxCrashes
      BY UpgradeAssumption DEF UpgradeAssumption
    <2> QED BY <1>1, <2>1, <2>2, <2>3, <2>4 DEF UpgradeTypeOK
  <1>5. RollInv
    BY DEF RollInv, RollerOK, IdleRoll
  <1>6. ProgressInv
    BY <1>2, <1>3 DEF ProgressInv, ProgressOK, IdleRoll, NoRow
  <1>7. RecordInv
    BY <1>3 DEF RecordInv, RecordOK, IdleRoll, NoRow
  <1>8. HookInv
    BY <1>3 DEF HookInv, UniformDriftUpgradedFirst, IdleRoll
  <1> QED BY <1>4, <1>5, <1>6, <1>7, <1>8 DEF UpgradeInv

(***************************************************************************)
(* What every step of rollUpgrade has in common: it moves one roller that  *)
(* is under way, may write the row of that run, and leaves the applier,    *)
(* the other rollers and Manager.running alone.                            *)
(***************************************************************************)
RollShape(r) ==
  /\ UNCHANGED <<spec, reported, cached, running, canceled, applier, edits,
                 crashes, orphaned, drift>>
  /\ node' \in [Fleet -> NodeState]
  /\ roll[r].pc # "idle" /\ roll'[r].pc # "idle"
  /\ roll'[r].from = roll[r].from /\ roll'[r].target = roll[r].target
  /\ roll'[r] \in RollState
  /\ touched'[r] \subseteq Fleet
  /\ roll' = [roll EXCEPT ![r] = roll'[r]]
  /\ touched' = [touched EXCEPT ![r] = touched'[r]]
  /\ \/ row' = row
     \/ /\ r \in Runs
        /\ row' = [row EXCEPT ![r] = row'[r]]
        /\ row'[r] \in RunRow
        /\ row'[r].phase # "none" /\ row'[r].ended = row[r].ended

(***************************************************************************)
(* A step of that shape keeps the inductive invariant, if it keeps the     *)
(* part about the roller it moves.                                         *)
(***************************************************************************)
LEMMA RollShapeStep ==
  ASSUME UpgradeInv, NEW r \in Rollers, RollShape(r),
         RollerOK(r)', r \in Runs => ProgressOK(r)'
  PROVE  UpgradeInv'
  <1>1. /\ UpgradeTypeOK /\ HookInv
        /\ \A s \in Rollers : RollerOK(s)
        /\ \A s \in Runs : ProgressOK(s) /\ RecordOK(s)
    BY DEF UpgradeInv, RollInv, ProgressInv, RecordInv
  <1>2. /\ roll \in [Rollers -> RollState] /\ touched \in [Rollers -> SUBSET Fleet]
        /\ row \in [Runs -> RunRow]
    BY <1>1 DEF UpgradeTypeOK
  <1>3. Hook \in Rollers /\ Hook \notin Runs /\ \A s \in Runs : s \in Rollers
    BY UpgradeAssumption DEF UpgradeAssumption, Rollers
  <1>4. /\ \A s \in Rollers : s # r => roll'[s] = roll[s] /\ touched'[s] = touched[s]
        /\ \A s \in Runs : s # r => row'[s] = row[s]
    BY <1>2, <1>3 DEF RollShape
  <1>5. UpgradeTypeOK'
    <2>1. roll' \in [Rollers -> RollState]
      BY <1>2 DEF RollShape
    <2>2. touched' \in [Rollers -> SUBSET Fleet]
      BY <1>2 DEF RollShape
    <2>3. row' \in [Runs -> RunRow]
      BY <1>2 DEF RollShape
    <2> QED BY <1>1, <2>1, <2>2, <2>3 DEF UpgradeTypeOK, RollShape
  <1>6. RollInv'
    BY <1>1, <1>4, RollerFrame DEF RollInv
  <1>7. ASSUME NEW s \in Runs
        PROVE  ProgressOK(s)' /\ RecordOK(s)'
    <2>0. running' = running /\ orphaned' = orphaned
      BY DEF RollShape
    <2>1. CASE s # r
      BY <1>1, <1>3, <1>4, <2>0, <2>1, RunFrame
    <2>2. CASE s = r
      <3>1. r \in Runs /\ RecordOK(r) /\ roll[r].pc # "idle" /\ roll'[r].pc # "idle"
        BY <1>1, <2>2 DEF RollShape
      <3>2. row'[r].phase # "none" /\ row'[r].ended = row[r].ended
        BY <3>1 DEF RollShape, RecordOK
      <3>3. RecordOK(r)'
        BY <2>0, <3>1, <3>2 DEF RecordOK
      <3> QED BY <2>2, <3>1, <3>3
    <2> QED BY <2>1, <2>2
  <1>8. HookInv'
    <2>1. CASE r = Hook
      <3>1. applier' = "upgrading"
        BY <1>1, <2>1 DEF RollShape, HookInv, UpgradeTypeOK
      <3>2. roll'[Hook].from # roll'[Hook].target
        BY <1>1, <2>1 DEF RollShape, HookInv
      <3> QED BY <3>1, <3>2 DEF HookInv, UniformDriftUpgradedFirst
    <2>2. CASE r # Hook
      <3>1. roll'[Hook] = roll[Hook] /\ touched'[Hook] = touched[Hook]
        BY <1>3, <1>4, <2>2
      <3>2. applier' = applier /\ drift' = drift
        BY DEF RollShape
      <3> QED BY <1>1, <3>1, <3>2 DEF HookInv, UniformDriftUpgradedFirst
    <2> QED BY <2>1, <2>2
  <1> QED BY <1>5, <1>6, <1>7, <1>8 DEF UpgradeInv, ProgressInv, RecordInv

(***************************************************************************)
(* persistStatus writes the row of a run, and no row for the hook.         *)
(***************************************************************************)
LEMMA PersistFacts ==
  ASSUME UpgradeTypeOK, NEW r \in Rollers, NEW ph \in RunPhases \ {"none"},
         NEW c \in 0..Len(MachineList), Persist(r, ph, c)
  PROVE  \/ r \notin Runs /\ row' = row
         \/ /\ r \in Runs
            /\ row' = [row EXCEPT ![r] = row'[r]]
            /\ row'[r] \in RunRow
            /\ row'[r].phase = ph /\ row'[r].ended = row[r].ended
            /\ row'[r].completed = c
  <1>1. CASE r \in Runs
    <2>1. row \in [Runs -> RunRow] /\ row[r] \in RunRow
      BY <1>1 DEF UpgradeTypeOK
    <2>2. row' = [row EXCEPT ![r] = [phase |-> ph, completed |-> c, ended |-> row[r].ended]]
      BY <1>1, <2>1 DEF Persist, RunRow
    <2>3. row'[r] = [phase |-> ph, completed |-> c, ended |-> row[r].ended]
      BY <1>1, <2>1, <2>2
    <2> QED BY <1>1, <2>1, <2>2, <2>3 DEF RunRow
  <1>2. CASE r \notin Runs
    BY <1>2 DEF Persist
  <1> QED BY <1>1, <1>2

(***************************************************************************)
(* A step that changes where a roller is keeps the versions it was started *)
(* with.  The three forms of the assignment come to the same entries.      *)
(***************************************************************************)
Moves(r, pc, i, phase) ==
  /\ roll'[r].pc = pc /\ roll'[r].i = i /\ roll'[r].phase = phase
  /\ roll'[r].from = roll[r].from /\ roll'[r].target = roll[r].target
  /\ roll'[r] \in RollState
  /\ roll' = [roll EXCEPT ![r] = roll'[r]]

\* The forms of the assignment to a roller's entry make such a move.
LEMMA MoveFacts ==
  ASSUME UpgradeTypeOK, NEW r \in Rollers,
         NEW pc \in {"start", "next", "upgrade", "health", "final"},
         NEW i \in 0..(Len(MachineList) + 1), NEW phase \in RunPhases
  PROVE  /\ roll' = [roll EXCEPT ![r].pc = pc] => Moves(r, pc, roll[r].i, roll[r].phase)
         /\ roll' = [roll EXCEPT ![r].pc = pc, ![r].i = i] => Moves(r, pc, i, roll[r].phase)
         /\ roll' = [roll EXCEPT ![r].pc = pc, ![r].phase = phase]
              => Moves(r, pc, roll[r].i, phase)
  <1>1. roll \in [Rollers -> RollState] /\ roll[r] \in RollState
    BY DEF UpgradeTypeOK
  <1>2. ASSUME NEW x \in RollState, roll' = [roll EXCEPT ![r] = x]
        PROVE  roll'[r] = x /\ roll' = [roll EXCEPT ![r] = roll'[r]]
    BY <1>1, <1>2
  <1>3. ASSUME roll' = [roll EXCEPT ![r].pc = pc]
        PROVE  Moves(r, pc, roll[r].i, roll[r].phase)
    <2> DEFINE x == [roll[r] EXCEPT !.pc = pc]
    <2>1. /\ x.pc = pc /\ x.i = roll[r].i /\ x.phase = roll[r].phase
          /\ x.from = roll[r].from /\ x.target = roll[r].target
      BY <1>1 DEF RollState
    <2>2. x \in RollState
      BY <1>1 DEF RollState
    <2>3. roll' = [roll EXCEPT ![r] = x]
      BY <1>1, <1>3
    <2> HIDE DEF x
    <2> QED BY <1>2, <2>1, <2>2, <2>3 DEF Moves
  <1>4. ASSUME roll' = [roll EXCEPT ![r].pc = pc, ![r].i = i]
        PROVE  Moves(r, pc, i, roll[r].phase)
    <2> DEFINE x == [roll[r] EXCEPT !.pc = pc, !.i = i]
    <2>1. /\ x.pc = pc /\ x.i = i /\ x.phase = roll[r].phase
          /\ x.from = roll[r].from /\ x.target = roll[r].target
      BY <1>1 DEF RollState
    <2>2. x \in RollState
      BY <1>1 DEF RollState
    <2>3. roll' = [roll EXCEPT ![r] = x]
      BY <1>1, <1>4
    <2> HIDE DEF x
    <2> QED BY <1>2, <2>1, <2>2, <2>3 DEF Moves
  <1>5. ASSUME roll' = [roll EXCEPT ![r].pc = pc, ![r].phase = phase]
        PROVE  Moves(r, pc, roll[r].i, phase)
    <2> DEFINE x == [roll[r] EXCEPT !.pc = pc, !.phase = phase]
    <2>1. /\ x.pc = pc /\ x.i = roll[r].i /\ x.phase = phase
          /\ x.from = roll[r].from /\ x.target = roll[r].target
      BY <1>1 DEF RollState
    <2>2. x \in RollState
      BY <1>1 DEF RollState
    <2>3. roll' = [roll EXCEPT ![r] = x]
      BY <1>1, <1>5
    <2> HIDE DEF x
    <2> QED BY <1>2, <2>1, <2>2, <2>3 DEF Moves
  <1> QED BY <1>3, <1>4, <1>5

(***************************************************************************)
(* Rolling back leaves the machines typed, whichever way it goes.          *)
(***************************************************************************)
LEMMA RollbackFacts ==
  ASSUME UpgradeTypeOK, NEW r \in Rollers, NEW m \in Fleet, RollbackMachine(r, m)
  PROVE  node' \in [Fleet -> NodeState]
  <1>1. node \in [Fleet -> NodeState] /\ node[m] \in NodeState
    BY DEF UpgradeTypeOK
  <1>2. RolledBack(node[m]) \in NodeState
    BY <1>1 DEF RolledBack, NodeState
  <1> QED BY <1>1, <1>2 DEF RollbackMachine

(***************************************************************************)
(* A step of rollUpgrade keeps the inductive invariant, for a run of the   *)
(* API as for the hook.                                                    *)
(***************************************************************************)
LEMMA RollKeeps ==
  ASSUME UpgradeInv, NEW r \in Rollers, Roll(r)
  PROVE  UpgradeInv'
  <1> DEFINE n == Len(MachineList)
             i == roll[r].i
  <1>0. /\ UpgradeTypeOK /\ RollerOK(r) /\ (r \in Runs => ProgressOK(r) /\ RecordOK(r))
    BY DEF UpgradeInv, RollInv, ProgressInv, RecordInv
  <1>1. /\ roll[r] \in RollState /\ touched[r] \subseteq Fleet
        /\ touched = [touched EXCEPT ![r] = touched[r]]
        /\ touched \in [Rollers -> SUBSET Fleet]
        /\ node \in [Fleet -> NodeState]
        /\ roll \in [Rollers -> RollState]
        /\ r \in Runs => row[r] \in RunRow
    BY <1>0 DEF UpgradeTypeOK
  <1>2. /\ n \in Nat /\ i \in 0..(n + 1) /\ roll[r].phase \in RunPhases \cup {"idle"}
        /\ roll[r].target \in Versions \cup {0}
    BY <1>1, OrderFacts DEF RollState
  <1>3. "complete" \in RunPhases /\ "failed" \in RunPhases /\ "canceled" \in RunPhases
    BY DEF RunPhases
  <1>4. /\ \A ph \in RunPhases : End(r, ph) => Moves(r, "final", i, ph)
        /\ roll' = [roll EXCEPT ![r].pc = "next", ![r].i = 1]
             => Moves(r, "next", 1, roll[r].phase)
        /\ i + 1 <= n + 1 /\ roll' = [roll EXCEPT ![r].pc = "next", ![r].i = i + 1]
             => Moves(r, "next", i + 1, roll[r].phase)
        /\ roll' = [roll EXCEPT ![r].pc = "upgrade"]
             => Moves(r, "upgrade", i, roll[r].phase)
        /\ roll' = [roll EXCEPT ![r].pc = "health"]
             => Moves(r, "health", i, roll[r].phase)
    <2>1. ASSUME NEW ph \in RunPhases, End(r, ph)
          PROVE  Moves(r, "final", i, ph)
      BY <1>0, <1>2, <2>1, MoveFacts DEF End
    <2>2. ASSUME roll' = [roll EXCEPT ![r].pc = "next", ![r].i = 1]
          PROVE  Moves(r, "next", 1, roll[r].phase)
      <3>1. 1 \in 0..(n + 1)
        BY <1>2
      <3> QED BY <1>0, <1>3, <2>2, <3>1, MoveFacts
    <2>3. ASSUME i + 1 <= n + 1, roll' = [roll EXCEPT ![r].pc = "next", ![r].i = i + 1]
          PROVE  Moves(r, "next", i + 1, roll[r].phase)
      <3>1. i + 1 \in 0..(n + 1)
        BY <1>2, <2>3
      <3> QED BY <1>0, <1>3, <2>3, <3>1, MoveFacts
    <2>4. ASSUME roll' = [roll EXCEPT ![r].pc = "upgrade"]
          PROVE  Moves(r, "upgrade", i, roll[r].phase)
      BY <1>0, <1>2, <1>3, <2>4, MoveFacts
    <2>5. ASSUME roll' = [roll EXCEPT ![r].pc = "health"]
          PROVE  Moves(r, "health", i, roll[r].phase)
      BY <1>0, <1>2, <1>3, <2>5, MoveFacts
    <2> QED BY <2>1, <2>2, <2>3, <2>4, <2>5
  <1>5. CASE RollStart(r)
    <2>1. /\ roll[r].pc = "start" /\ i = 0 /\ touched[r] = {} /\ touched[r] = FirstMachines(0)
      BY <1>0, <1>5, OrderFacts DEF RollStart, RollerOK
    <2>2. \/ r \notin Runs /\ row' = row
          \/ /\ r \in Runs
             /\ row' = [row EXCEPT ![r] = row'[r]]
             /\ row'[r] \in RunRow
             /\ row'[r].phase = "precheck" /\ row'[r].ended = row[r].ended
             /\ row'[r].completed = 0
      <3>1. "precheck" \in RunPhases \ {"none"} /\ 0 \in 0..n
        BY <1>2 DEF RunPhases
      <3> QED BY <1>0, <1>5, <3>1, PersistFacts DEF RollStart
    <2>3. \/ Moves(r, "final", 0, "complete") /\ roll[r].from = roll[r].target
          \/ Moves(r, "final", 0, "failed")
          \/ Moves(r, "next", 1, roll[r].phase)
      BY <1>3, <1>4, <1>5, <2>1 DEF RollStart
    <2>4. touched' = touched /\ node' = node
      BY <1>5 DEF RollStart
    <2>5. RollShape(r)
      BY <1>1, <1>5, <2>1, <2>2, <2>3, <2>4 DEF RollShape, RollStart, Moves
    <2>6. RollerOK(r)'
      BY <1>2, <2>1, <2>3, <2>4 DEF RollerOK, Moves
    <2>7. r \in Runs => ProgressOK(r)'
      BY <1>2, <2>1, <2>2, <2>3, <2>4 DEF ProgressOK, Moves
    <2> QED BY <2>5, <2>6, <2>7, RollShapeStep
  <1>6. CASE RollNext(r)
    <2>1. /\ roll[r].pc = "next" /\ i \in 1..(n + 1) /\ touched[r] = FirstMachines(i - 1)
      BY <1>0, <1>6 DEF RollNext, RollerOK
    <2>2. touched' = touched /\ node' = node
      BY <1>6 DEF RollNext
    <2>3. CASE i = n + 1
      <3>1. Moves(r, "final", i, "complete") /\ row' = row
        BY <1>2, <1>3, <1>4, <1>6, <2>3 DEF RollNext
      <3>2. RollShape(r)
        BY <1>1, <1>6, <2>1, <2>2, <3>1 DEF RollShape, RollNext, Moves
      <3>3. RollerOK(r)'
        BY <1>2, <2>1, <2>2, <2>3, <3>1 DEF RollerOK, Moves
      <3>4. r \in Runs => ProgressOK(r)'
        BY <1>0, <2>2, <3>1 DEF ProgressOK, Moves
      <3> QED BY <3>2, <3>3, <3>4, RollShapeStep
    <2>4. CASE i \in 1..n /\ r \in canceled
      <3>1. Moves(r, "final", i, "canceled") /\ row' = row
        BY <1>2, <1>3, <1>4, <1>6, <2>4 DEF RollNext
      <3>2. RollShape(r)
        BY <1>1, <1>6, <2>1, <2>2, <3>1 DEF RollShape, RollNext, Moves
      <3>3. RollerOK(r)'
        BY <1>2, <2>1, <2>2, <2>4, <3>1 DEF RollerOK, Moves
      <3>4. r \in Runs => ProgressOK(r)'
        BY <1>0, <2>2, <3>1 DEF ProgressOK, Moves
      <3> QED BY <3>2, <3>3, <3>4, RollShapeStep
    <2>5. CASE i \in 1..n /\ r \notin canceled
      <3>1. Moves(r, "upgrade", i, roll[r].phase) /\ Persist(r, "upgrading", i - 1)
        BY <1>2, <1>3, <1>4, <1>6, <2>5 DEF RollNext
      <3>2. \/ r \notin Runs /\ row' = row
            \/ /\ r \in Runs
               /\ row' = [row EXCEPT ![r] = row'[r]]
               /\ row'[r] \in RunRow
               /\ row'[r].phase = "upgrading" /\ row'[r].ended = row[r].ended
               /\ row'[r].completed = i - 1
        <4>1. "upgrading" \in RunPhases \ {"none"} /\ i - 1 \in 0..n
          BY <1>2, <2>5 DEF RunPhases
        <4> QED BY <1>0, <3>1, <4>1, PersistFacts
      <3>3. RollShape(r)
        BY <1>1, <1>6, <2>1, <2>2, <3>1, <3>2 DEF RollShape, RollNext, Moves
      <3>4. RollerOK(r)'
        BY <1>2, <2>1, <2>2, <2>5, <3>1 DEF RollerOK, Moves
      <3>5. r \in Runs => ProgressOK(r)'
        BY <1>2, <2>1, <2>2, <2>5, <3>1, <3>2 DEF ProgressOK, Moves
      <3> QED BY <3>3, <3>4, <3>5, RollShapeStep
    <2> QED BY <1>2, <2>1, <2>3, <2>4, <2>5
  <1>7. CASE UpgradeMachine(r) \/ UpgradeFails(r)
    <2>1. /\ roll[r].pc = "upgrade" /\ i \in 1..n /\ touched[r] = FirstMachines(i - 1)
          /\ r \in Runs => row[r].completed = i - 1 /\ row[r].phase # "none"
      BY <1>0, <1>7 DEF UpgradeMachine, UpgradeFails, RollerOK, ProgressOK, RecordOK
    <2>2. Current(r) \in Fleet /\ Current(r) = ListMachinesInOrder[i]
      BY <2>1, OrderFacts DEF Current
    <2>3. /\ touched' = [touched EXCEPT ![r] = touched[r] \cup {Current(r)}]
          /\ row' = row
      BY <1>7 DEF UpgradeMachine, UpgradeFails
    <2>4. touched'[r] = FirstMachines(i) /\ touched'[r] \subseteq Fleet
      BY <1>1, <2>1, <2>2, <2>3, OrderFacts
    <2>5. Moves(r, "health", i, roll[r].phase) \/ Moves(r, "final", i, "failed")
      BY <1>3, <1>4, <1>7 DEF UpgradeMachine, UpgradeFails
    <2>6. node' \in [Fleet -> NodeState]
      <3>1. CASE UpgradeMachine(r)
        <4>1. [node[Current(r)] EXCEPT !.staged = roll[r].target] \in NodeState
          BY <1>1, <1>2, <2>2 DEF NodeState
        <4>2. node' = [node EXCEPT ![Current(r)] = [node[Current(r)] EXCEPT !.staged = roll[r].target]]
          BY <1>1, <2>2, <3>1 DEF UpgradeMachine
        <4> QED BY <1>1, <2>2, <4>1, <4>2
      <3>2. CASE UpgradeFails(r)
        BY <1>0, <2>2, <3>2, RollbackFacts DEF UpgradeFails
      <3> QED BY <1>7, <3>1, <3>2
    <2>7. RollShape(r)
      <3>1. touched' = [touched EXCEPT ![r] = touched'[r]]
        BY <1>1, <2>3
      <3> QED BY <1>7, <2>1, <2>3, <2>4, <2>5, <2>6, <3>1
          DEF RollShape, UpgradeMachine, UpgradeFails, Moves
    <2>8. RollerOK(r)'
      BY <1>2, <2>1, <2>4, <2>5 DEF RollerOK, Moves
    <2>9. r \in Runs => ProgressOK(r)'
      BY <1>2, <2>1, <2>3, <2>4, <2>5 DEF ProgressOK, Moves
    <2> QED BY <2>7, <2>8, <2>9, RollShapeStep
  <1>8. CASE CheckMachineHealth(r) \/ HealthFails(r)
    <2>1. /\ roll[r].pc = "health" /\ i \in 1..n /\ touched[r] = FirstMachines(i)
      BY <1>0, <1>8 DEF CheckMachineHealth, HealthFails, RollerOK
    <2>2. Current(r) \in Fleet
      BY <2>1, OrderFacts DEF Current
    <2>3. touched' = touched /\ row' = row
      BY <1>8 DEF CheckMachineHealth, HealthFails
    <2>4. Moves(r, "next", i + 1, roll[r].phase) \/ Moves(r, "final", i, "failed")
      BY <1>2, <1>3, <1>4, <1>8, <2>1 DEF CheckMachineHealth, HealthFails
    <2>5. node' \in [Fleet -> NodeState]
      BY <1>0, <1>1, <1>8, <2>2, RollbackFacts DEF CheckMachineHealth, HealthFails
    <2>6. RollShape(r)
      BY <1>1, <1>8, <2>1, <2>3, <2>4, <2>5
      DEF RollShape, CheckMachineHealth, HealthFails, Moves
    <2>7. RollerOK(r)'
      BY <1>2, <2>1, <2>3, <2>4 DEF RollerOK, Moves
    <2>8. r \in Runs => ProgressOK(r)'
      BY <1>0, <2>3, <2>4 DEF ProgressOK, Moves
    <2> QED BY <2>6, <2>7, <2>8, RollShapeStep
  <1> QED BY <1>5, <1>6, <1>7, <1>8 DEF Roll

(***************************************************************************)
(* The steps that leave every roller, its machines and its row alone: what *)
(* the machines, the agents and the operator do, and the end of tofu.      *)
(***************************************************************************)
LEMMA OutsideKeeps ==
  ASSUME UpgradeInv, UpgradeTypeOK',
         UNCHANGED <<roll, row, running, touched, orphaned>>,
         \/ applier' = applier /\ drift' = drift
         \/ applier' = "idle" /\ applier = "tofu"
  PROVE  UpgradeInv'
  <1>1. /\ HookInv
        /\ \A s \in Rollers : RollerOK(s)
        /\ \A s \in Runs : ProgressOK(s) /\ RecordOK(s)
    BY DEF UpgradeInv, RollInv, ProgressInv, RecordInv
  <1>2. RollInv'
    BY <1>1, RollerFrame DEF RollInv
  <1>3. ProgressInv' /\ RecordInv'
    BY <1>1, RunFrame DEF ProgressInv, RecordInv
  <1>4. HookInv'
    BY <1>1 DEF HookInv, UniformDriftUpgradedFirst
  <1> QED BY <1>2, <1>3, <1>4 DEF UpgradeInv

(***************************************************************************)
(* The machines reboot and report, the operator edits the tenant and       *)
(* cancels runs, tofu ends.                                                *)
(***************************************************************************)
LEMMA OutsideSteps ==
  ASSUME UpgradeInv,
         \/ \E m \in Fleet : Reboot(m) \/ MachineRestart(m) \/ UpdateMachineStatus(m)
         \/ \E v \in Versions : UpdateTenantVersion(v)
         \/ \E r \in Runs : CancelRun(r)
         \/ TofuApplied \/ TofuFailed \/ UNCHANGED upgradeVars
  PROVE  UpgradeInv'
  <1>0. UpgradeTypeOK
    BY DEF UpgradeInv
  <1>1. ASSUME NEW m \in Fleet, Reboot(m) \/ MachineRestart(m)
        PROVE  UpgradeInv'
    <2>1. Reboot(m)
      BY <1>1 DEF MachineRestart
    <2>2. node \in [Fleet -> NodeState] /\ node[m] \in NodeState
      BY <1>0 DEF UpgradeTypeOK
    <2>3. [ver |-> node[m].staged, prev |-> node[m].ver, staged |-> 0] \in NodeState
      BY <2>2 DEF NodeState
    <2>4. node' \in [Fleet -> NodeState]
      BY <2>1, <2>2, <2>3 DEF Reboot
    <2>5. UpgradeTypeOK'
      BY <1>0, <2>1, <2>4 DEF Reboot, UpgradeTypeOK
    <2> QED BY <2>1, <2>5, OutsideKeeps DEF Reboot
  <1>2. ASSUME NEW m \in Fleet, UpdateMachineStatus(m)
        PROVE  UpgradeInv'
    <2>1. node[m].ver \in Versions \cup {0}
      BY <1>0 DEF UpgradeTypeOK, NodeState
    <2>2. reported' \in [Fleet -> Versions \cup {0}]
      BY <1>0, <1>2, <2>1 DEF UpdateMachineStatus, UpgradeTypeOK
    <2>3. UpgradeTypeOK'
      BY <1>0, <1>2, <2>2 DEF UpdateMachineStatus, UpgradeTypeOK
    <2> QED BY <1>2, <2>3, OutsideKeeps DEF UpdateMachineStatus
  <1>3. ASSUME NEW v \in Versions, UpdateTenantVersion(v)
        PROVE  UpgradeInv'
    <2>1. edits' \in 0..MaxEdits
      BY <1>0, <1>3, UpgradeAssumption
      DEF UpgradeAssumption, UpdateTenantVersion, UpgradeTypeOK
    <2>2. UpgradeTypeOK'
      BY <1>0, <1>3, <2>1 DEF UpdateTenantVersion, UpgradeTypeOK
    <2> QED BY <1>3, <2>2, OutsideKeeps DEF UpdateTenantVersion
  <1>4. ASSUME NEW r \in Runs, CancelRun(r)
        PROVE  UpgradeInv'
    <2>1. UpgradeTypeOK'
      BY <1>0, <1>4 DEF CancelRun, UpgradeTypeOK
    <2> QED BY <1>4, <2>1, OutsideKeeps DEF CancelRun
  <1>5. CASE TofuApplied \/ TofuFailed
    <2>1. UpgradeTypeOK'
      BY <1>0, <1>5 DEF TofuApplied, TofuFailed, Refresh, UpgradeTypeOK
    <2> QED BY <1>5, <2>1, OutsideKeeps DEF TofuApplied, TofuFailed
  <1>6. CASE UNCHANGED upgradeVars
    <2>1. UpgradeTypeOK'
      BY <1>0, <1>6 DEF upgradeVars, UpgradeTypeOK
    <2> QED BY <1>6, <2>1, OutsideKeeps DEF upgradeVars
  <1> QED BY <1>1, <1>2, <1>3, <1>4, <1>5, <1>6

(***************************************************************************)
(* StartRun: a record and a goroutine for a run that had neither.          *)
(***************************************************************************)
LEMMA StartKeeps ==
  ASSUME UpgradeInv, NEW r \in Runs, NEW v \in Versions, StartRun(r, v)
  PROVE  UpgradeInv'
  <1> DEFINE entry == [pc |-> "start", from |-> spec, target |-> v, i |-> 0, phase |-> "precheck"]
             record == [phase |-> "upgrading", completed |-> 0, ended |-> FALSE]
  <1>1. /\ UpgradeTypeOK /\ HookInv
        /\ \A s \in Rollers : RollerOK(s)
        /\ \A s \in Runs : ProgressOK(s) /\ RecordOK(s)
    BY DEF UpgradeInv, RollInv, ProgressInv, RecordInv
  <1>2. /\ roll \in [Rollers -> RollState] /\ row \in [Runs -> RunRow]
        /\ r \in Rollers /\ Len(MachineList) \in Nat /\ FirstMachines(0) = {}
        /\ Hook # r /\ Hook \in Rollers
    BY <1>1, OrderFacts, UpgradeAssumption DEF UpgradeTypeOK, Rollers, UpgradeAssumption
  <1>3. roll' = [roll EXCEPT ![r] = entry] /\ row' = [row EXCEPT ![r] = record]
    BY DEF StartRun
  <1>4. entry \in RollState /\ record \in RunRow
    BY <1>1, <1>2 DEF RollState, RunRow, RunPhases, UpgradeTypeOK
  <1>5. /\ entry.pc = "start" /\ entry.i = 0
        /\ record.phase = "upgrading" /\ record.completed = 0 /\ ~record.ended
    OBVIOUS
  <1> HIDE DEF entry, record
  <1>6. /\ roll'[r] = entry /\ row'[r] = record
        /\ \A s \in Rollers : s # r => roll'[s] = roll[s]
        /\ \A s \in Runs : s # r => row'[s] = row[s]
        /\ \A s \in Runs : s # r => (s \in running' <=> s \in running)
        /\ r \in running' /\ orphaned' = orphaned /\ touched' = touched
        /\ applier' = applier /\ drift' = drift
    BY <1>2, <1>3 DEF StartRun
  <1>7. row[r].phase = "none" /\ r \notin orphaned /\ touched[r] = {}
    BY <1>1 DEF StartRun, RecordOK, ProgressOK
  <1>8. UpgradeTypeOK'
    <2>1. roll' \in [Rollers -> RollState] /\ row' \in [Runs -> RunRow]
      BY <1>2, <1>3, <1>4
    <2>2. running' \subseteq Runs
      BY <1>1 DEF UpgradeTypeOK, StartRun
    <2>3. UNCHANGED <<spec, node, reported, cached, canceled, applier, edits, crashes,
                      touched, orphaned, drift>>
      BY DEF StartRun
    <2> QED BY <1>1, <2>1, <2>2, <2>3 DEF UpgradeTypeOK
  <1>9. RollInv'
    <2>1. RollerOK(r)'
      BY <1>5, <1>6, <1>7 DEF RollerOK
    <2> QED BY <1>1, <1>6, <2>1, RollerFrame DEF RollInv
  <1>10. ASSUME NEW s \in Runs
         PROVE  ProgressOK(s)' /\ RecordOK(s)'
    <2>1. CASE s = r
      <3>1. touched'[r] = FirstMachines(0) /\ 0 \in {record.completed} \cap 0..Len(MachineList)
        BY <1>2, <1>5, <1>6, <1>7
      <3>2. ProgressOK(r)'
        BY <1>5, <1>6, <3>1 DEF ProgressOK
      <3>3. RecordOK(r)'
        BY <1>5, <1>6, <1>7 DEF RecordOK
      <3> QED BY <2>1, <3>2, <3>3
    <2>2. CASE s # r
      <3>1. s \in Rollers
        BY DEF Rollers
      <3> QED BY <1>1, <1>6, <2>2, <3>1, RunFrame
    <2> QED BY <2>1, <2>2
  <1>11. HookInv'
    BY <1>1, <1>2, <1>6 DEF HookInv, UniformDriftUpgradedFirst
  <1> QED BY <1>8, <1>9, <1>10, <1>11 DEF UpgradeInv, ProgressInv, RecordInv

(***************************************************************************)
(* The end of a run: persistFinal writes the record that its progress      *)
(* allows, and the goroutine is gone.                                      *)
(***************************************************************************)
LEMMA EndKeeps ==
  ASSUME UpgradeInv, NEW r \in Runs, executeRunEnds(r)
  PROVE  UpgradeInv'
  <1> DEFINE record == [phase |-> roll[r].phase, completed |-> Completed(r), ended |-> TRUE]
             n == Len(MachineList)
  <1>1. /\ UpgradeTypeOK /\ HookInv
        /\ \A s \in Rollers : RollerOK(s)
        /\ \A s \in Runs : ProgressOK(s) /\ RecordOK(s)
    BY DEF UpgradeInv, RollInv, ProgressInv, RecordInv
  <1>2. /\ roll \in [Rollers -> RollState] /\ row \in [Runs -> RunRow]
        /\ r \in Rollers /\ n \in Nat /\ FirstMachines(0) = {}
        /\ Hook # r /\ Hook \in Rollers
    BY <1>1, OrderFacts, UpgradeAssumption DEF UpgradeTypeOK, Rollers, UpgradeAssumption
  <1>3. roll' = [roll EXCEPT ![r] = IdleRoll] /\ row' = [row EXCEPT ![r] = record]
    BY DEF executeRunEnds
  <1>4. roll[r].pc = "final" /\ roll[r].phase \in {"complete", "failed", "canceled"}
    BY <1>1, <1>2 DEF executeRunEnds, RollerOK
  <1>5. /\ Completed(r) \in 0..n
        /\ \E k \in {Completed(r), Completed(r) + 1} \cap 0..n : touched[r] = FirstMachines(k)
    <2>1. CASE roll[r].i = 0 /\ touched[r] = {}
      BY <1>2, <2>1 DEF Completed
    <2>2. CASE roll[r].i = n + 1 /\ touched[r] = FirstMachines(n)
      BY <1>2, <2>2 DEF Completed
    <2>3. CASE roll[r].i \in 1..n /\ touched[r] \in {FirstMachines(roll[r].i - 1), FirstMachines(roll[r].i)}
      BY <1>2, <2>3 DEF Completed
    <2> QED BY <1>1, <1>2, <1>4, <2>1, <2>2, <2>3 DEF RollerOK
  <1>6. IdleRoll \in RollState /\ record \in RunRow
    BY <1>2, <1>4, <1>5 DEF IdleRoll, RollState, RunRow, RunPhases
  <1>7. /\ IdleRoll.pc = "idle"
        /\ record.phase # "none" /\ record.completed = Completed(r) /\ record.ended
    BY <1>4 DEF IdleRoll
  <1> HIDE DEF record
  <1>8. /\ roll'[r] = IdleRoll /\ row'[r] = record
        /\ \A s \in Rollers : s # r => roll'[s] = roll[s]
        /\ \A s \in Runs : s # r => row'[s] = row[s]
        /\ \A s \in Runs : s # r => (s \in running' <=> s \in running)
        /\ r \notin running' /\ orphaned' = orphaned /\ touched' = touched
        /\ applier' = applier /\ drift' = drift
    BY <1>2, <1>3 DEF executeRunEnds
  <1>9. r \notin orphaned
    BY <1>1, <1>4 DEF RecordOK
  <1>10. UpgradeTypeOK'
    BY <1>1, <1>2, <1>3, <1>6, ZenonT(60) DEF UpgradeTypeOK, executeRunEnds
  <1>11. RollInv'
    <2>1. RollerOK(r)'
      BY <1>7, <1>8 DEF RollerOK
    <2> QED BY <1>1, <1>8, <2>1, RollerFrame DEF RollInv
  <1>12. ASSUME NEW s \in Runs
         PROVE  ProgressOK(s)' /\ RecordOK(s)'
    <2>1. CASE s = r
      BY <1>5, <1>7, <1>8, <1>9, <2>1 DEF ProgressOK, RecordOK
    <2>2. CASE s # r
      <3>1. s \in Rollers
        BY DEF Rollers
      <3> QED BY <1>1, <1>8, <2>2, <3>1, RunFrame
    <2> QED BY <2>1, <2>2
  <1>13. HookInv'
    BY <1>1, <1>2, <1>8 DEF HookInv, UniformDriftUpgradedFirst
  <1> QED BY <1>10, <1>11, <1>12, <1>13 DEF UpgradeInv, ProgressInv, RecordInv

(***************************************************************************)
(* A step of the applier that changes the hook's roller keeps what the     *)
(* runs of the API have to do with.                                        *)
(***************************************************************************)
LEMMA HookKeeps ==
  ASSUME UpgradeInv, UpgradeTypeOK',
         UNCHANGED <<row, running, orphaned>>,
         roll' = [roll EXCEPT ![Hook] = roll'[Hook]],
         touched' = [touched EXCEPT ![Hook] = touched'[Hook]],
         RollerOK(Hook)', HookInv'
  PROVE  UpgradeInv'
  <1>1. /\ UpgradeTypeOK
        /\ \A s \in Rollers : RollerOK(s)
        /\ \A s \in Runs : ProgressOK(s) /\ RecordOK(s)
    BY DEF UpgradeInv, RollInv, ProgressInv, RecordInv
  <1>2. \A s \in Runs : s \in Rollers /\ s # Hook
    BY UpgradeAssumption DEF UpgradeAssumption, Rollers
  <1>3. \A s \in Rollers : s # Hook => roll'[s] = roll[s] /\ touched'[s] = touched[s]
    BY <1>1 DEF UpgradeTypeOK
  <1>4. RollInv'
    BY <1>1, <1>3, RollerFrame DEF RollInv
  <1>5. ProgressInv' /\ RecordInv'
    BY <1>1, <1>2, <1>3, RunFrame DEF ProgressInv, RecordInv
  <1> QED BY <1>4, <1>5 DEF UpgradeInv

(***************************************************************************)
(* runUpgradesIfNeeded: the hook starts on a drift all machines agree on,  *)
(* and only on one; RunUpgrade lets tofu run when the roll is complete.    *)
(***************************************************************************)
LEMMA ApplierKeeps ==
  ASSUME UpgradeInv, runUpgradesIfNeeded \/ RunUpgrade
  PROVE  UpgradeInv'
  <1>1. UpgradeTypeOK /\ HookInv /\ RollInv
    BY DEF UpgradeInv
  <1>2. /\ roll \in [Rollers -> RollState] /\ touched \in [Rollers -> SUBSET Fleet]
        /\ Hook \in Rollers /\ Len(MachineList) \in Nat
    BY <1>1, OrderFacts DEF UpgradeTypeOK, Rollers
  <1>3. RollerOK(Hook)
    BY <1>1, <1>2 DEF RollInv
  <1>4. CASE runUpgradesIfNeeded
    <2>1. /\ touched' = [touched EXCEPT ![Hook] = {}] /\ touched'[Hook] = {}
          /\ UNCHANGED <<spec, node, reported, cached, row, running, canceled,
                         edits, crashes, orphaned>>
      BY <1>2, <1>4 DEF runUpgradesIfNeeded
    <2>2. CASE observedTalos \notin {0, spec}
      <3> DEFINE entry == [pc |-> "start", from |-> observedTalos, target |-> spec,
                           i |-> 0, phase |-> "precheck"]
      <3>1. observedTalos \in Versions
        BY <2>2 DEF observedTalos
      <3>2. entry \in RollState
        BY <1>1, <1>2, <3>1 DEF RollState, RunPhases, UpgradeTypeOK
      <3>3. entry.pc = "start" /\ entry.i = 0 /\ entry.from # entry.target
        BY <2>2
      <3>4. /\ roll' = [roll EXCEPT ![Hook] = entry]
            /\ applier' = "upgrading" /\ drift' = observedTalos
        BY <1>4, <2>2 DEF runUpgradesIfNeeded
      <3> HIDE DEF entry
      <3>5. roll'[Hook] = entry /\ roll' \in [Rollers -> RollState]
        BY <1>2, <3>2, <3>4
      <3>6. UpgradeTypeOK'
        BY <1>1, <1>2, <2>1, <3>1, <3>4, <3>5 DEF UpgradeTypeOK
      <3>7. RollerOK(Hook)'
        BY <2>1, <3>3, <3>5 DEF RollerOK
      <3>8. HookInv'
        BY <3>3, <3>4, <3>5 DEF HookInv, UniformDriftUpgradedFirst
      <3> QED BY <2>1, <3>4, <3>5, <3>6, <3>7, <3>8, HookKeeps
    <2>3. CASE observedTalos \in {0, spec}
      <3>1. roll' = roll /\ applier' = "tofu" /\ drift' = 0 /\ applier = "idle"
        BY <1>4, <2>3 DEF runUpgradesIfNeeded
      <3>2. UpgradeTypeOK'
        BY <1>1, <1>2, <2>1, <3>1 DEF UpgradeTypeOK
      <3>3. roll[Hook].pc = "idle"
        BY <1>1, <3>1 DEF HookInv
      <3>4. RollerOK(Hook)' /\ HookInv'
        BY <3>1, <3>3 DEF RollerOK, HookInv, UniformDriftUpgradedFirst
      <3>5. roll' = [roll EXCEPT ![Hook] = roll'[Hook]]
        BY <1>2, <3>1
      <3> QED BY <2>1, <3>2, <3>4, <3>5, HookKeeps
    <2> QED BY <2>2, <2>3
  <1>5. CASE RunUpgrade
    <2>1. /\ UNCHANGED <<spec, node, reported, cached, row, running, canceled, edits,
                         crashes, touched, orphaned, drift>>
          /\ roll' = [roll EXCEPT ![Hook] = IdleRoll] /\ roll[Hook].pc = "final"
          /\ applier' = IF roll[Hook].phase = "complete" THEN "tofu" ELSE "idle"
      BY <1>5 DEF RunUpgrade
    <2>2. IdleRoll \in RollState /\ IdleRoll.pc = "idle"
      BY <1>2 DEF IdleRoll, RollState
    <2>3. roll'[Hook] = IdleRoll /\ roll' \in [Rollers -> RollState]
      BY <1>2, <2>1, <2>2
    <2>4. UpgradeTypeOK'
      BY <1>1, <2>1, <2>3 DEF UpgradeTypeOK
    <2>5. RollerOK(Hook)'
      BY <2>2, <2>3 DEF RollerOK
    <2>6. roll[Hook].phase = "complete" => touched[Hook] = Fleet
      <3>1. roll[Hook].from # roll[Hook].target
        BY <1>1, <2>1 DEF HookInv
      <3>2. FirstMachines(Len(MachineList)) = Fleet
        BY OrderFacts
      <3> QED BY <1>3, <2>1, <3>1, <3>2 DEF RollerOK
    <2>7. HookInv'
      BY <2>1, <2>2, <2>3, <2>6 DEF HookInv, UniformDriftUpgradedFirst
    <2>8. /\ roll' = [roll EXCEPT ![Hook] = roll'[Hook]]
          /\ touched' = [touched EXCEPT ![Hook] = touched'[Hook]]
      BY <1>2, <2>1, <2>3
    <2> QED BY <2>1, <2>4, <2>5, <2>7, <2>8, HookKeeps
  <1> QED BY <1>4, <1>5

(***************************************************************************)
(* A restart of the process: every roller is gone, the records stay.       *)
(***************************************************************************)
LEMMA CrashKeeps ==
  ASSUME UpgradeInv, UpgradeCrash
  PROVE  UpgradeInv'
  <1>1. /\ UpgradeTypeOK
        /\ \A s \in Runs : ProgressOK(s) /\ RecordOK(s)
    BY DEF UpgradeInv, ProgressInv, RecordInv
  <1>2. IdleRoll \in RollState /\ IdleRoll.pc = "idle"
    BY OrderFacts DEF IdleRoll, RollState
  <1>3. /\ \A s \in Rollers : roll'[s] = IdleRoll
        /\ row' = row /\ touched' = touched
        /\ running' = {} /\ orphaned' = orphaned \cup running
        /\ applier' = "idle" /\ drift' = 0
    BY DEF UpgradeCrash
  <1>4. Hook \in Rollers /\ \A s \in Runs : s \in Rollers
    BY DEF Rollers
  <1>5. UpgradeTypeOK'
    <2>1. roll' \in [Rollers -> RollState]
      BY <1>2 DEF UpgradeCrash
    <2>2. crashes' \in 0..MaxCrashes
      BY <1>1, UpgradeAssumption DEF UpgradeAssumption, UpgradeCrash, UpgradeTypeOK
    <2> QED BY <1>1, <2>1, <2>2 DEF UpgradeCrash, UpgradeTypeOK
  <1>6. RollInv'
    BY <1>2, <1>3 DEF RollInv, RollerOK
  <1>7. ASSUME NEW s \in Runs
        PROVE  ProgressOK(s)' /\ RecordOK(s)'
    <2>1. roll'[s].pc = "idle"
      BY <1>2, <1>3, <1>4
    <2>2. ProgressOK(s)'
      BY <1>1, <1>3, <2>1 DEF ProgressOK
    <2>3. RecordOK(s)'
      BY <1>1, <1>3, <2>1 DEF RecordOK
    <2> QED BY <2>2, <2>3
  <1>8. HookInv'
    BY <1>2, <1>3, <1>4 DEF HookInv, UniformDriftUpgradedFirst
  <1> QED BY <1>5, <1>6, <1>7, <1>8 DEF UpgradeInv, ProgressInv, RecordInv

(***************************************************************************)
(* Rolling upgrades stay in UpgradeInv however runs, applies, reboots and  *)
(* restarts interleave.                                                    *)
(***************************************************************************)
THEOREM UpgradeInvariant == UpgradeSpec => []UpgradeInv
  <1>1. ASSUME UpgradeInv, [UpgradeNext]_upgradeVars
        PROVE  UpgradeInv'
    <2>1. CASE \E r \in Runs, v \in Versions : Start(r, v) \/ ClusterUpgradeStart(r, v)
      BY <1>1, <2>1, StartKeeps DEF Start, ClusterUpgradeStart
    <2>2. CASE \E r \in Runs : executeRunEnds(r)
      BY <1>1, <2>2, EndKeeps
    <2>3. CASE \E r \in Rollers : Roll(r)
      BY <1>1, <2>3, RollKeeps
    <2>4. CASE runUpgradesIfNeeded \/ RunUpgrade
      BY <1>1, <2>4, ApplierKeeps
    <2>5. CASE UpgradeCrash
      BY <1>1, <2>5, CrashKeeps
    <2>6. CASE \/ \E m \in Fleet : Reboot(m) \/ MachineRestart(m) \/ UpdateMachineStatus(m)
               \/ \E v \in Versions : UpdateTenantVersion(v)
               \/ \E r \in Runs : CancelRun(r)
               \/ TofuApplied \/ TofuFailed \/ UNCHANGED upgradeVars
      BY <1>1, <2>6, OutsideSteps
    <2> QED BY <1>1, <2>1, <2>2, <2>3, <2>4, <2>5, <2>6 DEF UpgradeNext
  <1> QED BY <1>1, UpgradeInitInv, PTL DEF UpgradeSpec

(***************************************************************************)
(* Type correctness of the machines, the rollers and the records.          *)
(***************************************************************************)
THEOREM UpgradeTypeCorrect == UpgradeSpec => []UpgradeTypeOK
  <1>1. UpgradeInv => UpgradeTypeOK
    BY DEF UpgradeInv
  <1> QED BY <1>1, UpgradeInvariant, PTL

(***************************************************************************)
(* A record without an end belongs to a run that goes on or that a restart *)
(* interrupted (executeRun, persistFinal).                                 *)
(***************************************************************************)
THEOREM RecordsEnd == UpgradeSpec => []UnendedOnlyAfterCrash
  <1>1. UpgradeInv => UnendedOnlyAfterCrash
    BY DEF UpgradeInv, RecordInv, RecordOK, UnendedOnlyAfterCrash
  <1> QED BY <1>1, UpgradeInvariant, PTL

(***************************************************************************)
(* Tofu runs after a uniform drift only when the hook asked every machine  *)
(* to upgrade (runUpgradesIfNeeded, RunUpgrade).                           *)
(***************************************************************************)
THEOREM UpgradeComesFirst == UpgradeSpec => []UniformDriftUpgradedFirst
  <1>1. UpgradeInv => UniformDriftUpgradedFirst
    BY DEF UpgradeInv, HookInv
  <1> QED BY <1>1, UpgradeInvariant, PTL

(***************************************************************************)
(* The first machines of the order hold every control plane as soon as     *)
(* they hold a worker (ListMachinesInOrder).                               *)
(***************************************************************************)
LEMMA ControlPlanesFirst ==
  ASSUME NEW k \in 0..Len(MachineList), FirstMachines(k) \ ControlPlanes # {}
  PROVE  ControlPlanes \cap Fleet \subseteq FirstMachines(k)
  <1>1. Len(MachineList) \in Nat
    BY OrderFacts
  <1>2. PICK w \in 1..k : ListMachinesInOrder[w] \notin ControlPlanes
    BY DEF FirstMachines
  <1>3. ASSUME NEW m \in ControlPlanes \cap Fleet
        PROVE  m \in FirstMachines(k)
    <2>1. PICK j \in 1..Len(MachineList) : ListMachinesInOrder[j] = m
      BY OrderFacts
    <2>2. w \in 1..Len(MachineList)
      BY <1>1
    <2>3. ~(w < j)
      BY <1>2, <2>1, <2>2, OrderIsComplete
    <2>4. j \in 1..k
      BY <1>1, <2>3
    <2> QED BY <2>1, <2>4 DEF FirstMachines
  <1> QED BY <1>3

(***************************************************************************)
(* The progress of a record is the progress made on the machines, in the   *)
(* order that takes control planes first (rollUpgrade).                    *)
(***************************************************************************)
THEOREM ProgressIsReal == UpgradeSpec => []ProgressMatchesMachines
  <1>1. ASSUME UpgradeInv, NEW r \in Runs
        PROVE  /\ touched[r] \in {Range(SubSeq(ListMachinesInOrder, 1, k)) :
                     k \in {row[r].completed, row[r].completed + 1} \cap 0..Len(MachineList)}
               /\ touched[r] \ ControlPlanes # {} => (ControlPlanes \cap Fleet) \subseteq touched[r]
    <2>1. PICK k \in {row[r].completed, row[r].completed + 1} \cap 0..Len(MachineList) :
                 touched[r] = FirstMachines(k)
      BY <1>1 DEF UpgradeInv, ProgressInv, ProgressOK
    <2>2. touched[r] = Range(SubSeq(ListMachinesInOrder, 1, k))
      BY <2>1, PrefixFacts
    <2>3. touched[r] \ ControlPlanes # {} => (ControlPlanes \cap Fleet) \subseteq touched[r]
      BY <2>1, ControlPlanesFirst
    <2> QED BY <2>1, <2>2, <2>3
  <1>2. UpgradeInv => ProgressMatchesMachines
    BY <1>1 DEF ProgressMatchesMachines
  <1> QED BY <1>2, UpgradeInvariant, PTL
=============================================================================
