------------------------------ MODULE VMProofs ------------------------------
(***************************************************************************)
(* Invariance proofs for the two models of package vm, which share no      *)
(* state: SlotTable, for every set of processes, VMs and commands, every   *)
(* number of slots and every choice of faults, and after it ImageBuild,    *)
(* for any number of builders, downloads, keys and custom Dockerfiles.     *)
(***************************************************************************)
EXTENDS SlotTable, ImageBuild, TLAPS

\* The typing of the variables, step by step: every action keeps TypeOK.
LEMMA TypeInductive == TypeOK /\ [Next]_vars => TypeOK'
<1> SUFFICES ASSUME TypeOK, [Next]_vars PROVE TypeOK'
  OBVIOUS
<1> USE SlotTableAssumption DEF TypeOK, Actors, NoRows, dbVars, procVars, PCs,
        Resources
<1>1. ASSUME NEW p \in Procs, ProcessDies(p) PROVE TypeOK'
  BY <1>1 DEF ProcessDies
<1>2. ASSUME NEW p \in Procs, PidReused(p) PROVE TypeOK'
  BY <1>2 DEF PidReused
<1>3. ASSUME NEW a \in Actors, CleanupScan(a) PROVE TypeOK'
  BY <1>3 DEF CleanupScan, Stale
<1>4. ASSUME NEW a \in Actors, CleanupRemoveDirs(a) PROVE TypeOK'
  BY <1>4 DEF CleanupRemoveDirs
<1>5. ASSUME NEW a \in Actors, CleanupDelete(a) PROVE TypeOK'
  BY <1>5 DEF CleanupDelete
<1>6. ASSUME NEW r \in Readers, Query(r) PROVE TypeOK'
  BY <1>6 DEF Query
<1>7. ASSUME NEW r \in Readers, QueryFails(r) PROVE TypeOK'
  BY <1>7 DEF QueryFails
<1>8. ASSUME NEW v \in VMs, NEW had \in SUBSET Resources, NewVMFails(v, had)
      PROVE  TypeOK'
  <2>1. PICK r \in RemoveAll(had \ {"fs"}) : res' = [res EXCEPT ![v] = r]
    BY <1>8 DEF NewVMFails
  <2>2. r \subseteq Resources
    BY DEF RemoveAll
  <2>3. res' \in [VMs -> SUBSET Resources]
    BY <2>1, <2>2
  <2> QED
    BY <1>8, <2>3 DEF NewVMFails
<1>9. ASSUME NEW v \in VMs, Lifecycle(v) PROVE TypeOK'
  <2>1. CASE QEMUExits(v)
    BY <2>1 DEF QEMUExits
  <2>2. CASE MakeStateDir(v)
    BY <2>2 DEF MakeStateDir
  <2>3. CASE PeekNextSlotNumber(v)
    BY <2>3 DEF PeekNextSlotNumber
  <2>4. CASE StateDirUnusable(v) \/ PeekFails(v) \/ FSDaemonFails(v)
                \/ AllocateFails(v)
    <3>1. /\ res[v] \in SUBSET Resources
          /\ res[v] \cup {"token"} \in SUBSET Resources
          /\ SUBSET {"dir"} \subseteq SUBSET Resources
      BY DEF TypeOK, Resources
    <3>2. \E had \in SUBSET Resources : NewVMFails(v, had)
      BY <2>4, <3>1 DEF StateDirUnusable, PeekFails, FSDaemonFails, AllocateFails
    <3> QED
      BY <1>8, <3>2
  <2>5. CASE StartFSDaemon(v)
    BY <2>5 DEF StartFSDaemon
  <2>6. CASE AllocateVMSlot(v)
    BY <2>6 DEF AllocateVMSlot, Free
  <2>7. CASE StartPasst(v)
    BY <2>7 DEF StartPasst
  <2>15. CASE LaunchQEMU(v)
    BY <2>15 DEF LaunchQEMU
  <2>13. CASE StartFails(v)
    BY <2>13 DEF StartFails
  <2>8. CASE UpdateSlotQEMUPid(v)
    BY <2>8 DEF UpdateSlotQEMUPid, SetColumn
  <2>9. CASE UpdateSlotConsole(v)
    BY <2>9 DEF UpdateSlotConsole, SetColumn
  <2>10. CASE StopHelpers(v)
    BY <2>10 DEF StopHelpers
  <2>14. CASE WaitReturns(v)
    BY <2>14 DEF WaitReturns
  <2>11. CASE ReleaseVMSlot(v)
    BY <2>11 DEF ReleaseVMSlot
  <2>12. CASE RemoveStateDir(v)
    <3>1. PICK r \in RemoveAll(res[v]) : res' = [res EXCEPT ![v] = r]
      BY <2>12 DEF RemoveStateDir
    <3>2. r \subseteq Resources
      <4>1. res[v] \subseteq Resources
        OBVIOUS
      <4> HIDE DEF Resources
      <4> QED
        BY <3>1, <4>1 DEF RemoveAll
    <3>3. res' \in [VMs -> SUBSET Resources]
      BY <3>1, <3>2
    <3> QED
      BY <2>12, <3>3 DEF RemoveStateDir
  <2> QED
    BY <1>9, <2>1, <2>2, <2>3, <2>4, <2>5, <2>6, <2>7, <2>8, <2>9, <2>10,
       <2>11, <2>12, <2>13, <2>14,
       <2>15 DEF Lifecycle
<1>10. CASE UNCHANGED vars
  BY <1>10 DEF vars
<1> QED
  BY <1>1, <1>2, <1>3, <1>4, <1>5, <1>6, <1>7, <1>9, <1>10 DEF Next, Cleaning

\* Every reachable state of the table and of the VMs is well typed.
THEOREM TypeCorrect == Spec => []TypeOK
<1>1. Init => TypeOK
  BY SlotTableAssumption DEF Init, TypeOK, NoRows, PCs, Resources
<1> QED
  BY <1>1, TypeInductive, PTL DEF Spec

-----------------------------------------------------------------------------
(* The state directory of a live VM *)

DirInv == FoundRowsAreDead /\ LiveDirKept

LEMMA DirInductive == TypeOK /\ DirInv /\ [Next]_vars => DirInv'
<1> SUFFICES ASSUME TypeOK, DirInv, [Next]_vars PROVE DirInv'
  OBVIOUS
<1> USE SlotTableAssumption DEF TypeOK, Actors, NoRows, dbVars, procVars,
        DirInv, FoundRowsAreDead, LiveDirKept, UsesDir, HoldsSlot
<1>1. ASSUME NEW p \in Procs, ProcessDies(p) PROVE DirInv'
  BY <1>1 DEF ProcessDies
<1>2. ASSUME NEW p \in Procs, PidReused(p) PROVE DirInv'
  BY <1>2 DEF PidReused
<1>3. ASSUME NEW a \in Actors, CleanupScan(a) PROVE DirInv'
  BY <1>3 DEF CleanupScan, Stale, isPIDAlive
<1>4. ASSUME NEW a \in Actors, CleanupRemoveDirs(a) PROVE DirInv'
  BY <1>4 DEF CleanupRemoveDirs
<1>5. ASSUME NEW a \in Actors, CleanupDelete(a) PROVE DirInv'
  BY <1>5 DEF CleanupDelete
<1>6. ASSUME NEW r \in Readers, Query(r) PROVE DirInv'
  BY <1>6 DEF Query
<1>7. ASSUME NEW r \in Readers, QueryFails(r) PROVE DirInv'
  BY <1>7 DEF QueryFails
<1>8. ASSUME NEW v \in VMs, NEW had \in SUBSET Resources, NewVMFails(v, had)
      PROVE  DirInv'
  BY <1>8 DEF NewVMFails
<1>9. ASSUME NEW v \in VMs, Lifecycle(v) PROVE DirInv'
  <2>1. CASE QEMUExits(v)
    BY <2>1 DEF QEMUExits
  <2>2. CASE MakeStateDir(v)
    BY <2>2 DEF MakeStateDir
  <2>3. CASE PeekNextSlotNumber(v)
    BY <2>3 DEF PeekNextSlotNumber, At
  <2>4. CASE StateDirUnusable(v) \/ PeekFails(v) \/ FSDaemonFails(v)
                \/ AllocateFails(v)
    <3>1. /\ res[v] \in SUBSET Resources
          /\ res[v] \cup {"token"} \in SUBSET Resources
          /\ SUBSET {"dir"} \subseteq SUBSET Resources
      BY DEF TypeOK, Resources
    <3>2. \E had \in SUBSET Resources : NewVMFails(v, had)
      BY <2>4, <3>1 DEF StateDirUnusable, PeekFails, FSDaemonFails, AllocateFails
    <3> QED
      BY <1>8, <3>2
  <2>5. CASE StartFSDaemon(v)
    BY <2>5 DEF StartFSDaemon, At
  <2>6. CASE AllocateVMSlot(v)
    BY <2>6 DEF AllocateVMSlot, At
  <2>7. CASE StartPasst(v)
    BY <2>7 DEF StartPasst, At
  <2>8. CASE LaunchQEMU(v)
    BY <2>8 DEF LaunchQEMU, At
  <2>9. CASE StartFails(v)
    BY <2>9 DEF StartFails, At
  <2>10. CASE UpdateSlotQEMUPid(v)
    BY <2>10 DEF UpdateSlotQEMUPid, At
  <2>11. CASE UpdateSlotConsole(v)
    BY <2>11 DEF UpdateSlotConsole, At
  <2>12. CASE WaitReturns(v)
    BY <2>12 DEF WaitReturns, At
  <2>13. CASE StopHelpers(v)
    BY <2>13 DEF StopHelpers, At
  <2>14. CASE ReleaseVMSlot(v)
    BY <2>14 DEF ReleaseVMSlot, At
  <2>15. CASE RemoveStateDir(v)
    BY <2>15 DEF RemoveStateDir
  <2> QED
    BY <1>9, <2>1, <2>2, <2>3, <2>4, <2>5, <2>6, <2>7, <2>8, <2>9, <2>10,
       <2>11, <2>12, <2>13, <2>14, <2>15 DEF Lifecycle
<1>10. CASE UNCHANGED vars
  BY <1>10 DEF vars
<1> QED
  BY <1>1, <1>2, <1>3, <1>4, <1>5, <1>6, <1>7, <1>9, <1>10 DEF Next, Cleaning

\* Whatever interleaving of cleanups, crashes, reused pids, failing removals
\* and failing statements: no cleanup removes the state directory of a VM
\* whose owner is alive.
THEOREM LiveDirIsKept == Spec => []LiveDirKept
<1>1. Init => DirInv
  BY SlotTableAssumption DEF Init, DirInv, FoundRowsAreDead, LiveDirKept,
     NoRows, UsesDir, HoldsSlot
<1>2. DirInv => LiveDirKept
  BY DEF DirInv
<1> QED
  BY <1>1, <1>2, TypeCorrect, DirInductive, PTL DEF Spec

\* A row that a pending cleanup took for stale belongs to a process that is dead
\* for good, however its slot and its pid are used meanwhile.
THEOREM FoundRowsAreOfTheDead == Spec => []FoundRowsAreDead
<1>1. Init => DirInv
  BY SlotTableAssumption DEF Init, DirInv, FoundRowsAreDead, LiveDirKept,
     NoRows, UsesDir, HoldsSlot
<1>2. DirInv => FoundRowsAreDead
  BY DEF DirInv
<1> QED
  BY <1>1, <1>2, TypeCorrect, DirInductive, PTL DEF Spec

-----------------------------------------------------------------------------
(* The slot of a live VM, when cleanups that found something do not overlap *)

HoldInv == FoundRowsAreDead /\ FoundRowsStillThere /\ LiveVMHoldsSlot
             /\ ColumnsBelongToRow

\* A step that touches neither the table nor the pending cleanups, revives no
\* process and moves no VM into the states that hold a slot keeps HoldInv.
LEMMA HoldFrame ==
    ASSUME HoldInv,
           UNCHANGED <<rows, qemuPid, console, slot, found>>,
           alive' \subseteq alive,
           \A w \in VMs : pc'[w] \in HoldsSlot => pc[w] \in HoldsSlot
    PROVE  HoldInv'
<1>1. FoundRowsAreDead' /\ FoundRowsStillThere' /\ ColumnsBelongToRow'
  BY DEF HoldInv, FoundRowsAreDead, FoundRowsStillThere, ColumnsBelongToRow
<1>2. LiveVMHoldsSlot'
  BY DEF HoldInv, LiveVMHoldsSlot
<1> QED
  BY <1>1, <1>2 DEF HoldInv

LEMMA NoRowsIsEmpty == \A s \in Slots : NoRows[s] = NoVM
BY DEF NoRows

\* Forgetting what some actors found keeps the invariants on what was found.
LEMMA HoldForget ==
    ASSUME HoldInv,
           \A b \in Actors : found'[b] = found[b] \/ found'[b] = NoRows,
           alive' \subseteq alive,
           UNCHANGED <<rows, qemuPid, console, slot>>,
           \A w \in VMs : pc'[w] \in HoldsSlot => pc[w] \in HoldsSlot
    PROVE  HoldInv'
<1>1. FoundRowsAreDead'
  BY NoRowsIsEmpty DEF HoldInv, FoundRowsAreDead
<1>2. FoundRowsStillThere'
  BY NoRowsIsEmpty DEF HoldInv, FoundRowsStillThere
<1>3. LiveVMHoldsSlot' /\ ColumnsBelongToRow'
  BY DEF HoldInv, LiveVMHoldsSlot, ColumnsBelongToRow
<1> QED
  BY <1>1, <1>2, <1>3 DEF HoldInv

LEMMA HoldInductive ==
    TypeOK /\ Serialised /\ HoldInv /\ [Next]_vars => HoldInv'
<1> SUFFICES ASSUME TypeOK, Serialised, HoldInv, [Next]_vars PROVE HoldInv'
  OBVIOUS
<1> USE SlotTableAssumption DEF dbVars, procVars
<1>1. ASSUME NEW p \in Procs, ProcessDies(p) PROVE HoldInv'
  <2>1. /\ \A b \in Actors : found'[b] = found[b] \/ found'[b] = NoRows
        /\ alive' \subseteq alive
        /\ UNCHANGED <<rows, qemuPid, console, slot, pc>>
    BY <1>1 DEF ProcessDies
  <2> QED
    BY <2>1, HoldForget
<1>2. ASSUME NEW p \in Procs, PidReused(p) PROVE HoldInv'
  BY <1>2, HoldFrame DEF PidReused
<1>3. ASSUME NEW a \in Actors, CleanupScan(a) PROVE HoldInv'
  <2>1. \A b \in Actors : found[b] = NoRows
    BY <1>3 DEF CleanupScan
  <2>2. \A b \in Actors : b # a => found'[b] = NoRows
    BY <1>3, <2>1 DEF CleanupScan, TypeOK
  <2>3. \A s \in Slots : found'[a][s] # NoVM =>
            found'[a][s] = rows[s] /\ Owner[rows[s]] \notin alive
    BY <1>3 DEF CleanupScan, TypeOK, Stale, isPIDAlive
  <2>4. UNCHANGED <<rows, qemuPid, console, slot, alive, pc>>
    BY <1>3 DEF CleanupScan
  <2>5. FoundRowsAreDead'
    BY <2>2, <2>3, <2>4, NoRowsIsEmpty DEF FoundRowsAreDead
  <2>6. FoundRowsStillThere'
    BY <2>2, <2>3, <2>4, NoRowsIsEmpty DEF FoundRowsStillThere
  <2>7. LiveVMHoldsSlot' /\ ColumnsBelongToRow'
    BY <2>4 DEF HoldInv, LiveVMHoldsSlot, ColumnsBelongToRow
  <2> QED
    BY <2>5, <2>6, <2>7 DEF HoldInv
<1>4. ASSUME NEW a \in Actors, CleanupRemoveDirs(a) PROVE HoldInv'
  BY <1>4, HoldFrame DEF CleanupRemoveDirs
<1>5. ASSUME NEW a \in Actors, CleanupDelete(a) PROVE HoldInv'
  <2>1. \A b \in Actors : found'[b] = IF b = a THEN NoRows ELSE found[b]
    BY <1>5 DEF CleanupDelete, TypeOK
  <2>2. UNCHANGED <<slot, alive, pc>>
    BY <1>5 DEF CleanupDelete
  <2>3. \A s \in Slots :
           /\ rows'[s] = IF found[a][s] # NoVM THEN NoVM ELSE rows[s]
           /\ qemuPid'[s] = IF found[a][s] # NoVM THEN NoVM ELSE qemuPid[s]
           /\ console'[s] = IF found[a][s] # NoVM THEN NoVM ELSE console[s]
    BY <1>5 DEF CleanupDelete
  <2>4. FoundRowsAreDead'
    BY <2>1, <2>2, NoRowsIsEmpty DEF HoldInv, FoundRowsAreDead
  <2>5. FoundRowsStillThere'
    <3>1. ASSUME NEW b \in Actors, NEW s \in Slots, found'[b][s] # NoVM
          PROVE  rows'[s] = found'[b][s]
      BY <2>1, <2>3, <3>1, NoRowsIsEmpty DEF HoldInv, FoundRowsStillThere
    <3>2. ASSUME NEW b \in Actors, NEW c \in Actors, b # c
          PROVE  found'[b] = NoRows \/ found'[c] = NoRows
      BY <2>1, <3>2 DEF HoldInv, FoundRowsStillThere
    <3> QED
      BY <3>1, <3>2 DEF FoundRowsStillThere, NoRows
  <2>6. LiveVMHoldsSlot'
    <3> SUFFICES ASSUME NEW v \in VMs, Owner[v] \in alive, pc[v] \in HoldsSlot
                 PROVE  slot[v] \in Slots /\ rows'[slot[v]] = v
      BY <2>2 DEF LiveVMHoldsSlot
    <3>1. slot[v] \in Slots /\ rows[slot[v]] = v
      BY DEF HoldInv, LiveVMHoldsSlot
    <3>2. found[a][slot[v]] = NoVM
      BY <3>1 DEF HoldInv, FoundRowsAreDead, FoundRowsStillThere
    <3> QED
      BY <2>3, <3>1, <3>2
  <2>7. ColumnsBelongToRow'
    BY <2>3 DEF HoldInv, ColumnsBelongToRow
  <2> QED
    BY <2>4, <2>5, <2>6, <2>7 DEF HoldInv
<1>6. ASSUME NEW r \in Readers, Query(r) PROVE HoldInv'
  BY <1>6, HoldFrame DEF Query
<1>7. ASSUME NEW r \in Readers, QueryFails(r) PROVE HoldInv'
  <2>1. \A b \in Actors : found'[b] = found[b] \/ found'[b] = NoRows
    BY <1>7 DEF QueryFails, TypeOK
  <2> QED
    BY <1>7, <2>1, HoldForget DEF QueryFails
<1>8. ASSUME NEW v \in VMs, NEW had \in SUBSET Resources, NewVMFails(v, had)
      PROVE  HoldInv'
  <2>1. \A w \in VMs : pc'[w] \in HoldsSlot => pc[w] \in HoldsSlot
    BY <1>8 DEF NewVMFails, TypeOK, HoldsSlot
  <2>2. \A b \in Actors : found'[b] = found[b] \/ found'[b] = NoRows
    BY <1>8 DEF NewVMFails, TypeOK
  <2> QED
    BY <1>8, <2>1, <2>2, HoldForget DEF NewVMFails
<1>9. ASSUME NEW v \in VMs, Lifecycle(v) PROVE HoldInv'
  <2>1. CASE QEMUExits(v)
    BY <2>1, HoldFrame DEF QEMUExits
  <2>2. CASE StateDirUnusable(v) \/ PeekFails(v) \/ FSDaemonFails(v)
                \/ AllocateFails(v)
    <3>1. /\ res[v] \in SUBSET Resources
          /\ res[v] \cup {"token"} \in SUBSET Resources
          /\ SUBSET {"dir"} \subseteq SUBSET Resources
      BY DEF TypeOK, Resources
    <3>2. \E had \in SUBSET Resources : NewVMFails(v, had)
      BY <2>2, <3>1 DEF StateDirUnusable, PeekFails, FSDaemonFails, AllocateFails
    <3> QED
      BY <1>8, <3>2
  <2>3. CASE \/ MakeStateDir(v) \/ PeekNextSlotNumber(v) \/ StartFSDaemon(v)
             \/ StartPasst(v) \/ LaunchQEMU(v) \/ StartFails(v)
             \/ WaitReturns(v) \/ StopHelpers(v) \/ RemoveStateDir(v)
    <3>1. \A w \in VMs : pc'[w] \in HoldsSlot => pc[w] \in HoldsSlot
      BY <2>3 DEF MakeStateDir, PeekNextSlotNumber, StartFSDaemon, StartPasst,
         LaunchQEMU, StartFails, WaitReturns, StopHelpers, RemoveStateDir, At,
         TypeOK, HoldsSlot
    <3>2. UNCHANGED <<rows, qemuPid, console, slot, found, alive>>
      BY <2>3 DEF MakeStateDir, PeekNextSlotNumber, StartFSDaemon, StartPasst,
         LaunchQEMU, StartFails, WaitReturns, StopHelpers, RemoveStateDir
    <3> QED
      BY <3>1, <3>2, HoldFrame
  <2>4. CASE AllocateVMSlot(v)
    <3>1. PICK s \in Free :
             /\ rows' = [rows EXCEPT ![s] = v]
             /\ qemuPid' = [qemuPid EXCEPT ![s] = NoVM]
             /\ console' = [console EXCEPT ![s] = NoVM]
             /\ slot' = [slot EXCEPT ![v] = s]
      BY <2>4 DEF AllocateVMSlot
    <3>2. s \in Slots /\ rows[s] = NoVM
      BY DEF Free
    <3>3. UNCHANGED <<alive, found>> /\ pc' = [pc EXCEPT ![v] = "created"]
      BY <2>4 DEF AllocateVMSlot
    <3>4. FoundRowsAreDead'
      BY <3>3 DEF HoldInv, FoundRowsAreDead
    <3>5. FoundRowsStillThere'
      BY <3>1, <3>2, <3>3 DEF HoldInv, FoundRowsStillThere, TypeOK
    <3>6. LiveVMHoldsSlot'
      BY <3>1, <3>2, <3>3 DEF HoldInv, LiveVMHoldsSlot, TypeOK
    <3>7. ColumnsBelongToRow'
      BY <3>1, <3>2 DEF HoldInv, ColumnsBelongToRow, TypeOK
    <3> QED
      BY <3>4, <3>5, <3>6, <3>7 DEF HoldInv
  <2>5. CASE UpdateSlotQEMUPid(v) \/ UpdateSlotConsole(v)
    <3>1. UNCHANGED <<rows, slot, found, alive>>
      BY <2>5 DEF UpdateSlotQEMUPid, UpdateSlotConsole
    <3>2. /\ \A w \in VMs : pc'[w] \in HoldsSlot => pc[w] \in HoldsSlot
          /\ Owner[v] \in alive /\ pc[v] \in HoldsSlot
      BY <2>5 DEF UpdateSlotQEMUPid, UpdateSlotConsole, At, TypeOK, HoldsSlot
    <3>3. slot[v] \in Slots /\ rows[slot[v]] = v
      BY <3>2 DEF HoldInv, LiveVMHoldsSlot
    <3>4. /\ qemuPid' = qemuPid \/ qemuPid' = [qemuPid EXCEPT ![slot[v]] = v]
          /\ console' = console \/ console' = [console EXCEPT ![slot[v]] = v]
      BY <2>5, <3>3 DEF UpdateSlotQEMUPid, UpdateSlotConsole, SetColumn
    <3>5. ColumnsBelongToRow'
      BY <3>1, <3>3, <3>4 DEF HoldInv, ColumnsBelongToRow, TypeOK
    <3>6. FoundRowsAreDead' /\ FoundRowsStillThere'
      BY <3>1 DEF HoldInv, FoundRowsAreDead, FoundRowsStillThere
    <3>7. LiveVMHoldsSlot'
      BY <3>1, <3>2 DEF HoldInv, LiveVMHoldsSlot
    <3> QED
      BY <3>5, <3>6, <3>7 DEF HoldInv
  <2>6. CASE ReleaseVMSlot(v)
    <3>1. /\ UNCHANGED <<slot, found, alive>>
          /\ pc' = [pc EXCEPT ![v] = "rmdir"]
          /\ Owner[v] \in alive /\ pc[v] \in HoldsSlot
      BY <2>6 DEF ReleaseVMSlot, At, HoldsSlot
    <3>2. slot[v] \in Slots /\ rows[slot[v]] = v
      BY <3>1 DEF HoldInv, LiveVMHoldsSlot
    <3>3. \/ UNCHANGED <<rows, qemuPid, console>>
          \/ /\ rows' = [rows EXCEPT ![slot[v]] = NoVM]
             /\ qemuPid' = [qemuPid EXCEPT ![slot[v]] = NoVM]
             /\ console' = [console EXCEPT ![slot[v]] = NoVM]
      BY <2>6 DEF ReleaseVMSlot
    <3>4. FoundRowsAreDead'
      BY <3>1 DEF HoldInv, FoundRowsAreDead
    <3>5. FoundRowsStillThere'
      <4>1. \A a \in Actors : found[a][slot[v]] = NoVM
        BY <3>1, <3>2 DEF HoldInv, FoundRowsAreDead, FoundRowsStillThere
      <4> QED
        BY <3>1, <3>2, <3>3, <4>1 DEF HoldInv, FoundRowsStillThere, TypeOK
    <3>6. LiveVMHoldsSlot'
      <4> SUFFICES ASSUME NEW w \in VMs, Owner[w] \in alive,
                          pc'[w] \in HoldsSlot
                   PROVE  slot[w] \in Slots /\ rows'[slot[w]] = w
        BY <3>1 DEF LiveVMHoldsSlot
      <4>1. w # v /\ pc[w] \in HoldsSlot
        BY <3>1 DEF TypeOK, HoldsSlot
      <4>2. slot[w] \in Slots /\ rows[slot[w]] = w
        BY <4>1 DEF HoldInv, LiveVMHoldsSlot
      <4> QED
        BY <3>2, <3>3, <4>1, <4>2 DEF TypeOK
    <3>7. ColumnsBelongToRow'
      BY <3>2, <3>3 DEF HoldInv, ColumnsBelongToRow, TypeOK
    <3> QED
      BY <3>4, <3>5, <3>6, <3>7 DEF HoldInv
  <2> QED
    BY <1>9, <2>1, <2>2, <2>3, <2>4, <2>5, <2>6 DEF Lifecycle
<1>10. CASE UNCHANGED vars
  BY <1>10, HoldFrame DEF vars
<1> QED
  BY <1>1, <1>2, <1>3, <1>4, <1>5, <1>6, <1>7, <1>9, <1>10 DEF Next, Cleaning

LEMMA HoldInitially == Init => HoldInv
<1> SUFFICES ASSUME Init PROVE HoldInv
  OBVIOUS
<1>1. FoundRowsAreDead /\ FoundRowsStillThere
  BY NoRowsIsEmpty DEF Init, FoundRowsAreDead, FoundRowsStillThere
<1>2. LiveVMHoldsSlot
  BY DEF Init, LiveVMHoldsSlot, HoldsSlot
<1>3. ColumnsBelongToRow
  BY NoRowsIsEmpty DEF Init, ColumnsBelongToRow
<1> QED
  BY <1>1, <1>2, <1>3 DEF HoldInv

\* If no two cleanups that found stale rows overlap, a VM keeps the row of its
\* slot from AllocateVMSlot to ReleaseVMSlot while its owner lives.
THEOREM SlotIsHeld ==
    ASSUME Serialised
    PROVE  Spec => []LiveVMHoldsSlot
<1>1. HoldInv => LiveVMHoldsSlot
  BY DEF HoldInv
<1>2. TypeOK /\ HoldInv /\ [Next]_vars => HoldInv'
  BY HoldInductive
<1> QED
  BY <1>1, <1>2, TypeCorrect, HoldInitially, PTL DEF Spec

\* Under the same condition the columns UpdateSlotQEMUPid and UpdateSlotConsole
\* write by slot number always describe the VM whose row it is.
THEOREM ColumnsAreOwn ==
    ASSUME Serialised
    PROVE  Spec => []ColumnsBelongToRow
<1>1. HoldInv => ColumnsBelongToRow
  BY DEF HoldInv
<1>2. TypeOK /\ HoldInv /\ [Next]_vars => HoldInv'
  BY HoldInductive
<1> QED
  BY <1>1, <1>2, TypeCorrect, HoldInitially, PTL DEF Spec

\* Different slots have disjoint port ranges, all of them inside
\* BasePort .. BasePort + MaxVMSlots * PortsPerSlot - 1.
LEMMA PortRanges ==
    ASSUME NEW s \in Slots, NEW t \in Slots
    PROVE  /\ PortStart(s) >= BasePort
           /\ PortEnd(s) < BasePort + MaxVMSlots * PortsPerSlot
           /\ s # t => PortEnd(s) < PortStart(t) \/ PortEnd(t) < PortStart(s)
BY SlotTableAssumption DEF Slots, PortStart, PortEnd, BasePort, PortsPerSlot

\* Under the same condition no two VMs with live owners are given a common
\* host port.
THEOREM PortsAreExclusive ==
    ASSUME Serialised
    PROVE  Spec => []PortsExclusive
<1>1. LiveVMHoldsSlot => PortsExclusive
  <2> SUFFICES ASSUME LiveVMHoldsSlot,
                      NEW v \in VMs, Owner[v] \in alive, pc[v] \in HoldsSlot,
                      NEW w \in VMs, Owner[w] \in alive, pc[w] \in HoldsSlot
               PROVE  /\ PortStart(slot[v]) >= BasePort
                      /\ PortEnd(slot[v]) < BasePort + MaxVMSlots * PortsPerSlot
                      /\ v # w => \/ PortEnd(slot[v]) < PortStart(slot[w])
                                  \/ PortEnd(slot[w]) < PortStart(slot[v])
    BY DEF PortsExclusive
  <2>1. slot[v] \in Slots /\ slot[w] \in Slots
    BY DEF LiveVMHoldsSlot
  <2>2. v # w => slot[v] # slot[w]
    BY DEF LiveVMHoldsSlot
  <2> QED
    BY <2>1, <2>2, PortRanges
<1> QED
  BY <1>1, SlotIsHeld, PTL

-----------------------------------------------------------------------------
(* The table implements the allocator *)

\* A VM that AllocateVMSlot has yet to serve has no slot number.
FreshHasNoSlot ==
    \A v \in VMs : pc[v] \in {"new", "peek", "fsd", "alloc"} => slot[v] = 0

LEMMA FreshInductive == TypeOK /\ FreshHasNoSlot /\ [Next]_vars => FreshHasNoSlot'
<1> SUFFICES ASSUME TypeOK, FreshHasNoSlot, [Next]_vars PROVE FreshHasNoSlot'
  OBVIOUS
<1> USE DEF TypeOK, FreshHasNoSlot
<1>1. ASSUME UNCHANGED <<pc, slot>> PROVE FreshHasNoSlot'
  BY <1>1
<1>2. ASSUME NEW v \in VMs, UNCHANGED slot, NEW l \in PCs,
             pc' = [pc EXCEPT ![v] = l],
             \/ l \notin {"new", "peek", "fsd", "alloc"}
             \/ pc[v] \in {"new", "peek", "fsd", "alloc"}
      PROVE  FreshHasNoSlot'
  BY <1>2
<1>3. ASSUME NEW v \in VMs, AllocateVMSlot(v) PROVE FreshHasNoSlot'
  <2>1. PICK s \in Free : slot' = [slot EXCEPT ![v] = s]
    BY <1>3 DEF AllocateVMSlot
  <2>2. pc' = [pc EXCEPT ![v] = "created"]
    BY <1>3 DEF AllocateVMSlot
  <2> QED
    BY <2>1, <2>2
<1>4. ASSUME NEW v \in VMs, Lifecycle(v), ~AllocateVMSlot(v)
      PROVE  FreshHasNoSlot'
  <2>1. \/ UNCHANGED <<pc, slot>>
        \/ /\ UNCHANGED slot
           /\ \E l \in PCs :
                 /\ pc' = [pc EXCEPT ![v] = l]
                 /\ \/ l \notin {"new", "peek", "fsd", "alloc"}
                    \/ pc[v] \in {"new", "peek", "fsd", "alloc"}
    BY <1>4 DEF Lifecycle, QEMUExits, MakeStateDir, StateDirUnusable,
       PeekNextSlotNumber, PeekFails, StartFSDaemon, FSDaemonFails,
       AllocateFails, NewVMFails, StartPasst, LaunchQEMU, StartFails,
       UpdateSlotQEMUPid, UpdateSlotConsole, WaitReturns, StopHelpers,
       ReleaseVMSlot, RemoveStateDir, At, PCs
  <2> QED
    BY <1>1, <1>2, <2>1
<1>5. ASSUME NEW p \in Procs, ProcessDies(p) \/ PidReused(p)
      PROVE  FreshHasNoSlot'
  BY <1>1, <1>5 DEF ProcessDies, PidReused
<1>6. ASSUME NEW a \in Actors, Cleaning(a) PROVE FreshHasNoSlot'
  BY <1>1, <1>6 DEF Cleaning, CleanupScan, CleanupRemoveDirs, CleanupDelete
<1>7. ASSUME NEW r \in Readers, Query(r) \/ QueryFails(r)
      PROVE  FreshHasNoSlot'
  BY <1>1, <1>7 DEF Query, QueryFails
<1>8. CASE UNCHANGED vars
  BY <1>1, <1>8 DEF vars
<1> QED
  BY <1>3, <1>4, <1>5, <1>6, <1>7, <1>8 DEF Next

\* What a step must leave alone for the allocator not to see it.
LEMMA AllocatorBlind ==
    ASSUME UNCHANGED <<rows, alive, slot>>
    PROVE  UNCHANGED Allocator!vars
BY DEF Allocator!vars

LEMMA AllocatorInitially == Init => Allocator!Init
BY SlotTableAssumption DEF Init, NoRows, Slots, Allocator!Init, Allocator!Slots

\* Every step of the table is a step of the allocator or invisible to it.
LEMMA AllocatorStep ==
    TypeOK /\ Serialised /\ HoldInv /\ FreshHasNoSlot /\ [Next]_vars
        => [Allocator!Next]_(Allocator!vars)
<1> SUFFICES ASSUME TypeOK, Serialised, HoldInv, FreshHasNoSlot, [Next]_vars
             PROVE  Allocator!Next \/ UNCHANGED Allocator!vars
  OBVIOUS
<1>0. Allocator!Slots = Slots
  BY DEF Slots, Allocator!Slots
<1>1. ASSUME NEW p \in Procs, ProcessDies(p) PROVE Allocator!OwnerEnds(p)
  <2>1. p \in alive /\ alive' = alive \ {p} /\ UNCHANGED <<rows, slot>>
    BY <1>1 DEF ProcessDies, dbVars
  <2>2. /\ p \notin Procs \ alive
        /\ Procs \ alive' = (Procs \ alive) \cup {p}
        /\ {v \in VMs : slot'[v] # 0} = {v \in VMs : slot[v] # 0}
    BY <2>1
  <2> QED
    BY <2>1, <2>2 DEF Allocator!OwnerEnds
<1>2. ASSUME NEW a \in Actors, CleanupDelete(a) PROVE Allocator!Reclaim
  <2> DEFINE S == {s \in Slots : found[a][s] # NoVM}
  <2>1. \A s \in S : rows[s] = found[a][s] /\ rows[s] # NoVM
                      /\ Owner[rows[s]] \notin alive
    BY DEF HoldInv, FoundRowsStillThere, FoundRowsAreDead
  <2>2. \A s \in S : Owner[rows[s]] \in Procs \ alive
    BY <2>1, SlotTableAssumption DEF TypeOK
  <2>3. rows' = [s \in Slots |-> IF s \in S THEN NoVM ELSE rows[s]]
    BY <1>2 DEF CleanupDelete
  <2>4. UNCHANGED <<alive, slot>>
    BY <1>2 DEF CleanupDelete, procVars
  <2> HIDE DEF S
  <2>5. S \in SUBSET {s \in Slots : rows[s] # NoVM
                                      /\ Owner[rows[s]] \in Procs \ alive}
    BY <2>1, <2>2 DEF S
  <2> QED
    BY <1>0, <2>3, <2>4, <2>5 DEF Allocator!Reclaim
<1>3. ASSUME NEW v \in VMs, AllocateVMSlot(v) PROVE Allocator!Acquire(v)
  <2>1. PICK s \in Free : /\ \A t \in Free : s <= t
                          /\ rows' = [rows EXCEPT ![s] = v]
                          /\ slot' = [slot EXCEPT ![v] = s]
    BY <1>3 DEF AllocateVMSlot
  <2>2. Owner[v] \in alive /\ slot[v] = 0 /\ UNCHANGED alive
    BY <1>3 DEF AllocateVMSlot, At, FreshHasNoSlot, procVars
  <2>3. s \in Slots /\ s # 0 /\ rows[s] = NoVM
    BY <2>1 DEF Free, Slots
  <2>4. \A t \in Slots : t < s => rows[t] # NoVM
    BY <2>1, <2>3 DEF Free, Slots
  <2>5. {w \in VMs : slot'[w] # 0} = {w \in VMs : slot[w] # 0} \cup {v}
    BY <2>1, <2>3 DEF TypeOK
  <2> QED
    BY <1>0, <2>1, <2>2, <2>3, <2>4, <2>5 DEF Allocator!Acquire
<1>4. ASSUME NEW v \in VMs, ReleaseVMSlot(v)
      PROVE  Allocator!Release(v) \/ UNCHANGED Allocator!vars
  <2>1. Owner[v] \in alive /\ pc[v] \in HoldsSlot /\ UNCHANGED <<alive, slot>>
    BY <1>4 DEF ReleaseVMSlot, At, HoldsSlot, procVars
  <2>2. slot[v] \in Slots /\ rows[slot[v]] = v
    BY <2>1 DEF HoldInv, LiveVMHoldsSlot
  <2>3. rows' = [rows EXCEPT ![slot[v]] = NoVM] \/ UNCHANGED rows
    BY <1>4 DEF ReleaseVMSlot, dbVars
  <2>4. ASSUME rows' = [rows EXCEPT ![slot[v]] = NoVM] PROVE Allocator!Release(v)
    BY <1>0, <2>1, <2>2, <2>4 DEF Allocator!Release
  <2> QED
    BY <2>1, <2>3, <2>4, AllocatorBlind
<1>5. ASSUME NEW v \in VMs, Lifecycle(v), ~AllocateVMSlot(v), ~ReleaseVMSlot(v)
      PROVE  UNCHANGED Allocator!vars
  <2>1. UNCHANGED <<rows, alive, slot>>
    BY <1>5 DEF Lifecycle, QEMUExits, MakeStateDir, StateDirUnusable,
       PeekNextSlotNumber, PeekFails, StartFSDaemon, FSDaemonFails,
       AllocateFails, NewVMFails, StartPasst, LaunchQEMU, StartFails,
       UpdateSlotQEMUPid, UpdateSlotConsole, WaitReturns, StopHelpers,
       RemoveStateDir, dbVars, procVars
  <2> QED
    BY <2>1, AllocatorBlind
<1>6. ASSUME \/ \E p \in Procs : PidReused(p)
             \/ \E a \in Actors : CleanupScan(a) \/ CleanupRemoveDirs(a)
             \/ \E r \in Readers : Query(r) \/ QueryFails(r)
             \/ UNCHANGED vars
      PROVE  UNCHANGED Allocator!vars
  <2>1. UNCHANGED <<rows, alive, slot>>
    BY <1>6 DEF PidReused, CleanupScan, CleanupRemoveDirs, Query, QueryFails,
       vars, dbVars, procVars
  <2> QED
    BY <2>1, AllocatorBlind
<1> QED
  BY <1>1, <1>2, <1>3, <1>4, <1>5, <1>6 DEF Next, Cleaning, Allocator!Next

\* Where cleanups that found stale rows do not overlap, the table, with all its
\* statements, crashes, reused pids and failures, is the allocator of slots
\* that its users take it for.
THEOREM TableIsAllocator ==
    ASSUME Serialised
    PROVE  Spec => IsAllocator
<1>1. Init => FreshHasNoSlot
  BY DEF Init, FreshHasNoSlot
<1>2. TypeOK /\ HoldInv /\ [Next]_vars => HoldInv'
  BY HoldInductive
<1>3. TypeOK /\ HoldInv /\ FreshHasNoSlot /\ [Next]_vars
        => [Allocator!Next]_(Allocator!vars)
  BY AllocatorStep
<1> QED
  BY <1>1, <1>2, <1>3, TypeCorrect, HoldInitially, FreshInductive,
     AllocatorInitially, PTL DEF Spec, IsAllocator, Allocator!Spec

-----------------------------------------------------------------------------
(* What a dead owner left can be found *)

\* A cleanup that is about to delete rows has removed their directories.
DirsGoFirst ==
    \A a \in Actors, s \in Slots :
        cl[a] = "removed" /\ found[a][s] # NoVM
            => "dir" \notin res[found[a][s]]

StaleInv == DirsGoFirst /\ StaleDirHasRow

\* A step that gives no dead VM a directory and takes no row away keeps it.
LEMMA StaleFrame ==
    ASSUME TypeOK, FoundRowsAreDead, StaleInv,
           \A a \in Actors : \/ found'[a] = found[a] /\ cl'[a] = cl[a]
                            \/ found'[a] = NoRows
                            \/ cl'[a] # "removed",
           \A v \in VMs : Owner[v] \notin alive =>
                              ("dir" \in res'[v] => "dir" \in res[v]),
           UNCHANGED rows, UNCHANGED alive,
           \A v \in VMs : Owner[v] \notin alive => pc'[v] = pc[v]
    PROVE  StaleInv'
<1>1. DirsGoFirst'
  <2> SUFFICES ASSUME NEW a \in Actors, NEW s \in Slots,
                      cl'[a] = "removed", found'[a][s] # NoVM
               PROVE  "dir" \notin res'[found'[a][s]]
    BY DEF DirsGoFirst
  <2>1. found'[a] = found[a] /\ cl'[a] = cl[a]
    BY NoRowsIsEmpty
  <2>2. found[a][s] \in VMs /\ Owner[found[a][s]] \notin alive
    BY <2>1 DEF TypeOK, FoundRowsAreDead
  <2> QED
    BY <2>1, <2>2 DEF StaleInv, DirsGoFirst
<1>2. StaleDirHasRow'
  BY DEF StaleInv, StaleDirHasRow
<1> QED
  BY <1>1, <1>2 DEF StaleInv

LEMMA StaleInductive ==
    ASSUME Serialised, "removeall" \notin Faults
    PROVE  TypeOK /\ HoldInv /\ StaleInv /\ [Next]_vars => StaleInv'
<1> SUFFICES ASSUME TypeOK, HoldInv, StaleInv, [Next]_vars PROVE StaleInv'
  OBVIOUS
<1>0. FoundRowsAreDead
  BY DEF HoldInv
<1> USE SlotTableAssumption DEF dbVars, procVars
<1>1. ASSUME NEW p \in Procs, ProcessDies(p) PROVE StaleInv'
  <2>1. /\ \A a \in Actors : \/ found'[a] = found[a] /\ cl'[a] = cl[a]
                             \/ found'[a] = NoRows
        /\ alive' = alive \ {p} /\ UNCHANGED <<rows, pc, slot>>
    BY <1>1 DEF ProcessDies, TypeOK
  <2>2. \A v \in VMs : "dir" \in res'[v] => "dir" \in res[v]
    BY <1>1 DEF ProcessDies, TypeOK
  <2>3. DirsGoFirst'
    <3> SUFFICES ASSUME NEW a \in Actors, NEW s \in Slots,
                        cl'[a] = "removed", found'[a][s] # NoVM
                 PROVE  "dir" \notin res'[found'[a][s]]
      BY DEF DirsGoFirst
    <3>1. found'[a] = found[a] /\ cl'[a] = cl[a]
      BY <2>1, NoRowsIsEmpty
    <3>2. found[a][s] \in VMs
      BY <3>1 DEF TypeOK
    <3> QED
      BY <2>2, <3>1, <3>2 DEF StaleInv, DirsGoFirst
  <2>4. StaleDirHasRow'
    BY <2>1, <2>2 DEF StaleInv, StaleDirHasRow, HoldInv, LiveVMHoldsSlot
  <2> QED
    BY <2>3, <2>4 DEF StaleInv
<1>2. ASSUME NEW p \in Procs, PidReused(p) PROVE StaleInv'
  BY <1>0, <1>2, StaleFrame DEF PidReused
<1>3. ASSUME NEW a \in Actors, CleanupScan(a) PROVE StaleInv'
  <2>1. \A b \in Actors : \/ found'[b] = found[b] /\ cl'[b] = cl[b]
                          \/ cl'[b] # "removed"
    BY <1>3 DEF CleanupScan, TypeOK
  <2> QED
    BY <1>0, <1>3, <2>1, StaleFrame DEF CleanupScan
<1>4. ASSUME NEW a \in Actors, CleanupRemoveDirs(a) PROVE StaleInv'
  <2>1. /\ \A v \in VMs : "dir" \in res'[v] => "dir" \in res[v]
        /\ \A v \in VMs : (\E s \in Slots : found[a][s] = v)
                              => "dir" \notin res'[v]
    BY <1>4 DEF CleanupRemoveDirs, TypeOK
  <2>2. /\ UNCHANGED <<rows, alive, pc, found>>
        /\ \A b \in Actors : b # a => cl'[b] = cl[b]
    BY <1>4 DEF CleanupRemoveDirs, TypeOK
  <2>3. DirsGoFirst'
    <3> SUFFICES ASSUME NEW b \in Actors, NEW s \in Slots,
                        cl'[b] = "removed", found[b][s] # NoVM
                 PROVE  "dir" \notin res'[found[b][s]]
      BY <2>2 DEF DirsGoFirst
    <3>1. found[b][s] \in VMs
      BY DEF TypeOK
    <3> QED
      BY <2>1, <2>2, <3>1 DEF StaleInv, DirsGoFirst
  <2>4. StaleDirHasRow'
    BY <2>1, <2>2 DEF StaleInv, StaleDirHasRow
  <2> QED
    BY <2>3, <2>4 DEF StaleInv
<1>5. ASSUME NEW a \in Actors, CleanupDelete(a) PROVE StaleInv'
  <2>1. /\ cl[a] = "removed"
        /\ UNCHANGED <<alive, pc, res>>
        /\ \A b \in Actors : IF b = a THEN found'[b] = NoRows
                              ELSE found'[b] = found[b] /\ cl'[b] = cl[b]
        /\ \A s \in Slots :
              rows'[s] = IF found[a][s] # NoVM THEN NoVM ELSE rows[s]
    BY <1>5 DEF CleanupDelete, TypeOK
  <2>2. DirsGoFirst'
    BY <2>1, NoRowsIsEmpty DEF StaleInv, DirsGoFirst
  <2>3. \A v \in VMs, s \in Slots :
            "dir" \in res[v] /\ rows[s] = v => rows'[s] = v
    BY <2>1 DEF HoldInv, FoundRowsStillThere, StaleInv, DirsGoFirst
  <2>4. StaleDirHasRow'
    BY <2>1, <2>3 DEF StaleInv, StaleDirHasRow
  <2> QED
    BY <2>2, <2>4 DEF StaleInv
<1>6. ASSUME NEW r \in Readers, Query(r) \/ QueryFails(r) PROVE StaleInv'
  <2>1. \A b \in Actors : \/ found'[b] = found[b] /\ cl'[b] = cl[b]
                          \/ cl'[b] # "removed"
    BY <1>6 DEF Query, QueryFails, TypeOK
  <2> QED
    BY <1>0, <1>6, <2>1, StaleFrame DEF Query, QueryFails
<1>7. ASSUME NEW v \in VMs, Lifecycle(v) PROVE StaleInv'
  <2>1. /\ UNCHANGED alive
        /\ \A a \in Actors : \/ found'[a] = found[a] /\ cl'[a] = cl[a]
                             \/ cl'[a] # "removed"
        /\ \A w \in VMs : w # v => res'[w] = res[w] /\ pc'[w] = pc[w]
    <3>1. UNCHANGED alive
      BY <1>7 DEF Lifecycle, QEMUExits, MakeStateDir, StateDirUnusable,
         PeekNextSlotNumber, PeekFails, StartFSDaemon, FSDaemonFails,
         AllocateVMSlot, AllocateFails, NewVMFails, StartPasst, LaunchQEMU,
         StartFails, UpdateSlotQEMUPid, UpdateSlotConsole, WaitReturns,
         StopHelpers, ReleaseVMSlot, RemoveStateDir, TypeOK
    <3>2. \A a \in Actors : \/ found'[a] = found[a] /\ cl'[a] = cl[a]
                           \/ cl'[a] # "removed"
      <4>1. CASE \/ QEMUExits(v) \/ MakeStateDir(v) \/ PeekNextSlotNumber(v)
                 \/ StartFSDaemon(v) \/ AllocateVMSlot(v)
        BY <4>1 DEF QEMUExits, MakeStateDir, PeekNextSlotNumber, StartFSDaemon,
           AllocateVMSlot, TypeOK
      <4>2. CASE \/ StartPasst(v) \/ LaunchQEMU(v) \/ StartFails(v) \/ UpdateSlotQEMUPid(v)
                 \/ UpdateSlotConsole(v) \/ WaitReturns(v) \/ StopHelpers(v)
                 \/ ReleaseVMSlot(v) \/ RemoveStateDir(v)
        BY <4>2 DEF StartPasst, LaunchQEMU, StartFails, UpdateSlotQEMUPid,
           UpdateSlotConsole, WaitReturns, StopHelpers, ReleaseVMSlot, RemoveStateDir,
           TypeOK
      <4>3. CASE \E had : NewVMFails(v, had)
        BY <4>3 DEF NewVMFails, TypeOK
      <4>4. CASE StateDirUnusable(v) \/ PeekFails(v) \/ FSDaemonFails(v) \/ AllocateFails(v)
        BY <4>3, <4>4 DEF StateDirUnusable, PeekFails, FSDaemonFails, AllocateFails
      <4> QED
        BY <1>7, <4>1, <4>2, <4>4 DEF Lifecycle
    <3>3. \A w \in VMs : w # v => res'[w] = res[w] /\ pc'[w] = pc[w]
      BY <1>7 DEF Lifecycle, QEMUExits, MakeStateDir, StateDirUnusable,
         PeekNextSlotNumber, PeekFails, StartFSDaemon, FSDaemonFails,
         AllocateVMSlot, AllocateFails, NewVMFails, StartPasst, LaunchQEMU,
         StartFails, UpdateSlotQEMUPid, UpdateSlotConsole, WaitReturns,
         StopHelpers, ReleaseVMSlot, RemoveStateDir, TypeOK
    <3> QED
      BY <3>1, <3>2, <3>3
  <2>2. \/ Owner[v] \in alive
        \/ QEMUExits(v)
    BY <1>7 DEF Lifecycle, MakeStateDir, StateDirUnusable,
       PeekNextSlotNumber, PeekFails, StartFSDaemon, FSDaemonFails,
       AllocateVMSlot, AllocateFails, StartPasst, LaunchQEMU,
       StartFails, UpdateSlotQEMUPid, UpdateSlotConsole, WaitReturns,
       StopHelpers, ReleaseVMSlot, RemoveStateDir, At
  <2>3. ASSUME QEMUExits(v) PROVE StaleInv'
    <3>1. \A w \in VMs : "dir" \in res'[w] => "dir" \in res[w]
      BY <2>3 DEF QEMUExits, TypeOK
    <3> QED
      BY <1>0, <2>1, <2>3, <3>1, StaleFrame DEF QEMUExits
  <2>4. ASSUME Owner[v] \in alive, UNCHANGED rows PROVE StaleInv'
    BY <1>0, <2>1, <2>4, StaleFrame
  <2>5. ASSUME Owner[v] \in alive, AllocateVMSlot(v) \/ ReleaseVMSlot(v)
        PROVE  StaleInv'
    <3>1. \A w \in VMs, s \in Slots : w # v /\ rows[s] = w => rows'[s] = w
      <4>1. ASSUME AllocateVMSlot(v)
            PROVE  \E s \in Free : rows' = [rows EXCEPT ![s] = v]
        BY <4>1 DEF AllocateVMSlot
      <4>2. ASSUME ReleaseVMSlot(v)
            PROVE  \/ UNCHANGED rows
                   \/ /\ rows' = [rows EXCEPT ![slot[v]] = NoVM]
                      /\ rows[slot[v]] = v
        BY <2>5, <4>2 DEF ReleaseVMSlot, At, HoldInv, LiveVMHoldsSlot, HoldsSlot
      <4> QED
        BY <2>5, <4>1, <4>2 DEF TypeOK, Free
    <3>2. DirsGoFirst'
      <4> SUFFICES ASSUME NEW a \in Actors, NEW s \in Slots,
                          cl'[a] = "removed", found'[a][s] # NoVM
                   PROVE  "dir" \notin res'[found'[a][s]]
        BY DEF DirsGoFirst
      <4>1. found'[a] = found[a] /\ cl'[a] = cl[a]
        BY <2>1
      <4>2. found[a][s] \in VMs /\ found[a][s] # v
        BY <1>0, <2>5, <4>1 DEF TypeOK, FoundRowsAreDead
      <4> QED
        BY <2>1, <4>1, <4>2 DEF StaleInv, DirsGoFirst
    <3>3. StaleDirHasRow'
      <4> SUFFICES ASSUME NEW w \in VMs, Owner[w] \notin alive,
                          pc'[w] \in HoldsSlot, "dir" \in res'[w]
                   PROVE  \E s \in Slots : rows'[s] = w
        BY <2>1 DEF StaleDirHasRow
      <4>1. w # v
        BY <2>5
      <4> QED
        BY <2>1, <3>1, <4>1 DEF StaleInv, StaleDirHasRow
    <3> QED
      BY <3>2, <3>3 DEF StaleInv
  <2>6. UNCHANGED rows \/ AllocateVMSlot(v) \/ ReleaseVMSlot(v)
    BY <1>7 DEF Lifecycle, QEMUExits, MakeStateDir, StateDirUnusable,
       PeekNextSlotNumber, PeekFails, StartFSDaemon, FSDaemonFails,
       AllocateFails, NewVMFails, StartPasst, LaunchQEMU, StartFails,
       UpdateSlotQEMUPid, UpdateSlotConsole, WaitReturns, StopHelpers,
       RemoveStateDir
  <2> QED
    BY <2>2, <2>3, <2>4, <2>5, <2>6
<1>8. CASE UNCHANGED vars
  BY <1>0, <1>8, StaleFrame DEF vars
<1> QED
  BY <1>1, <1>2, <1>3, <1>4, <1>5, <1>6, <1>7, <1>8 DEF Next, Cleaning

\* As long as directories can be removed and cleanups that found something do
\* not overlap, the directory of a VM whose owner was killed has its row, so
\* the next CleanupStaleSlots finds it.
THEOREM StaleDirsAreFound ==
    ASSUME Serialised, "removeall" \notin Faults
    PROVE  Spec => []StaleDirHasRow
<1>1. Init => StaleInv
  <2> SUFFICES ASSUME Init PROVE StaleInv
    OBVIOUS
  <2>1. DirsGoFirst
    BY NoRowsIsEmpty DEF Init, DirsGoFirst
  <2>2. StaleDirHasRow
    BY DEF Init, StaleDirHasRow, HoldsSlot
  <2> QED
    BY <2>1, <2>2 DEF StaleInv
<1>2. StaleInv => StaleDirHasRow
  BY DEF StaleInv
<1>3. TypeOK /\ HoldInv /\ [Next]_vars => HoldInv'
  BY HoldInductive
<1>4. TypeOK /\ HoldInv /\ StaleInv /\ [Next]_vars => StaleInv'
  BY StaleInductive
<1> QED
  BY <1>1, <1>2, <1>3, <1>4, TypeCorrect, HoldInitially, PTL DEF Spec

-----------------------------------------------------------------------------
(* What a VM that ended leaves behind *)

\* What a VM with a live owner has on the host, by where it stands.
HasOnlyOfStage(v, r) ==
    /\ pc[v] = "new" => r = {}
    /\ pc[v] \in {"peek", "fsd", "rmdir", "release"} => r \subseteq {"dir"}
    /\ pc[v] = "alloc" => r \subseteq {"dir", "fs", "token"}
    /\ pc[v] \in {"created", "passt", "cleanup"}
          => r \subseteq {"dir", "fs", "token", "passt"}
    /\ pc[v] = "failed" => r \subseteq {"token"}
    /\ pc[v] = "done" => r = {}
StageRes == \A v \in VMs : Owner[v] \in alive => HasOnlyOfStage(v, res[v])

\* A row is its VM's between AllocateVMSlot and ReleaseVMSlot only.
RowsAreHeld ==
    \A s \in Slots, v \in VMs :
        rows[s] = v => pc[v] \in HoldsSlot /\ slot[v] = s

LEMMA StageResInductive ==
    ASSUME Faults \cap {"removeall", "sql"} = {}
    PROVE  TypeOK /\ StageRes /\ [Next]_vars => StageRes'
<1> SUFFICES ASSUME TypeOK, StageRes, [Next]_vars PROVE StageRes'
  OBVIOUS
<1> USE SlotTableAssumption DEF dbVars, procVars
<1>1. ASSUME alive' \subseteq alive, UNCHANGED pc,
             \A v \in VMs : Owner[v] \in alive' => res'[v] \subseteq res[v]
      PROVE  StageRes'
  BY <1>1 DEF StageRes, HasOnlyOfStage
<1>2. ASSUME NEW p \in Procs, ProcessDies(p) PROVE StageRes'
  <2>1. \A v \in VMs : Owner[v] \in alive' => res'[v] \subseteq res[v]
    BY <1>2 DEF ProcessDies, TypeOK
  <2> QED
    BY <1>1, <1>2, <2>1 DEF ProcessDies
<1>3. ASSUME NEW p \in Procs, PidReused(p) PROVE StageRes'
  BY <1>1, <1>3 DEF PidReused
<1>4. ASSUME NEW a \in Actors, Cleaning(a) PROVE StageRes'
  <2>1. UNCHANGED <<pc, alive>>
    BY <1>4 DEF Cleaning, CleanupScan, CleanupRemoveDirs, CleanupDelete
  <2>2. \A v \in VMs : res'[v] \subseteq res[v]
    BY <1>4 DEF Cleaning, CleanupScan, CleanupRemoveDirs, CleanupDelete, TypeOK
  <2> QED
    BY <1>1, <2>1, <2>2
<1>5. ASSUME NEW r \in Readers, Query(r) \/ QueryFails(r) PROVE StageRes'
  BY <1>1, <1>5 DEF Query, QueryFails
<1>6. ASSUME NEW v \in VMs, UNCHANGED alive, NEW l \in PCs, NEW r,
             pc' = [pc EXCEPT ![v] = l], res' = [res EXCEPT ![v] = r],
             HasOnlyOfStage(v, r)'
      PROVE  StageRes'
  <2>1. \A w \in VMs : w # v => pc'[w] = pc[w] /\ res'[w] = res[w]
    BY <1>6 DEF TypeOK
  <2>2. res'[v] = r
    BY <1>6 DEF TypeOK
  <2> QED
    BY <1>6, <2>1, <2>2 DEF StageRes, HasOnlyOfStage
<1>7. ASSUME NEW v \in VMs, NEW had, NewVMFails(v, had),
             had \subseteq {"dir", "fs", "token"}
      PROVE  StageRes'
  <2>1. res' = [res EXCEPT ![v] = (had \ {"fs"}) \ {"dir"}]
    BY <1>7 DEF NewVMFails, RemoveAll
  <2>2. pc' = [pc EXCEPT ![v] = "failed"] /\ UNCHANGED alive
    BY <1>7 DEF NewVMFails
  <2>3. HasOnlyOfStage(v, (had \ {"fs"}) \ {"dir"})'
    BY <1>7, <2>2 DEF HasOnlyOfStage, TypeOK
  <2> QED
    BY <1>6, <2>1, <2>2, <2>3 DEF PCs
<1>8. ASSUME NEW v \in VMs, Lifecycle(v) PROVE StageRes'
  <2>1. CASE QEMUExits(v)
    <3>1. \A w \in VMs : res'[w] \subseteq res[w]
      BY <2>1 DEF QEMUExits, TypeOK
    <3> QED
      BY <1>1, <2>1, <3>1 DEF QEMUExits
  <2>2. CASE StateDirUnusable(v) \/ PeekFails(v) \/ FSDaemonFails(v)
                \/ AllocateFails(v)
    <3>1. \E had \in SUBSET {"dir", "fs", "token"} : NewVMFails(v, had)
      BY <2>2 DEF StateDirUnusable, PeekFails, FSDaemonFails, AllocateFails,
         At, StageRes, HasOnlyOfStage
    <3> QED
      BY <1>7, <3>1
  <2>3. CASE \/ MakeStateDir(v) \/ PeekNextSlotNumber(v) \/ StartFSDaemon(v)
             \/ AllocateVMSlot(v) \/ StartPasst(v) \/ LaunchQEMU(v)
             \/ StartFails(v) \/ UpdateSlotQEMUPid(v) \/ UpdateSlotConsole(v)
             \/ WaitReturns(v) \/ StopHelpers(v) \/ ReleaseVMSlot(v)
             \/ RemoveStateDir(v)
    <3>1. Owner[v] \in alive /\ UNCHANGED alive /\ HasOnlyOfStage(v, res[v])
      BY <2>3 DEF MakeStateDir, PeekNextSlotNumber, StartFSDaemon,
         AllocateVMSlot, StartPasst, LaunchQEMU, StartFails, UpdateSlotQEMUPid,
         UpdateSlotConsole, WaitReturns, StopHelpers, ReleaseVMSlot,
         RemoveStateDir, At, StageRes
    <3>2. \A w \in VMs : w # v => pc'[w] = pc[w] /\ res'[w] = res[w]
      BY <2>3 DEF MakeStateDir, PeekNextSlotNumber, StartFSDaemon,
         AllocateVMSlot, StartPasst, LaunchQEMU, StartFails, UpdateSlotQEMUPid,
         UpdateSlotConsole, WaitReturns, StopHelpers, ReleaseVMSlot,
         RemoveStateDir, TypeOK
    <3>3. res[v] \subseteq Resources
      BY DEF TypeOK
    <3>4. HasOnlyOfStage(v, res[v])'
      <4>1. CASE MakeStateDir(v) \/ PeekNextSlotNumber(v) \/ StartFSDaemon(v)
                   \/ AllocateVMSlot(v) \/ StartPasst(v)
        BY <3>1, <3>3, <4>1 DEF MakeStateDir, PeekNextSlotNumber, StartFSDaemon,
           AllocateVMSlot, StartPasst, HasOnlyOfStage, At, TypeOK
      <4>2. CASE LaunchQEMU(v) \/ StartFails(v) \/ UpdateSlotQEMUPid(v)
                   \/ UpdateSlotConsole(v) \/ ReleaseVMSlot(v)
        BY <3>1, <3>3, <4>2 DEF LaunchQEMU, StartFails, UpdateSlotQEMUPid,
           UpdateSlotConsole, ReleaseVMSlot, HasOnlyOfStage, At, TypeOK
      <4>3. CASE WaitReturns(v) \/ StopHelpers(v)
        BY <3>1, <3>3, <4>3 DEF WaitReturns, StopHelpers, HasOnlyOfStage, At,
           TypeOK, Resources
      <4>4. CASE RemoveStateDir(v)
        <5>1. res' = [res EXCEPT ![v] = res[v] \ {"dir"}]
          BY <4>4 DEF RemoveStateDir, RemoveAll
        <5> QED
          BY <3>1, <4>4, <5>1 DEF RemoveStateDir, HasOnlyOfStage, At, TypeOK
      <4> QED
        BY <2>3, <4>1, <4>2, <4>3, <4>4
    <3> QED
      BY <3>1, <3>2, <3>4 DEF StageRes, HasOnlyOfStage
  <2> QED
    BY <1>8, <2>1, <2>2, <2>3 DEF Lifecycle
<1>9. CASE UNCHANGED vars
  BY <1>1, <1>9 DEF vars
<1> QED
  BY <1>2, <1>3, <1>4, <1>5, <1>8, <1>9 DEF Next

LEMMA RowsAreHeldInductive ==
    ASSUME Serialised, Faults \cap {"removeall", "sql"} = {}
    PROVE  TypeOK /\ HoldInv /\ RowsAreHeld /\ [Next]_vars => RowsAreHeld'
<1> SUFFICES ASSUME TypeOK, HoldInv, RowsAreHeld, [Next]_vars PROVE RowsAreHeld'
  OBVIOUS
<1> USE SlotTableAssumption DEF dbVars, procVars
<1>1. ASSUME UNCHANGED slot,
             \A s \in Slots, v \in VMs : rows'[s] = v => rows[s] = v,
             \A v \in VMs : pc[v] \in HoldsSlot => pc'[v] \in HoldsSlot
      PROVE  RowsAreHeld'
  BY <1>1 DEF RowsAreHeld
<1>2. ASSUME NEW p \in Procs, ProcessDies(p) \/ PidReused(p) PROVE RowsAreHeld'
  BY <1>1, <1>2 DEF ProcessDies, PidReused
<1>3. ASSUME NEW a \in Actors, Cleaning(a) PROVE RowsAreHeld'
  <2>1. UNCHANGED <<pc, slot>>
    BY <1>3 DEF Cleaning, CleanupScan, CleanupRemoveDirs, CleanupDelete
  <2>2. \A s \in Slots : rows'[s] = rows[s] \/ rows'[s] = NoVM
    BY <1>3 DEF Cleaning, CleanupScan, CleanupRemoveDirs, CleanupDelete, TypeOK
  <2> QED
    BY <1>1, <2>1, <2>2
<1>4. ASSUME NEW r \in Readers, Query(r) \/ QueryFails(r) PROVE RowsAreHeld'
  BY <1>1, <1>4 DEF Query, QueryFails
<1>5. ASSUME NEW v \in VMs, AllocateVMSlot(v) PROVE RowsAreHeld'
  <2>1. PICK s \in Free : /\ rows' = [rows EXCEPT ![s] = v]
                          /\ slot' = [slot EXCEPT ![v] = s]
    BY <1>5 DEF AllocateVMSlot
  <2>2. pc' = [pc EXCEPT ![v] = "created"] /\ pc[v] \notin HoldsSlot
    BY <1>5 DEF AllocateVMSlot, At, HoldsSlot
  <2> QED
    BY <2>1, <2>2 DEF RowsAreHeld, TypeOK, HoldsSlot, Free
<1>6. ASSUME NEW v \in VMs, ReleaseVMSlot(v) PROVE RowsAreHeld'
  <2>1. /\ rows' = [rows EXCEPT ![slot[v]] = NoVM]
        /\ pc' = [pc EXCEPT ![v] = "rmdir"] /\ UNCHANGED slot
    BY <1>6 DEF ReleaseVMSlot
  <2> QED
    BY <2>1 DEF RowsAreHeld, TypeOK
<1>7. ASSUME NEW v \in VMs, Lifecycle(v), ~AllocateVMSlot(v), ~ReleaseVMSlot(v)
      PROVE  RowsAreHeld'
  <2>1. UNCHANGED <<rows, slot>>
    BY <1>7 DEF Lifecycle, QEMUExits, MakeStateDir, StateDirUnusable,
       PeekNextSlotNumber, PeekFails, StartFSDaemon, FSDaemonFails,
       AllocateFails, NewVMFails, StartPasst, LaunchQEMU, StartFails,
       UpdateSlotQEMUPid, UpdateSlotConsole, WaitReturns, StopHelpers,
       RemoveStateDir
  <2>2. \A w \in VMs : pc[w] \in HoldsSlot => pc'[w] \in HoldsSlot
    BY <1>7 DEF Lifecycle, QEMUExits, MakeStateDir, StateDirUnusable,
       PeekNextSlotNumber, PeekFails, StartFSDaemon, FSDaemonFails,
       AllocateFails, NewVMFails, StartPasst, LaunchQEMU, StartFails,
       UpdateSlotQEMUPid, UpdateSlotConsole, WaitReturns, StopHelpers,
       RemoveStateDir, At, TypeOK, HoldsSlot
  <2> QED
    BY <1>1, <2>1, <2>2
<1>8. CASE UNCHANGED vars
  BY <1>1, <1>8 DEF vars
<1> QED
  BY <1>2, <1>3, <1>4, <1>5, <1>6, <1>7, <1>8 DEF Next

\* When neither the removal of a directory nor a statement fails and cleanups
\* that found something do not overlap, a VM whose start failed or whose Cleanup
\* returned has nothing on the host but, at most, the token file of a share
\* daemon that NewVM killed, whichever step it failed in.
THEOREM EndedVMsLeaveNothing ==
    ASSUME Serialised, Faults \cap {"removeall", "sql"} = {}
    PROVE  Spec => []EndedVMLeavesNothing
<1>1. Init => StageRes /\ RowsAreHeld
  BY NoRowsIsEmpty, SlotTableAssumption
     DEF Init, StageRes, HasOnlyOfStage, RowsAreHeld
<1>2. StageRes /\ RowsAreHeld => EndedVMLeavesNothing
  BY DEF StageRes, HasOnlyOfStage, RowsAreHeld, EndedVMLeavesNothing, HoldsSlot
<1>3. TypeOK /\ HoldInv /\ [Next]_vars => HoldInv'
  BY HoldInductive
<1>4. TypeOK /\ StageRes /\ [Next]_vars => StageRes'
  BY StageResInductive
<1>5. TypeOK /\ HoldInv /\ RowsAreHeld /\ [Next]_vars => RowsAreHeld'
  BY RowsAreHeldInductive
<1> QED
  BY <1>1, <1>2, <1>3, <1>4, <1>5, TypeCorrect, HoldInitially, PTL DEF Spec

-----------------------------------------------------------------------------
(***************************************************************************)
(*                     The images: proofs for ImageBuild                   *)
(***************************************************************************)


\* The number of the root file system, the last file of a build.
Last == Len(Early) + 1

BuildSteps ==
    {"idle", "stat", "read", "create", "write", "publish", "key", "keygen", "cleanup",
     "inspect", "base", "custom", "box", "export", "done", "failed"}

Job == [step: BuildSteps, n: 0..Last, key: 0..KeyTypes, content: Contents \cup {None},
        seen: 0..MaxBase, path: Tags, spoilt: BOOLEAN, image: Image,
        open: {"no", "tmp", "final", "gone"}, last: BOOLEAN,
        own: Tags \cup {None}, dead: BOOLEAN]

\* The steps before and after which a builder is at no file.
Resting == {"idle", "failed"}

\* The steps that only the root file system has, and what precedes them.
LateSteps == {"key", "keygen", "cleanup", "inspect", "base", "custom", "box", "export", "done"}

BuildTypes == ImageTypeOK /\ job \in [Builders -> Job]

\* Which file a builder is at in which step, and when it has one open.
Placed(p) ==
    /\ job[p].step \notin Resting => job[p].n \in 1..Last
    /\ job[p].step \in LateSteps => job[p].n = Last
    /\ job[p].step = "read" => job[p].n = Len(Early)
    /\ job[p].open # "no" <=> job[p].step \in {"write", "publish"}

\* A builder is at the root file system, in one of these steps.
Rootfs(p, steps) == job[p].n = Last /\ job[p].step \in steps

\* What a builder has chosen for its root file system.
Chosen(p) ==
    /\ Rootfs(p, {"stat", "base", "custom", "box", "export", "create", "write", "publish",
                  "done"}) => job[p].path = RootfsPath(job[p].content, job[p].seen)
    /\ Rootfs(p, {"custom", "box", "export", "create", "write", "publish"})
         => job[p].seen # 0
    /\ Rootfs(p, {"export", "create", "write", "publish"}) => job[p].own = Tag(p)

\* The files a builder has passed are in the cache.
Passed(p) ==
    /\ job[p].step \notin Resting =>
         \A i \in 1..Len(Early) : i < job[p].n => final[Early[i]] # None
    /\ job[p].step = "done" => final[job[p].path] # None

\* The file a builder has open: a temporary file that it does not write to any
\* more is known to be spoilt, one that it has written to the end is complete.
Opened(p) ==
    /\ job[p].open = "tmp" =>
         /\ tmp[The(p)] # None
         /\ ~job[p].last => tmp[The(p)].spoilt
         /\ job[p].last /\ Step(p, "publish") => tmp[The(p)].done
    /\ job[p].open = "final" => final[The(p)] # None

Orderly(p) == Placed(p) /\ Chosen(p) /\ Passed(p)

BuildInv ==
    /\ BuildTypes
    /\ \A p \in Builders : Orderly(p)
    /\ \A p \in Builders : Opened(p)
    /\ FinalIsWhole

-----------------------------------------------------------------------------
(* The files and their order *)

LEMMA EarlyFiles ==
    /\ Len(Early) \in Nat \ {0} /\ Last \in Nat
    /\ \A i \in 1..Len(Early) : Early[i] \in Files
    /\ \A i \in 1..Len(Early) : i < Len(Early) <=> i <= Len(Downloads)
    /\ \A i \in 1..Len(Downloads) : Early[i] = Downloads[i]
    /\ Early[Len(Early)] = Initramfs
<1> DEFINE D == {Downloads[n] : n \in DOMAIN Downloads} \cup {Initramfs}
<1>1. Downloads \in Seq(D) /\ <<Initramfs>> \in Seq(D)
  BY ImageBuildAssumption
<1>2. Len(Downloads) \in Nat /\ Len(Early) = Len(Downloads) + 1
  BY <1>1 DEF Early
<1>3. \A i \in 1..Len(Downloads) : Early[i] = Downloads[i]
  BY <1>1, <1>2 DEF Early
<1>4. Early[Len(Early)] = Initramfs
  BY <1>1, <1>2 DEF Early
<1> QED
  BY <1>2, <1>3, <1>4 DEF Files, Last

LEMMA TagsAreFiles == Tags \subseteq Files /\ Plain \in Tags
BY DEF Files, Tags

LEMMA PathIsTag ==
    ASSUME NEW c \in Contents \cup {None}, NEW b \in 0..MaxBase
    PROVE  RootfsPath(c, b) \in Tags
BY ImageBuildAssumption DEF RootfsPath, Tags, Bases

LEMMA TagTyped ==
    ASSUME BuildTypes, NEW p \in Builders, job[p].seen # 0
    PROVE  Tag(p) \in Tags
<1>1. job[p].content \in Contents \cup {None} /\ job[p].seen \in 0..MaxBase
  BY DEF BuildTypes, Job
<1> QED
  BY <1>1, ImageBuildAssumption DEF Tag, Tags, Bases

LEMMA FileTyped ==
    ASSUME BuildTypes, NEW p \in Builders, job[p].n \in 1..Last
    PROVE  The(p) \in Files
<1>1. job[p].path \in Tags
  BY DEF BuildTypes, Job
<1> QED
  BY <1>1, EarlyFiles, TagsAreFiles DEF The, Last

LEMMA IdleTyped == Idle \in Job /\ [Idle EXCEPT !.step = "failed"] \in Job
<1>1. NoImage \in Image
  BY ImageBuildAssumption DEF NoImage, Image
<1>2. 0 \in 0..Last /\ 0 \in 0..KeyTypes /\ 0 \in 0..MaxBase /\ Plain \in Tags
  BY EarlyFiles, TagsAreFiles, ImageBuildAssumption
<1>3. Idle \in Job
  BY <1>1, <1>2 DEF Idle, Job, BuildSteps
<1>4. [Idle EXCEPT !.step = "failed"] \in Job
  BY <1>3 DEF Job, BuildSteps
<1> QED
  BY <1>3, <1>4

\* After a file comes the next one; after those that are not made from others
\* the keys, and after the root file system nothing.
LEMMA NextFile ==
    ASSUME NEW n \in 1..Last
    PROVE  /\ n = Last => After(n) = "done"
           /\ n = Len(Early) => After(n) = "key"
           /\ n < Len(Early) => After(n) = "stat"
BY EarlyFiles DEF After, Last

-----------------------------------------------------------------------------
(* What a builder does to others *)

\* A job that differs at most in what is known of the open file.
Alike(j, k) ==
    /\ k.step = j.step /\ k.n = j.n /\ k.key = j.key /\ k.content = j.content
    /\ k.seen = j.seen /\ k.path = j.path /\ k.spoilt = j.spoilt /\ k.image = j.image
    /\ k.own = j.own
    /\ k.open = "no" <=> j.open = "no"

\* What has its final name keeps it.
Grows == \A f \in Files : final[f] # None => final'[f] # None

LEMMA OrderlyKept ==
    ASSUME BuildTypes, NEW q \in Builders, Orderly(q), Alike(job[q], job'[q]), Grows
    PROVE  Orderly(q)'
<1> USE DEF Orderly, Alike
<1>1. Placed(q)'
  BY DEF Placed, Resting, LateSteps
<1>2. Chosen(q)'
  BY DEF Chosen, Rootfs, Tag
<1>3. Passed(q)'
  <2>1. job[q].path \in Files
    BY TagsAreFiles DEF BuildTypes, Job
  <2> QED
    BY <2>1, EarlyFiles DEF Passed, Grows, Resting
<1> QED
  BY <1>1, <1>2, <1>3

LEMMA RenamedIs ==
    ASSUME BuildTypes, NEW f, NEW to \in {"final", "gone"}, NEW q \in Builders
    PROVE  /\ Renamed(f, to)[q] \in Job
           /\ Alike(job[q], Renamed(f, to)[q])
           /\ Renamed(f, to)[q].last = job[q].last
           /\ Renamed(f, to)[q].dead = job[q].dead
           /\ Renamed(f, to)[q].open = "tmp" => job[q].open = "tmp" /\ The(q) # f
           /\ Renamed(f, to)[q].open = "final" =>
                job[q].open = "final" \/ (to = "final" /\ The(q) = f)
<1> DEFINE j == job[q]
           k == Renamed(f, to)[q]
<1>1. j \in Job
  BY DEF BuildTypes
<1>2. k = IF j.open = "no" \/ The(q) # f THEN j
          ELSE IF j.open = "tmp" THEN [j EXCEPT !.open = to]
          ELSE IF to = "final" THEN [j EXCEPT !.open = "gone"] ELSE j
  BY DEF Renamed
<1>3. CASE k = j
  BY <1>1, <1>2, <1>3 DEF Alike, Job
<1>4. CASE j.open = "tmp" /\ The(q) = f /\ k = [j EXCEPT !.open = to]
  BY <1>1, <1>4 DEF Alike, Job
<1>5. CASE j.open # "no" /\ The(q) = f /\ to = "final" /\ k = [j EXCEPT !.open = "gone"]
  BY <1>1, <1>5 DEF Alike, Job
<1> QED
  BY <1>2, <1>3, <1>4, <1>5

\* The same file, seen from the same job.
LEMMA SameFile ==
    ASSUME NEW q \in Builders, Alike(job[q], job'[q])
    PROVE  The(q)' = The(q) /\ Tag(q)' = Tag(q)
BY DEF Alike, The, Tag

\* A builder that nobody has touched, whose file is as it was or more complete.
LEMMA OpenedKept ==
    ASSUME BuildTypes, NEW q \in Builders, Placed(q), Opened(q),
           Alike(job[q], job'[q]), Grows,
           job'[q].open = "tmp" => job[q].open = "tmp" /\ job'[q].last = job[q].last
             /\ tmp'[The(q)] = tmp[The(q)],
           job'[q].open = "final" => job[q].open = "final" \/ final'[The(q)] # None
    PROVE  Opened(q)'
<1>1. The(q)' = The(q)
  BY SameFile
<1>2. job'[q].step = job[q].step
  BY DEF Alike
<1>3. job[q].open # "no" => The(q) \in Files
  BY FileTyped DEF Placed, Resting
<1>4. job'[q].open = "tmp" =>
        /\ tmp'[The(q)] # None
        /\ ~job'[q].last => tmp'[The(q)].spoilt
        /\ job'[q].last /\ job'[q].step = "publish" => tmp'[The(q)].done
  BY <1>2 DEF Opened, Step
<1>5. job'[q].open = "final" => final'[The(q)] # None
  BY <1>3 DEF Opened, Grows
<1> QED
  BY <1>1, <1>4, <1>5 DEF Opened, Step

\* The ways to give up keep all that is known of the files.
LEMMA FailsInductive ==
    ASSUME BuildInv, NEW p \in Builders, Fails(p), faulty' \subseteq Builders
    PROVE  BuildInv'
<1> DEFINE f == The(p)
           R == Renamed(f, "gone")
<1>1. BuildTypes /\ Placed(p) /\ job[p] \in Job
  BY DEF BuildInv, Orderly, BuildTypes
<1>2. RemovesTmp(p) => f \in Files
  BY <1>1, FileTyped DEF RemovesTmp, Placed, Step, Resting
<1>3. /\ RemovesTmp(p) => /\ tmp' = [tmp EXCEPT ![f] = None]
                          /\ job' = [R EXCEPT ![p] = [Idle EXCEPT !.step = "failed"]]
      /\ ~RemovesTmp(p) => /\ tmp' = tmp
                           /\ job' = [job EXCEPT ![p] = [Idle EXCEPT !.step = "failed"]]
      /\ box' = Unboxed(p)
      /\ UNCHANGED <<final, keys, base, bases, custom, alone>>
  BY DEF Fails
<1>4. job'[p] = [Idle EXCEPT !.step = "failed"]
  <2>1. p \in DOMAIN R
    BY DEF Renamed
  <2> QED
    BY <1>1, <1>3, <2>1 DEF BuildTypes
<1>5. ASSUME NEW q \in Builders, q # p
      PROVE  /\ job'[q] \in Job /\ Alike(job[q], job'[q]) /\ job'[q].last = job[q].last
             /\ job'[q].open = "tmp" => job[q].open = "tmp" /\ tmp'[The(q)] = tmp[The(q)]
             /\ job'[q].open = "final" => job[q].open = "final"
  <2>1. CASE RemovesTmp(p)
    <3>1. job'[q] = R[q]
      BY <1>3, <1>5, <2>1 DEF Renamed
    <3>2. job'[q].open = "tmp" => job[q].open = "tmp" /\ The(q) # f
      BY <1>1, <3>1, RenamedIs
    <3>3. job[q].open = "tmp" /\ The(q) # f => tmp'[The(q)] = tmp[The(q)]
      <4>1. job[q].open = "tmp" => The(q) \in Files
        BY <1>1, FileTyped DEF BuildInv, Orderly, Placed, Resting
      <4> QED
        BY <1>1, <1>3, <2>1, <4>1 DEF BuildTypes, ImageTypeOK
    <3> QED
      BY <1>1, <3>1, <3>2, <3>3, RenamedIs
  <2>2. CASE ~RemovesTmp(p)
    <3>1. job'[q] = job[q] /\ tmp' = tmp
      BY <1>1, <1>3, <1>5, <2>2 DEF BuildTypes
    <3> QED
      BY <1>1, <3>1 DEF BuildTypes, Alike
  <2> QED
    BY <2>1, <2>2
<1>6. job' \in [Builders -> Job]
  <2>1. \A q \in Builders : job'[q] \in Job
    BY <1>4, <1>5, IdleTyped
  <2>2. job' = [q \in Builders |-> job'[q]]
    BY <1>1, <1>3 DEF Renamed, BuildTypes
  <2> QED
    BY <2>1, <2>2
<1>7. ImageTypeOK'
  <2>1. tmp' \in [Files -> File \cup {None}]
    BY <1>1, <1>2, <1>3 DEF BuildTypes, ImageTypeOK
  <2>2. box' \in [Tags -> Image \cup {None}]
    BY <1>1, <1>3 DEF BuildTypes, ImageTypeOK, Unboxed
  <2> QED
    BY <1>1, <1>3, <2>1, <2>2 DEF BuildTypes, ImageTypeOK
<1>8. Grows
  BY <1>3 DEF Grows
<1>9. ASSUME NEW q \in Builders PROVE Orderly(q)' /\ Opened(q)'
  <2>1. CASE q = p
    BY <1>4, <2>1 DEF Idle, Orderly, Opened, Placed, Chosen, Passed, Rootfs, Resting, LateSteps
  <2>2. CASE q # p
    BY <1>1, <1>5, <1>8, <2>2, OrderlyKept, OpenedKept DEF BuildInv, Orderly
  <2> QED
    BY <2>1, <2>2
<1>10. FinalIsWhole'
  BY <1>3 DEF BuildInv, FinalIsWhole
<1> QED
  BY <1>6, <1>7, <1>9, <1>10 DEF BuildInv, BuildTypes

-----------------------------------------------------------------------------
(* The steps of the builders *)

\* A step that changes the job of one builder and no file.
LEMMA OneMoves ==
    ASSUME BuildInv, NEW p \in Builders, NEW r \in Job,
           job' = [job EXCEPT ![p] = r], UNCHANGED <<final, tmp>>, ImageTypeOK',
           \/ r.open = "no" /\ Orderly(p)'
           \/ Alike(job[p], r) /\ r.last = job[p].last /\ r.open = job[p].open
    PROVE  BuildInv'
<1>1. BuildTypes /\ job[p] \in Job
  BY DEF BuildInv, BuildTypes
<1>2. job' \in [Builders -> Job] /\ job'[p] = r /\ \A q \in Builders : q # p => job'[q] = job[q]
  BY <1>1 DEF BuildTypes
<1>3. Grows
  BY DEF Grows
<1>4. ASSUME NEW q \in Builders PROVE Orderly(q)' /\ Opened(q)'
  <2>1. CASE q # p \/ (Alike(job[p], r) /\ r.last = job[p].last /\ r.open = job[p].open)
    <3>1. Alike(job[q], job'[q]) /\ job'[q].last = job[q].last /\ job'[q].open = job[q].open
      BY <1>2, <2>1 DEF Alike
    <3> QED
      BY <1>1, <1>3, <3>1, OrderlyKept, OpenedKept DEF BuildInv, Orderly
  <2>2. CASE q = p /\ r.open = "no" /\ Orderly(p)'
    BY <1>2, <2>2 DEF Opened
  <2> QED
    BY <2>1, <2>2
<1> QED
  BY <1>2, <1>4 DEF BuildInv, BuildTypes, FinalIsWhole

LEMMA StatInductive ==
    ASSUME BuildInv, NEW p \in Builders, Stat(p)
    PROVE  BuildInv'
<1> DEFINE n == job[p].n
           r == IF final[The(p)] # None
                  THEN [job[p] EXCEPT !.step = After(n), !.n = IF n > Len(Early) THEN n ELSE n + 1]
                  ELSE [job[p] EXCEPT !.step = IF n > Len(Early) THEN "base"
                                        ELSE IF n > Len(Downloads) THEN "read" ELSE "create"]
<1>1. BuildTypes /\ Orderly(p) /\ job[p] \in Job /\ ImageTypeOK
  BY DEF BuildInv, BuildTypes
<1>2. job[p].step = "stat" /\ n \in 1..Last /\ job[p].open = "no"
  BY <1>1 DEF Stat, Step, Orderly, Placed, Resting
<1>3. job' = [job EXCEPT ![p] = r] /\ UNCHANGED <<cache, engine, ghosts>>
  BY <1>1, <1>2 DEF Stat, To, BuildTypes
<1>4. /\ r \in Job /\ r.open = "no" /\ r.path = job[p].path
      /\ r.content = job[p].content /\ r.seen = job[p].seen /\ r.own = job[p].own
  <2>1. After(n) \in BuildSteps
    BY DEF After, BuildSteps
  <2>2. (IF n > Len(Early) THEN n ELSE n + 1) \in 0..Last
    BY <1>2, EarlyFiles DEF Last
  <2>3. CASE final[The(p)] # None
    <3> DEFINE k == [job[p] EXCEPT !.step = After(n), !.n = IF n > Len(Early) THEN n ELSE n + 1]
    <3>1. /\ k \in Job /\ k.open = job[p].open /\ k.path = job[p].path
          /\ k.content = job[p].content /\ k.seen = job[p].seen /\ k.own = job[p].own
      BY <1>1, <2>1, <2>2 DEF Job
    <3>2. r = k
      BY <2>3
    <3> QED
      BY <1>2, <3>1, <3>2
  <2>4. CASE final[The(p)] = None
    <3> DEFINE s == IF n > Len(Early) THEN "base"
                    ELSE IF n > Len(Downloads) THEN "read" ELSE "create"
               k == [job[p] EXCEPT !.step = s]
    <3>1. s \in BuildSteps
      BY DEF BuildSteps
    <3>2. /\ k \in Job /\ k.open = job[p].open /\ k.path = job[p].path
          /\ k.content = job[p].content /\ k.seen = job[p].seen /\ k.own = job[p].own
      BY <1>1, <3>1 DEF Job
    <3>3. r = k
      BY <2>4
    <3> QED
      BY <1>2, <3>2, <3>3
  <2> QED
    BY <2>3, <2>4
<1>5. Orderly(p)'
  <2>1. job'[p] = r
    BY <1>1, <1>3 DEF BuildTypes
  <2>2. final' = final /\ Len(Downloads) \in Nat /\ Len(Early) = Len(Downloads) + 1
    BY <1>3, ImageBuildAssumption DEF cache, Early
  <2>3. CASE final[The(p)] # None /\ n = Last
    <3>1. r.step = "done" /\ r.n = Last /\ The(p) = job[p].path
      BY <1>1, <1>2, <2>3, EarlyFiles, NextFile DEF Job, The, Last
    <3> QED
      BY <1>1, <1>2, <1>4, <2>1, <2>2, <2>3, <3>1
         DEF Orderly, Placed, Chosen, Passed, Rootfs, Resting, LateSteps
  <2>4. CASE final[The(p)] # None /\ n < Last
    <3>1. /\ r.step = (IF n = Len(Early) THEN "key" ELSE "stat") /\ r.n = n + 1
          /\ The(p) = Early[n] /\ n \in 1..Len(Early)
      BY <1>1, <1>2, <2>4, EarlyFiles, NextFile DEF Job, The, Last
    <3>2. Placed(p)'
      BY <1>4, <2>1, <3>1, EarlyFiles DEF Placed, Resting, LateSteps, Last
    <3>3. Chosen(p)'
      BY <1>4, <2>1, <3>1, EarlyFiles DEF Chosen, Rootfs, Last
    <3>4. Passed(p)'
      BY <1>1, <1>2, <2>1, <2>2, <2>4, <3>1, EarlyFiles DEF Orderly, Passed, Resting
    <3> QED
      BY <3>2, <3>3, <3>4 DEF Orderly
  <2>5. CASE final[The(p)] = None
    <3>1. r.n = n /\ r.step = (IF n = Last THEN "base"
                                 ELSE IF n = Len(Early) THEN "read" ELSE "create")
      BY <1>1, <1>2, <2>2, <2>5, EarlyFiles DEF Job, Last
    <3>2. Placed(p)'
      BY <1>2, <1>4, <2>1, <3>1, EarlyFiles DEF Placed, Resting, LateSteps, Last
    <3>3. Chosen(p)'
      BY <1>1, <1>2, <1>4, <2>1, <3>1, EarlyFiles DEF Orderly, Chosen, Rootfs, Last
    <3>4. Passed(p)'
      BY <1>1, <1>2, <2>1, <2>2, <3>1, EarlyFiles DEF Orderly, Passed, Resting
    <3> QED
      BY <3>2, <3>3, <3>4 DEF Orderly
  <2> QED
    BY <1>2, <2>3, <2>4, <2>5, EarlyFiles
<1>6. ImageTypeOK'
  BY <1>1, <1>3 DEF ImageTypeOK, cache, engine, ghosts
<1> QED
  BY <1>3, <1>4, <1>5, <1>6, OneMoves DEF cache

\* Steps that leave a builder at its file, or start or end its work.
LEMMA StepMoves ==
    ASSUME BuildInv, NEW p \in Builders, job[p].open = "no", NEW r \in Job,
           job' = [job EXCEPT ![p] = r], UNCHANGED <<final, tmp>>, ImageTypeOK',
           r.open = "no", Placed(p)', Chosen(p)',
           r.step = "done" => job[p].step = "done" /\ r.path = job[p].path,
           r.step \notin Resting => r.n = 1 \/ (r.n = job[p].n /\ job[p].step \notin Resting)
    PROVE  BuildInv'
<1>1. BuildTypes /\ Orderly(p)
  BY DEF BuildInv
<1>2. job'[p] = r
  BY <1>1 DEF BuildTypes
<1>3. Passed(p)'
  BY <1>1, <1>2, EarlyFiles DEF Orderly, Passed
<1> QED
  BY <1>3, OneMoves DEF Orderly

LEMMA ReadInductive ==
    ASSUME BuildInv, NEW p \in Builders, Read(p)
    PROVE  BuildInv'
<1> DEFINE r == [job[p] EXCEPT !.step = "create", !.spoilt = SpoiltInput(p)]
<1>1. BuildTypes /\ Placed(p) /\ Chosen(p) /\ job[p] \in Job /\ ImageTypeOK
  BY DEF BuildInv, BuildTypes, Orderly
<1>2. job[p].step = "read" /\ job[p].n = Len(Early) /\ job[p].open = "no"
  BY <1>1 DEF Read, Step, Placed
<1>3. job' = [job EXCEPT ![p] = r] /\ UNCHANGED <<cache, engine, ghosts>>
  BY <1>1, <1>2 DEF Read, BuildTypes
<1>4. SpoiltInput(p) \in BOOLEAN
  BY DEF SpoiltInput
<1>5. /\ r \in Job /\ r.open = "no" /\ r.step = "create" /\ r.n = job[p].n
      /\ job'[p] = r
  BY <1>1, <1>2, <1>3, <1>4 DEF BuildTypes, Job, BuildSteps
<1>6. Placed(p)' /\ Chosen(p)'
  BY <1>2, <1>5, EarlyFiles DEF Placed, Chosen, Rootfs, Resting, LateSteps, Last
<1>7. ImageTypeOK'
  BY <1>1, <1>3 DEF ImageTypeOK, cache, engine, ghosts
<1> QED
  BY <1>2, <1>3, <1>5, <1>6, <1>7, StepMoves DEF cache, Resting

\* The steps between the keys and the container.
LEMMA LateInductive ==
    ASSUME BuildInv, NEW p \in Builders, job[p].step \in LateSteps \ {"done"},
           NEW r \in Job, job' = [job EXCEPT ![p] = r], UNCHANGED <<final, tmp>>,
           ImageTypeOK', r.open = "no", r.n = Last, Chosen(p)',
           r.step \in (LateSteps \cup {"stat", "create"}) \ {"done"}
    PROVE  BuildInv'
<1>1. BuildTypes /\ Placed(p) /\ Passed(p) /\ job[p].open = "no" /\ job[p].n = Last
  BY DEF BuildInv, BuildTypes, Orderly, Placed, LateSteps
<1>2. job'[p] = r
  BY <1>1 DEF BuildTypes
<1>3. Placed(p)'
  BY <1>2, EarlyFiles DEF Placed, LateSteps, Last
<1>4. r.step # "done" /\ job[p].step \notin Resting
  BY DEF LateSteps, Resting
<1> QED
  BY <1>1, <1>3, <1>4, StepMoves

LEMMA LateFacts ==
    ASSUME BuildInv, NEW p \in Builders, job[p].step \in LateSteps
    PROVE  /\ BuildTypes /\ ImageTypeOK /\ job[p] \in Job
           /\ Placed(p) /\ Chosen(p) /\ job[p].n = Last /\ job[p].open = "no"
BY DEF BuildInv, BuildTypes, Orderly, Placed, LateSteps

LEMMA KeysInductive ==
    ASSUME BuildInv, NEW p \in Builders,
           \/ StatKey(p)
           \/ /\ Step(p, "keygen") /\ keys < job[p].key /\ keys' = job[p].key
              /\ job' = [job EXCEPT ![p].step = "key", ![p].key = 0]
              /\ UNCHANGED <<final, tmp, engine, ghosts>>
    PROVE  BuildInv'
<1>1. job[p].step \in {"key", "keygen"}
  BY DEF StatKey, Step
<1>2. /\ BuildTypes /\ ImageTypeOK /\ job[p] \in Job
      /\ Placed(p) /\ Chosen(p) /\ job[p].n = Last /\ job[p].open = "no"
  BY <1>1, LateFacts DEF LateSteps
<1>3. UNCHANGED <<final, tmp, engine, ghosts>> /\ keys' \in 0..KeyTypes
  BY <1>2 DEF StatKey, cache, ImageTypeOK, Job
<1>4. ImageTypeOK'
  BY <1>2, <1>3 DEF ImageTypeOK, engine, ghosts
<1>5. KeyTypes \in Nat /\ keys \in 0..KeyTypes
  BY <1>2, ImageBuildAssumption DEF ImageTypeOK
<1>6. PICK r \in Job : /\ job' = [job EXCEPT ![p] = r] /\ r.open = "no" /\ r.n = Last
                       /\ r.step \in {"key", "keygen", "cleanup"}
  <2>1. CASE StatKey(p) /\ keys = KeyTypes
    <3> DEFINE r == [job[p] EXCEPT !.step = "cleanup"]
    <3>1. r \in Job /\ r.open = "no" /\ r.n = Last /\ r.step = "cleanup"
      BY <1>2 DEF Job, BuildSteps
    <3>2. job' = [job EXCEPT ![p] = r]
      BY <1>2, <2>1 DEF StatKey, To, BuildTypes
    <3> QED
      BY <3>1, <3>2
  <2>2. CASE StatKey(p) /\ keys # KeyTypes
    <3> DEFINE r == [job[p] EXCEPT !.step = "keygen", !.key = keys + 1]
    <3>1. keys + 1 \in 0..KeyTypes
      BY <1>5, <2>2
    <3>2. r \in Job /\ r.open = "no" /\ r.n = Last /\ r.step = "keygen"
      BY <1>2, <3>1 DEF Job, BuildSteps
    <3>3. job' = [job EXCEPT ![p] = r]
      BY <1>2, <2>2 DEF StatKey, BuildTypes
    <3> QED
      BY <3>2, <3>3
  <2>3. CASE ~StatKey(p)
    <3> DEFINE r == [job[p] EXCEPT !.step = "key", !.key = 0]
    <3>1. 0 \in 0..KeyTypes
      BY <1>5
    <3>2. r \in Job /\ r.open = "no" /\ r.n = Last /\ r.step = "key"
      BY <1>2, <3>1 DEF Job, BuildSteps
    <3>3. job' = [job EXCEPT ![p] = r]
      BY <1>2, <2>3 DEF BuildTypes
    <3> QED
      BY <3>2, <3>3
  <2> QED
    BY <2>1, <2>2, <2>3
<1>7. job'[p] = r
  BY <1>2, <1>6 DEF BuildTypes
<1>8. Chosen(p)'
  BY <1>6, <1>7 DEF Chosen, Rootfs
<1> QED
  BY <1>1, <1>3, <1>4, <1>6, <1>8, LateInductive DEF LateSteps

LEMMA CleanupInductive ==
    ASSUME BuildInv, NEW p \in Builders, CleanupStaleContainers(p)
    PROVE  BuildInv'
<1> DEFINE r == [job[p] EXCEPT !.step = "inspect"]
<1>1. job[p].step = "cleanup"
  BY DEF CleanupStaleContainers, Step
<1>2. /\ BuildTypes /\ ImageTypeOK /\ job[p] \in Job /\ job[p].n = Last /\ job[p].open = "no"
  BY <1>1, LateFacts DEF LateSteps
<1>3. /\ job' = [job EXCEPT ![p] = r] /\ box' = [t \in Tags |-> None]
      /\ UNCHANGED <<cache, base, bases, custom, ghosts>>
  BY <1>2 DEF CleanupStaleContainers, To, BuildTypes
<1>4. ImageTypeOK'
  BY <1>2, <1>3 DEF ImageTypeOK, cache, ghosts
<1>5. r \in Job /\ r.open = "no" /\ r.n = Last /\ r.step = "inspect" /\ job'[p] = r
  BY <1>2, <1>3 DEF BuildTypes, Job, BuildSteps
<1>6. Chosen(p)'
  BY <1>5 DEF Chosen, Rootfs
<1> QED
  BY <1>1, <1>3, <1>4, <1>5, <1>6, LateInductive DEF LateSteps, cache

LEMMA InspectInductive ==
    ASSUME BuildInv, NEW p \in Builders, NEW c \in Contents \cup {None}, Inspect(p, c)
    PROVE  BuildInv'
<1> DEFINE r == [job[p] EXCEPT !.step = "stat", !.content = c, !.seen = base,
                               !.path = RootfsPath(c, base)]
<1>1. job[p].step = "inspect"
  BY DEF Inspect, Step
<1>2. /\ BuildTypes /\ ImageTypeOK /\ job[p] \in Job /\ job[p].n = Last /\ job[p].open = "no"
  BY <1>1, LateFacts DEF LateSteps
<1>3. job' = [job EXCEPT ![p] = r] /\ UNCHANGED <<cache, engine, ghosts>>
  BY <1>2 DEF Inspect, BuildTypes
<1>4. ImageTypeOK'
  BY <1>2, <1>3 DEF ImageTypeOK, cache, engine, ghosts
<1>5. base \in 0..MaxBase /\ RootfsPath(c, base) \in Tags
  BY <1>2, PathIsTag DEF ImageTypeOK
<1>6. /\ r \in Job /\ r.open = "no" /\ r.n = Last /\ r.step = "stat" /\ job'[p] = r
      /\ r.path = RootfsPath(r.content, r.seen)
  BY <1>2, <1>3, <1>5 DEF BuildTypes, Job, BuildSteps
<1>7. Chosen(p)'
  BY <1>6 DEF Chosen, Rootfs
<1> QED
  BY <1>1, <1>3, <1>4, <1>6, <1>7, LateInductive DEF LateSteps, cache

LEMMA BuildBaseInductive ==
    ASSUME BuildInv, NEW p \in Builders, BuildBase(p)
    PROVE  BuildInv'
<1>1. job[p].step = "base"
  BY DEF BuildBase, Step
<1>2. /\ BuildTypes /\ ImageTypeOK /\ job[p] \in Job /\ Chosen(p)
      /\ job[p].n = Last /\ job[p].open = "no"
  BY <1>1, LateFacts DEF LateSteps
<1>3. CASE job[p].seen # 0
  <2> DEFINE r == [job[p] EXCEPT !.step = "custom"]
  <2>1. job' = [job EXCEPT ![p] = r] /\ UNCHANGED <<cache, engine, ghosts>>
    BY <1>2, <1>3 DEF BuildBase, To, BuildTypes, engine
  <2>2. ImageTypeOK'
    BY <1>2, <2>1 DEF ImageTypeOK, cache, engine, ghosts
  <2>3. r \in Job /\ r.open = "no" /\ r.n = Last /\ r.step = "custom" /\ job'[p] = r
    BY <1>2, <2>1 DEF BuildTypes, Job, BuildSteps
  <2>4. Chosen(p)'
    BY <1>1, <1>2, <1>3, <2>3 DEF Chosen, Rootfs
  <2> QED
    BY <1>1, <2>1, <2>2, <2>3, <2>4, LateInductive DEF LateSteps, cache
<1>4. CASE job[p].seen = 0
  <2>1. PICK b \in ({base} \ {0}) \cup ({bases + 1} \cap Bases) :
          /\ base' = b /\ bases' = IF b > bases THEN b ELSE bases
          /\ job' = [job EXCEPT ![p].step = "custom", ![p].seen = b,
                                ![p].path = RootfsPath(job[p].content, b)]
    BY <1>4 DEF BuildBase
  <2> DEFINE r == [job[p] EXCEPT !.step = "custom", !.seen = b,
                                 !.path = RootfsPath(job[p].content, b)]
  <2>2. job' = [job EXCEPT ![p] = r] /\ UNCHANGED <<cache, custom, box, ghosts>>
    BY <1>2, <2>1 DEF BuildBase, BuildTypes
  <2>3. b \in 1..MaxBase /\ bases' \in b..MaxBase
    BY <1>2, <2>1, ImageBuildAssumption DEF ImageTypeOK, Bases
  <2>4. ImageTypeOK'
    BY <1>2, <2>1, <2>2, <2>3 DEF ImageTypeOK, cache, ghosts
  <2>5. job[p].content \in Contents \cup {None} /\ b \in 0..MaxBase
    BY <1>2, <2>3, ImageBuildAssumption DEF Job
  <2>6. RootfsPath(job[p].content, b) \in Tags
    BY <2>5, PathIsTag
  <2>7. r \in Job /\ r.open = "no" /\ r.n = Last /\ r.step = "custom"
    BY <1>2, <2>5, <2>6 DEF Job, BuildSteps
  <2>8. job'[p] = r /\ r.path = RootfsPath(r.content, r.seen) /\ r.seen # 0
    BY <1>2, <2>2, <2>3 DEF BuildTypes, Job
  <2>9. Chosen(p)'
    BY <2>7, <2>8 DEF Chosen, Rootfs
  <2> QED
    BY <1>1, <2>2, <2>4, <2>7, <2>9, LateInductive DEF LateSteps, cache
<1> QED
  BY <1>3, <1>4

LEMMA BuildCustomInductive ==
    ASSUME BuildInv, NEW p \in Builders, BuildCustom(p)
    PROVE  BuildInv'
<1> DEFINE r == [job[p] EXCEPT !.step = "box"]
<1>1. job[p].step = "custom"
  BY DEF BuildCustom, Step
<1>2. /\ BuildTypes /\ ImageTypeOK /\ job[p] \in Job /\ Chosen(p)
      /\ job[p].n = Last /\ job[p].open = "no"
  BY <1>1, LateFacts DEF LateSteps
<1>3. job' = [job EXCEPT ![p] = r] /\ UNCHANGED <<cache, base, bases, box, ghosts>>
  BY <1>2 DEF BuildCustom, To, BuildTypes
<1>4. custom' \in [Tags -> Image \cup {None}]
  <2>1. CASE custom' = custom
    BY <1>2, <2>1 DEF ImageTypeOK
  <2>2. CASE custom' = [custom EXCEPT ![Tag(p)] =
                          [content |-> job[p].content, base |-> base, alone |-> p \in alone]]
    <3>1. [content |-> job[p].content, base |-> base, alone |-> p \in alone] \in Image
      <4>1. job[p].content \in Contents \cup {None} /\ base \in 0..MaxBase
        BY <1>2 DEF ImageTypeOK, Job
      <4> QED
        BY <4>1 DEF Image
    <3> QED
      BY <1>2, <2>2, <3>1 DEF ImageTypeOK
  <2> QED
    BY <2>1, <2>2 DEF BuildCustom
<1>5. ImageTypeOK'
  BY <1>2, <1>3, <1>4 DEF ImageTypeOK, cache, ghosts
<1>6. r \in Job /\ r.open = "no" /\ r.n = Last /\ r.step = "box" /\ job'[p] = r
  BY <1>2, <1>3 DEF BuildTypes, Job, BuildSteps
<1>7. Chosen(p)'
  BY <1>1, <1>2, <1>6 DEF Chosen, Rootfs
<1> QED
  BY <1>1, <1>3, <1>5, <1>6, <1>7, LateInductive DEF LateSteps, cache

LEMMA BoxInductive ==
    ASSUME BuildInv, NEW p \in Builders, CreateBox(p)
    PROVE  BuildInv'
<1> DEFINE r == [job[p] EXCEPT !.step = "export", !.own = Tag(p)]
<1>1. job[p].step = "box"
  BY DEF CreateBox, Step
<1>2. /\ BuildTypes /\ ImageTypeOK /\ job[p] \in Job /\ Chosen(p)
      /\ job[p].n = Last /\ job[p].open = "no"
  BY <1>1, LateFacts DEF LateSteps
<1>3. job[p].seen # 0 /\ Tag(p) \in Tags
  BY <1>1, <1>2, TagTyped DEF Chosen, Rootfs
<1>4. /\ job' = [job EXCEPT ![p] = r] /\ box' = [box EXCEPT ![Tag(p)] = ImageOf(Tag(p))]
      /\ UNCHANGED <<cache, base, bases, custom, ghosts>>
  BY <1>2 DEF CreateBox, BuildTypes
<1>5. ImageOf(Tag(p)) \in Image \cup {None}
  <2>1. base # 0 => [content |-> None, base |-> base, alone |-> TRUE] \in Image
    BY <1>2 DEF ImageTypeOK, Image
  <2> QED
    BY <1>2, <1>3, <2>1 DEF ImageOf, ImageTypeOK
<1>6. ImageTypeOK'
  BY <1>2, <1>4, <1>5 DEF ImageTypeOK, cache, ghosts
<1>7. r \in Job /\ r.open = "no" /\ r.n = Last /\ r.step = "export"
  BY <1>2, <1>3 DEF Job, BuildSteps
<1>8. /\ job'[p] = r /\ r.path = job[p].path /\ r.content = job[p].content
      /\ r.seen = job[p].seen /\ r.own = Tag(p)
  BY <1>2, <1>4 DEF BuildTypes, Job
<1>9. Chosen(p)'
  BY <1>1, <1>2, <1>3, <1>7, <1>8 DEF Chosen, Rootfs, Tag
<1> QED
  BY <1>1, <1>4, <1>6, <1>7, <1>9, LateInductive DEF LateSteps, cache

LEMMA ExportInductive ==
    ASSUME BuildInv, NEW p \in Builders, Export(p)
    PROVE  BuildInv'
<1> DEFINE r == [job[p] EXCEPT !.step = "create", !.spoilt = SpoiltInput(p),
                               !.image = box[job[p].own]]
<1>1. job[p].step = "export"
  BY DEF Export, Step
<1>2. /\ BuildTypes /\ ImageTypeOK /\ job[p] \in Job /\ Chosen(p)
      /\ job[p].n = Last /\ job[p].open = "no"
  BY <1>1, LateFacts DEF LateSteps
<1>3. job[p].own \in Tags /\ SpoiltInput(p) \in BOOLEAN
  <2>1. job[p].seen # 0 /\ job[p].own = Tag(p)
    BY <1>1, <1>2 DEF Chosen, Rootfs
  <2> QED
    BY <1>2, <2>1, TagTyped DEF SpoiltInput
<1>4. job' = [job EXCEPT ![p] = r] /\ UNCHANGED <<cache, engine, ghosts>>
  BY <1>2 DEF Export, BuildTypes
<1>5. box[job[p].own] \in Image
  BY <1>2, <1>3 DEF Export, ImageTypeOK
<1>6. ImageTypeOK'
  BY <1>2, <1>4 DEF ImageTypeOK, cache, engine, ghosts
<1>7. r \in Job /\ r.open = "no" /\ r.n = Last /\ r.step = "create"
  BY <1>2, <1>3, <1>5 DEF Job, BuildSteps
<1>8. /\ job'[p] = r /\ r.path = job[p].path /\ r.content = job[p].content
      /\ r.seen = job[p].seen /\ r.own = job[p].own
  BY <1>2, <1>4 DEF BuildTypes, Job
<1>9. Chosen(p)'
  BY <1>1, <1>2, <1>7, <1>8 DEF Chosen, Rootfs, Tag
<1> QED
  BY <1>1, <1>4, <1>6, <1>7, <1>9, LateInductive DEF LateSteps, cache

-----------------------------------------------------------------------------
(* Starts and ends *)

LEMMA StartInductive ==
    ASSUME BuildInv, NEW p \in Builders, Start(p)
    PROVE  BuildInv'
<1> DEFINE r == [Idle EXCEPT !.step = "stat", !.n = 1]
<1>1. BuildTypes /\ ImageTypeOK /\ Placed(p)
  BY DEF BuildInv, BuildTypes, Orderly
<1>2. job[p].step = "idle" /\ job[p].open = "no"
  BY <1>1 DEF Start, Step, Placed
<1>3. job' = [job EXCEPT ![p] = r] /\ UNCHANGED <<cache, engine>>
  BY DEF Start
<1>4. ImageTypeOK'
  BY <1>1, <1>3 DEF Start, ImageTypeOK, cache, engine, Active
<1>5. r \in Job /\ r.step = "stat" /\ r.n = 1 /\ r.open = "no"
  <2>1. Idle.open = "no"
    BY DEF Idle
  <2>2. 1 \in 0..Last
    BY EarlyFiles DEF Last
  <2> QED
    BY <2>1, <2>2, IdleTyped DEF Job, BuildSteps
<1>6. job'[p] = r
  BY <1>1, <1>3 DEF BuildTypes
<1>7. Placed(p)' /\ Chosen(p)'
  BY <1>5, <1>6, EarlyFiles DEF Placed, Chosen, Rootfs, Resting, LateSteps, Last
<1> QED
  BY <1>2, <1>3, <1>4, <1>5, <1>7, StepMoves DEF cache

\* A builder is done, is killed, or its script ends: its files stay.
LEMMA LeavesInductive ==
    ASSUME BuildInv, NEW p \in Builders, job' = [job EXCEPT ![p] = Idle],
           UNCHANGED <<cache, engine>>, alone' \subseteq Builders, faulty' \subseteq Builders
    PROVE  BuildInv'
<1>1. BuildTypes /\ ImageTypeOK
  BY DEF BuildInv, BuildTypes
<1>2. ImageTypeOK'
  BY <1>1 DEF ImageTypeOK, cache, engine
<1>3. Idle.step = "idle" /\ Idle.n = 0 /\ Idle.open = "no"
  BY DEF Idle
<1>4. job'[p] = Idle
  BY <1>1 DEF BuildTypes
<1>5. Orderly(p)'
  BY <1>3, <1>4, EarlyFiles
     DEF Orderly, Placed, Chosen, Passed, Rootfs, Resting, LateSteps, Last
<1> QED
  BY <1>2, <1>3, <1>5, IdleTyped, OneMoves DEF cache

\* The process is killed and the script lives on.
LEMMA OrphanInductive ==
    ASSUME BuildInv, NEW p \in Builders, job' = [job EXCEPT ![p].dead = TRUE],
           UNCHANGED <<cache, engine, faulty>>, alone' \subseteq Builders
    PROVE  BuildInv'
<1> DEFINE r == [job[p] EXCEPT !.dead = TRUE]
<1>1. BuildTypes /\ ImageTypeOK /\ job[p] \in Job
  BY DEF BuildInv, BuildTypes
<1>2. ImageTypeOK'
  BY <1>1 DEF ImageTypeOK, cache, engine
<1>3. job' = [job EXCEPT ![p] = r]
  BY <1>1 DEF BuildTypes
<1>4. r \in Job /\ r.last = job[p].last /\ r.open = job[p].open
  BY <1>1 DEF Job
<1>5. Alike(job[p], r)
  BY <1>1 DEF Alike, Job
<1> QED
  BY <1>2, <1>3, <1>4, <1>5, OneMoves DEF cache

LEMMA PruneInductive ==
    ASSUME BuildInv, PruneImages
    PROVE  BuildInv'
<1>1. BuildTypes /\ UNCHANGED <<cache, bases, box, job, faulty>>
  BY DEF BuildInv, PruneImages
<1>2. base' = 0 /\ bases' \in 0..MaxBase /\ alone' = {}
  BY <1>1, ImageBuildAssumption DEF PruneImages, BuildTypes, ImageTypeOK
<1>3. custom' \in [Tags -> Image \cup {None}]
  BY <1>1 DEF PruneImages, BuildTypes, ImageTypeOK
<1>4. ImageTypeOK'
  BY <1>1, <1>2, <1>3, ImageBuildAssumption DEF BuildTypes, ImageTypeOK, cache
<1>5. Grows
  BY <1>1 DEF Grows, cache
<1>6. ASSUME NEW q \in Builders PROVE Orderly(q)' /\ Opened(q)'
  <2>1. /\ Alike(job[q], job'[q]) /\ job'[q] = job[q]
        /\ tmp' = tmp /\ Orderly(q) /\ Opened(q) /\ Placed(q)
    BY <1>1 DEF Alike, cache, BuildInv, Orderly
  <2> QED
    BY <1>1, <1>5, <2>1, OrderlyKept, OpenedKept
<1> QED
  BY <1>1, <1>4, <1>6 DEF BuildInv, BuildTypes, FinalIsWhole, cache

-----------------------------------------------------------------------------
(* The files *)

LEMMA CreateInductive ==
    ASSUME BuildInv, NEW p \in Builders, Create(p)
    PROVE  BuildInv'
<1> DEFINE f == The(p)
           lost == AtRootfs(p) /\ box[job[p].own] = None
           new == [done |-> FALSE, spoilt |-> Writers(f) # {} \/ lost \/ job[p].spoilt,
                   image |-> job[p].image]
           r == [job[p] EXCEPT !.step = "write", !.open = "tmp", !.last = TRUE]
<1>1. BuildTypes /\ ImageTypeOK /\ Placed(p) /\ Orderly(p) /\ job[p] \in Job
  BY DEF BuildInv, BuildTypes, Orderly
<1>2. job[p].step = "create" /\ job[p].open = "no" /\ job[p].n \in 1..Last /\ f \in Files
  <2>1. job[p].step = "create"
    BY DEF Create, Step
  <2>2. job[p].open = "no" /\ job[p].n \in 1..Last
    BY <1>1, <2>1 DEF Placed, Resting
  <2> QED
    BY <1>1, <2>1, <2>2, FileTyped
<1>3. /\ tmp' = [tmp EXCEPT ![f] = new]
      /\ job' = [q \in Builders |->
           IF q = p THEN r
           ELSE IF q \in Writers(f) THEN [job[q] EXCEPT !.last = FALSE] ELSE job[q]]
      /\ UNCHANGED <<final, keys, engine, ghosts>>
  BY DEF Create
<1>4. new \in File /\ new # None
  <2>1. job[p].image \in Image /\ job[p].spoilt \in BOOLEAN
    BY <1>1 DEF Job
  <2>2. (Writers(f) # {} \/ lost \/ job[p].spoilt) \in BOOLEAN
    OBVIOUS
  <2>3. new \in File
    BY <2>1, <2>2 DEF File
  <2> QED
    BY <2>3, NamesAssumption
<1>5. \A g \in Files : tmp'[g] = IF g = f THEN new ELSE tmp[g]
  BY <1>1, <1>3 DEF ImageTypeOK
<1>6. ImageTypeOK'
  <2>1. tmp' \in [Files -> File \cup {None}]
    BY <1>1, <1>3, <1>4 DEF ImageTypeOK
  <2> QED
    BY <1>1, <1>3, <2>1 DEF ImageTypeOK, engine, ghosts
<1>7. /\ r \in Job /\ job'[p] = r /\ r.step = "write" /\ r.n = job[p].n /\ r.open = "tmp"
      /\ r.last /\ r.path = job[p].path /\ r.content = job[p].content
      /\ r.seen = job[p].seen /\ r.own = job[p].own
  <2>1. r \in Job
    BY <1>1 DEF Job, BuildSteps
  <2> QED
    BY <1>1, <1>3, <2>1 DEF Job
<1>8. ASSUME NEW q \in Builders, q # p
      PROVE  /\ job'[q] \in Job /\ Alike(job[q], job'[q]) /\ job'[q].open = job[q].open
             /\ q \in Writers(f) => ~job'[q].last
             /\ q \notin Writers(f) => job'[q] = job[q]
  <2>1. CASE q \in Writers(f)
    <3>1. job[q] \in Job /\ job'[q] = [job[q] EXCEPT !.last = FALSE]
      BY <1>1, <1>3, <1>8, <2>1 DEF BuildTypes
    <3> QED
      BY <2>1, <3>1 DEF Alike, Job
  <2>2. CASE q \notin Writers(f)
    <3>1. job[q] \in Job /\ job'[q] = job[q]
      BY <1>1, <1>3, <1>8, <2>2 DEF BuildTypes
    <3> QED
      BY <2>2, <3>1 DEF Alike
  <2> QED
    BY <2>1, <2>2
<1>9. job' \in [Builders -> Job]
  <2>1. \A q \in Builders : job'[q] \in Job
    BY <1>7, <1>8
  <2>2. job' = [q \in Builders |-> job'[q]]
    BY <1>3
  <2> QED
    BY <2>1, <2>2
<1>10. Grows /\ final' = final
  BY <1>3 DEF Grows
<1>11. Orderly(p)' /\ Opened(p)'
  <2>1. The(p)' = f
    BY <1>7 DEF The
  <2>2. Opened(p)'
    BY <1>2, <1>4, <1>5, <1>7, <2>1 DEF Opened, Step
  <2>3. Placed(p)' /\ Chosen(p)' /\ Passed(p)'
    BY <1>1, <1>2, <1>7, <1>10, EarlyFiles
       DEF Orderly, Placed, Chosen, Passed, Rootfs, Resting, LateSteps, Last, Tag
  <2> QED
    BY <2>2, <2>3 DEF Orderly
<1>12. ASSUME NEW q \in Builders, q # p PROVE Orderly(q)' /\ Opened(q)'
  <2>1. Orderly(q) /\ Placed(q) /\ Opened(q)
    BY DEF BuildInv, Orderly
  <2>2. job[q].open # "no" => The(q) \in Files
    BY <1>1, <2>1, FileTyped DEF Placed, Resting
  <2>3. CASE q \in Writers(f)
    <3>1. job'[q].open = "tmp" /\ The(q)' = f /\ ~job'[q].last
      BY <1>8, <1>12, <2>3, SameFile DEF Writers
    <3>2. tmp'[f] = new /\ new.spoilt
      BY <1>2, <1>5, <2>3
    <3>3. Opened(q)'
      BY <1>4, <3>1, <3>2 DEF Opened, Step
    <3> QED
      BY <1>1, <1>8, <1>10, <1>12, <2>1, <3>3, OrderlyKept
  <2>4. CASE q \notin Writers(f)
    <3>1. job[q].open = "tmp" => tmp'[The(q)] = tmp[The(q)]
      BY <1>5, <2>2, <2>4 DEF Writers
    <3>2. job'[q] = job[q] /\ Alike(job[q], job'[q])
      BY <1>8, <1>12, <2>4
    <3> QED
      BY <1>1, <1>10, <2>1, <3>1, <3>2, OrderlyKept, OpenedKept
  <2> QED
    BY <2>3, <2>4
<1>13. FinalIsWhole'
  BY <1>10 DEF BuildInv, FinalIsWhole
<1> QED
  BY <1>6, <1>9, <1>11, <1>12, <1>13 DEF BuildInv, BuildTypes

LEMMA WriteInductive ==
    ASSUME BuildInv, NEW p \in Builders, Write(p)
    PROVE  BuildInv'
<1> DEFINE f == The(p)
           r == [job[p] EXCEPT !.step = "publish"]
<1>1. /\ BuildTypes /\ ImageTypeOK /\ Placed(p) /\ Chosen(p) /\ Passed(p) /\ Opened(p)
      /\ job[p] \in Job
  BY DEF BuildInv, BuildTypes, Orderly
<1>2. job[p].step = "write" /\ job[p].n \in 1..Last /\ job[p].open # "no" /\ f \in Files
  <2>1. job[p].step = "write"
    BY DEF Write, Step
  <2>2. job[p].n \in 1..Last /\ job[p].open # "no"
    BY <1>1, <2>1 DEF Placed, Resting
  <2> QED
    BY <1>1, <2>1, <2>2, FileTyped
<1>3. /\ job' = [job EXCEPT ![p] = r] /\ UNCHANGED <<keys, engine, ghosts>>
      /\ final' = IF job[p].open = "final" /\ job[p].last
                    THEN [final EXCEPT ![f] = [final[f] EXCEPT !.done = TRUE]] ELSE final
      /\ tmp' = IF job[p].open = "tmp" /\ job[p].last
                  THEN [tmp EXCEPT ![f] = [tmp[f] EXCEPT !.done = TRUE]] ELSE tmp
  BY <1>1 DEF Write, Written, To, BuildTypes, ImageTypeOK
<1>4. ASSUME NEW x \in File
      PROVE  /\ [x EXCEPT !.done = TRUE] \in File
             /\ [x EXCEPT !.done = TRUE].done /\ [x EXCEPT !.done = TRUE].spoilt = x.spoilt
  BY DEF File
<1>5. /\ job[p].open = "final" => final[f] \in File
      /\ job[p].open = "tmp" => tmp[f] \in File
  BY <1>1, <1>2 DEF Opened, ImageTypeOK
<1>6. ImageTypeOK'
  <2>1. final' \in [Files -> File \cup {None}]
    BY <1>1, <1>3, <1>4, <1>5 DEF ImageTypeOK
  <2>2. tmp' \in [Files -> File \cup {None}]
    BY <1>1, <1>3, <1>4, <1>5 DEF ImageTypeOK
  <2> QED
    BY <1>1, <1>3, <2>1, <2>2 DEF ImageTypeOK, engine, ghosts
<1>7. \A g \in Files : tmp[g] # None =>
        /\ tmp'[g] # None /\ tmp'[g].spoilt = tmp[g].spoilt /\ (tmp[g].done => tmp'[g].done)
  BY <1>1, <1>3, <1>4, <1>5, NamesAssumption DEF ImageTypeOK
<1>8. Grows /\ FinalIsWhole'
  BY <1>1, <1>3, <1>4, <1>5, NamesAssumption
     DEF ImageTypeOK, BuildInv, FinalIsWhole, Grows
<1>9. /\ r \in Job /\ job'[p] = r /\ r.step = "publish" /\ r.n = job[p].n
      /\ r.open = job[p].open /\ r.last = job[p].last /\ r.path = job[p].path
      /\ r.content = job[p].content /\ r.seen = job[p].seen /\ r.own = job[p].own
  <2>1. r \in Job
    BY <1>1 DEF Job, BuildSteps
  <2> QED
    BY <1>1, <1>3, <2>1 DEF BuildTypes, Job
<1>10. job' \in [Builders -> Job] /\ \A q \in Builders : q # p => job'[q] = job[q]
  BY <1>1, <1>3, <1>9 DEF BuildTypes
<1>11. Orderly(p)'
  <2>1. Placed(p)' /\ Chosen(p)'
    BY <1>1, <1>2, <1>9 DEF Placed, Chosen, Rootfs, Resting, LateSteps, Tag
  <2>2. Passed(p)'
    BY <1>1, <1>2, <1>8, <1>9, EarlyFiles DEF Passed, Resting, Grows
  <2> QED
    BY <2>1, <2>2 DEF Orderly
<1>12. Opened(p)'
  <2>1. The(p)' = f
    BY <1>9 DEF The
  <2>2. job[p].open = "tmp" /\ job[p].last => tmp'[f].done
    BY <1>1, <1>2, <1>3, <1>4, <1>5 DEF ImageTypeOK
  <2>3. job[p].open = "tmp" => tmp'[f] # None /\ (~job[p].last => tmp'[f].spoilt)
    BY <1>1, <1>2, <1>7 DEF Opened
  <2>4. job[p].open = "final" => final'[f] # None
    BY <1>1, <1>2, <1>8 DEF Opened, Grows
  <2> QED
    BY <1>9, <2>1, <2>2, <2>3, <2>4 DEF Opened
<1>13. ASSUME NEW q \in Builders, q # p PROVE Orderly(q)' /\ Opened(q)'
  <2>1. Orderly(q) /\ Placed(q) /\ Opened(q) /\ job'[q] = job[q] /\ Alike(job[q], job'[q])
    BY <1>10, <1>13 DEF BuildInv, Orderly, Alike
  <2>2. job[q].open # "no" => The(q) \in Files
    BY <1>1, <2>1, FileTyped DEF Placed, Resting
  <2>3. The(q)' = The(q)
    BY <2>1, SameFile
  <2>4. Opened(q)'
    BY <1>7, <1>8, <2>1, <2>2, <2>3 DEF Opened, Step, Grows
  <2> QED
    BY <1>1, <1>8, <2>1, <2>4, OrderlyKept
<1> QED
  BY <1>6, <1>8, <1>10, <1>11, <1>12, <1>13 DEF BuildInv, BuildTypes

\* What is published is complete, or known to be spoilt.
LEMMA PublishedIsWhole ==
    ASSUME BuildInv, NEW p \in Builders, Publish(p)
    PROVE  /\ The(p) \in Files /\ tmp[The(p)] \in File
           /\ \E x \in File : /\ final' = [final EXCEPT ![The(p)] = x]
                              /\ x.done \/ x.spoilt
                              /\ x.image = tmp[The(p)].image
<1> DEFINE f == The(p)
           bad == tmp[f].spoilt \/ job[p].open # "tmp" \/ Writers(f) # {p}
           x == [tmp[f] EXCEPT !.spoilt = bad]
<1>1. BuildTypes /\ ImageTypeOK /\ Placed(p) /\ Opened(p)
  BY DEF BuildInv, BuildTypes, Orderly
<1>2. job[p].step = "publish" /\ job[p].n \in 1..Last
  BY <1>1 DEF Publish, Step, Placed, Resting
<1>3. f \in Files /\ tmp[f] \in File
  BY <1>1, <1>2, FileTyped DEF Publish, ImageTypeOK
<1>4. final' = [final EXCEPT ![f] = x]
  BY DEF Publish
<1>5. bad \in BOOLEAN
  BY <1>3 DEF File
<1>6. x \in File /\ x.spoilt = bad /\ x.done = tmp[f].done /\ x.image = tmp[f].image
  BY <1>3, <1>5 DEF File
<1>7. tmp[f].done \/ bad
  BY <1>1, <1>2 DEF Opened, Step
<1> QED
  BY <1>3, <1>4, <1>6, <1>7

\* What a builder knows after it has published a file.
PublishedJob(p) ==
    [job[p] EXCEPT !.step = After(job[p].n),
                   !.n = IF AtRootfs(p) THEN job[p].n ELSE job[p].n + 1,
                   !.spoilt = FALSE, !.image = NoImage,
                   !.open = "no", !.last = FALSE, !.own = None]

LEMMA PublishedJobIs ==
    ASSUME BuildInv, NEW p \in Builders, Publish(p)
    PROVE  LET r == PublishedJob(p) IN
           /\ r \in Job /\ r.open = "no" /\ r.path = job[p].path
           /\ r.content = job[p].content /\ r.seen = job[p].seen /\ r.dead = job[p].dead
           /\ job[p].n = Last => r.step = "done" /\ r.n = Last
           /\ job[p].n < Last => /\ r.step \in {"stat", "key"} /\ r.n = job[p].n + 1
                                 /\ r.step = "key" <=> r.n = Last
<1>1. BuildTypes /\ Placed(p) /\ job[p] \in Job /\ NoImage \in Image
  BY IdleTyped DEF BuildInv, BuildTypes, Orderly, Idle, Job
<1>2. job[p].n \in 1..Last
  BY <1>1 DEF Publish, Step, Placed, Resting
<1> DEFINE s == After(job[p].n)
           n == IF AtRootfs(p) THEN job[p].n ELSE job[p].n + 1
           r == [job[p] EXCEPT !.step = s, !.n = n, !.spoilt = FALSE, !.image = NoImage,
                               !.open = "no", !.last = FALSE, !.own = None]
<1>3. /\ n \in 1..Last /\ s \in BuildSteps
      /\ job[p].n = Last => s = "done" /\ n = Last
      /\ job[p].n < Last => /\ s \in {"stat", "key"} /\ n = job[p].n + 1
                            /\ s = "key" <=> n = Last
  BY <1>2, EarlyFiles DEF After, AtRootfs, Last, BuildSteps
<1> HIDE DEF s, n
<1>4. /\ r \in Job /\ r.open = "no" /\ r.path = job[p].path /\ r.dead = job[p].dead
      /\ r.content = job[p].content /\ r.seen = job[p].seen /\ r.step = s /\ r.n = n
  <2>1. n \in 0..Last
    BY <1>3, EarlyFiles
  <2> QED
    BY <1>1, <1>3, <2>1 DEF Job
<1>5. PublishedJob(p) = r
  BY DEF PublishedJob, s, n
<1> QED
  BY <1>3, <1>4, <1>5

\* What the other builders know then: at most, what they have open is elsewhere.
LEMMA PublishLeaves ==
    ASSUME BuildInv, NEW p \in Builders, Publish(p), NEW q \in Builders
    PROVE  job'[q] = IF q = p THEN PublishedJob(p) ELSE Renamed(The(p), "final")[q]
<1> DEFINE R == Renamed(The(p), "final")
<1>1. job' = [R EXCEPT ![p] = PublishedJob(p)]
  BY DEF Publish, PublishedJob
<1>2. DOMAIN R = Builders
  BY DEF Renamed
<1> HIDE DEF R
<1>3. job' = [b \in DOMAIN R |-> IF b = p THEN PublishedJob(p) ELSE R[b]]
  BY <1>1
<1> QED
  BY <1>2, <1>3 DEF R

LEMMA PublishInductive ==
    ASSUME BuildInv, NEW p \in Builders, Publish(p)
    PROVE  BuildInv'
<1> DEFINE f == The(p)
           r == PublishedJob(p)
<1>1. /\ BuildTypes /\ ImageTypeOK /\ Placed(p) /\ Chosen(p) /\ Passed(p) /\ Opened(p)
      /\ job[p] \in Job
  BY DEF BuildInv, BuildTypes, Orderly
<1>2. job[p].step = "publish" /\ job[p].n \in 1..Last
  BY <1>1 DEF Publish, Step, Placed, Resting
<1>3. /\ tmp' = [tmp EXCEPT ![f] = None] /\ box' = Unboxed(p)
      /\ UNCHANGED <<keys, base, bases, custom, ghosts>>
  BY DEF Publish
<1>4. f \in Files
  BY PublishedIsWhole
<1>5. PICK x \in File : final' = [final EXCEPT ![f] = x] /\ (x.done \/ x.spoilt)
  BY PublishedIsWhole
<1>6. \A g \in Files : final'[g] = IF g = f THEN x ELSE final[g]
  BY <1>1, <1>5 DEF ImageTypeOK
<1>7. x # None
  BY NamesAssumption
<1>8. Grows /\ FinalIsWhole' /\ final'[f] # None
  BY <1>4, <1>5, <1>6, <1>7 DEF Grows, BuildInv, FinalIsWhole
<1>9. ImageTypeOK'
  <2>1. final' \in [Files -> File \cup {None}]
    BY <1>1, <1>5 DEF ImageTypeOK
  <2>2. tmp' \in [Files -> File \cup {None}]
    BY <1>1, <1>3 DEF ImageTypeOK
  <2>3. box' \in [Tags -> Image \cup {None}]
    BY <1>1, <1>3 DEF ImageTypeOK, Unboxed
  <2> QED
    BY <1>1, <1>3, <2>1, <2>2, <2>3 DEF ImageTypeOK, ghosts
<1>10. /\ job'[p] = r /\ r \in Job /\ r.open = "no" /\ r.path = job[p].path
       /\ r.content = job[p].content /\ r.seen = job[p].seen
       /\ job[p].n = Last => r.step = "done" /\ r.n = Last
       /\ job[p].n < Last => /\ r.step \in {"stat", "key"} /\ r.n = job[p].n + 1
                             /\ r.step = "key" <=> r.n = Last
  BY PublishedJobIs, PublishLeaves
<1> HIDE DEF r
<1>11. ASSUME NEW q \in Builders, q # p
       PROVE  /\ job'[q] \in Job /\ Alike(job[q], job'[q]) /\ job'[q].last = job[q].last
              /\ job'[q].open = "tmp" => job[q].open = "tmp" /\ The(q) # f
              /\ job'[q].open = "final" => job[q].open = "final" \/ The(q) = f
  BY <1>1, <1>11, PublishLeaves, RenamedIs
<1>12. job' \in [Builders -> Job]
  <2>1. \A q \in Builders : job'[q] \in Job
    BY <1>10, <1>11
  <2>2. job' = [q \in Builders |-> job'[q]]
    BY DEF Publish, Renamed
  <2> QED
    BY <2>1, <2>2
<1>13. Orderly(p)' /\ Opened(p)'
  <2>1. Opened(p)'
    BY <1>10 DEF Opened
  <2>2. CASE job[p].n = Last
    <3>1. f = job[p].path /\ Rootfs(p, {"publish"})
      BY <1>1, <1>2, <2>2, EarlyFiles DEF The, Last, Rootfs
    <3>2. Placed(p)' /\ Chosen(p)'
      BY <1>1, <1>2, <1>10, <2>2, EarlyFiles
         DEF Placed, Chosen, Rootfs, Resting, LateSteps, Last
    <3>3. Passed(p)'
      BY <1>1, <1>2, <1>8, <1>10, <2>2, <3>1, EarlyFiles DEF Passed, Resting, Grows
    <3> QED
      BY <2>1, <3>2, <3>3 DEF Orderly
  <2>3. CASE job[p].n < Last
    <3>1. f = Early[job[p].n] /\ job[p].n \in 1..Len(Early)
      BY <1>2, <2>3, EarlyFiles DEF The, Last
    <3>2. Placed(p)' /\ Chosen(p)'
      BY <1>2, <1>10, <2>3, EarlyFiles
         DEF Placed, Chosen, Rootfs, Resting, LateSteps, Last
    <3>3. Passed(p)'
      <4>1. \A i \in 1..Len(Early) : i < r.n => i < job[p].n \/ i = job[p].n
        BY <1>10, <2>3, <3>1, EarlyFiles
      <4>2. \A i \in 1..Len(Early) : i < r.n => final'[Early[i]] # None
        BY <1>1, <1>2, <1>8, <3>1, <4>1, EarlyFiles DEF Passed, Resting, Grows
      <4> QED
        BY <1>10, <2>3, <4>2 DEF Passed
    <3> QED
      BY <2>1, <3>2, <3>3 DEF Orderly
  <2> QED
    BY <1>2, <2>2, <2>3, EarlyFiles
<1>14. ASSUME NEW q \in Builders, q # p PROVE Orderly(q)' /\ Opened(q)'
  <2>1. Orderly(q) /\ Placed(q) /\ Opened(q)
    BY DEF BuildInv, Orderly
  <2>2. job[q].open # "no" => The(q) \in Files
    BY <1>1, <2>1, FileTyped DEF Placed, Resting
  <2>3. job'[q].open = "tmp" => tmp'[The(q)] = tmp[The(q)]
    BY <1>1, <1>3, <1>11, <1>14, <2>2 DEF ImageTypeOK
  <2> QED
    BY <1>1, <1>8, <1>11, <1>14, <2>1, <2>3, OrderlyKept, OpenedKept
<1> QED
  BY <1>8, <1>9, <1>12, <1>13, <1>14 DEF BuildInv, BuildTypes

-----------------------------------------------------------------------------
(* The invariant *)

LEMMA BuildStart == ImageInit => BuildInv
<1> SUFFICES ASSUME ImageInit PROVE BuildInv
  OBVIOUS
<1>1. ImageTypeOK
  BY ImageBuildAssumption DEF ImageInit, ImageTypeOK
<1>2. \A q \in Builders : job[q] = Idle
  BY DEF ImageInit
<1>3. job \in [Builders -> Job]
  BY IdleTyped DEF ImageInit
<1>4. \A q \in Builders : Orderly(q) /\ Opened(q)
  BY <1>2, EarlyFiles DEF Idle, Orderly, Placed, Chosen, Passed, Opened, Rootfs, Resting,
     LateSteps, Last
<1>5. FinalIsWhole
  BY DEF ImageInit, FinalIsWhole
<1> QED
  BY <1>1, <1>3, <1>4, <1>5 DEF BuildInv, BuildTypes

\* The steps by which a build gives up.
GivesUp(p) ==
    \/ WriteFails(p) \/ PublishFails(p) \/ BuildFails(p) \/ Fault(p)
    \/ Keygen(p) /\ ~(keys < job[p].key)

LEMMA GivesUpFails ==
    ASSUME BuildTypes, NEW p \in Builders, GivesUp(p)
    PROVE  Fails(p) /\ faulty' \in {faulty, faulty \cup {p}} /\ faulty' \subseteq Builders
<1>1. faulty \subseteq Builders
  BY DEF BuildTypes, ImageTypeOK
<1>2. Fails(p) /\ faulty' \in {faulty, faulty \cup {p}}
  BY DEF GivesUp, WriteFails, PublishFails, BuildFails, Fault, Keygen
<1> QED
  BY <1>1, <1>2

\* A builder that has no job any more.
Leaves(p) == job' = [job EXCEPT ![p] = Idle] /\ UNCHANGED <<cache, engine>>

\* The steps of a builder, sorted by what they touch.
LEMMA BuildCases ==
    ASSUME BuildTypes, NEW p \in Builders, Build(p)
    PROVE  \/ Stat(p) \/ Read(p) \/ Create(p) \/ Write(p) \/ Publish(p) \/ StatKey(p)
           \/ Keygen(p) /\ Step(p, "keygen") /\ keys < job[p].key /\ keys' = job[p].key
              /\ job' = [job EXCEPT ![p].step = "key", ![p].key = 0]
              /\ UNCHANGED <<final, tmp, engine, ghosts>>
           \/ CleanupStaleContainers(p) \/ BuildBase(p) \/ BuildCustom(p)
           \/ CreateBox(p) \/ Export(p) \/ GivesUp(p)
           \/ (Return(p) \/ Die(p) \/ ScriptEnds(p)) /\ Leaves(p)
           \/ Die(p) /\ job' = [job EXCEPT ![p].dead = TRUE] /\ UNCHANGED <<cache, engine, faulty>>
           \/ \E c \in Contents \cup {None} : Inspect(p, c)
<1>1. CASE Keygen(p)
  BY <1>1 DEF Keygen, GivesUp, ghosts
<1>2. CASE Die(p)
  BY <1>2 DEF Die, Leaves
<1>3. CASE Return(p) \/ ScriptEnds(p)
  BY <1>3 DEF Return, ScriptEnds, Leaves
<1> QED
  BY <1>1, <1>2, <1>3 DEF Build, GivesUp

LEMMA ActsInductive ==
    ASSUME BuildInv, NEW p \in Builders, Build(p)
    PROVE  BuildInv'
<1>1. BuildTypes /\ alone \subseteq Builders /\ faulty \subseteq Builders
  BY DEF BuildInv, BuildTypes, ImageTypeOK
<1>2. CASE Stat(p) \/ Read(p) \/ Create(p) \/ Write(p) \/ Publish(p)
  BY <1>2, StatInductive, ReadInductive, CreateInductive, WriteInductive,
     PublishInductive
<1>3. CASE StatKey(p)
  BY <1>3, KeysInductive
<1>4. CASE /\ Step(p, "keygen") /\ keys < job[p].key /\ keys' = job[p].key
           /\ job' = [job EXCEPT ![p].step = "key", ![p].key = 0]
           /\ UNCHANGED <<final, tmp, engine, ghosts>>
  BY <1>4, KeysInductive
<1>5. CASE CleanupStaleContainers(p) \/ BuildBase(p) \/ BuildCustom(p)
           \/ CreateBox(p) \/ Export(p)
  BY <1>5, CleanupInductive, BuildBaseInductive, BuildCustomInductive, BoxInductive,
     ExportInductive
<1>6. CASE GivesUp(p)
  BY <1>1, <1>6, GivesUpFails, FailsInductive
<1>7. CASE (Return(p) \/ Die(p) \/ ScriptEnds(p)) /\ Leaves(p)
  <2>1. alone' \subseteq Builders /\ faulty' \subseteq Builders
    BY <1>1, <1>7 DEF Return, Die, ScriptEnds, ghosts
  <2> QED
    BY <1>7, <2>1, LeavesInductive DEF Leaves
<1>8. CASE /\ Die(p) /\ job' = [job EXCEPT ![p].dead = TRUE]
           /\ UNCHANGED <<cache, engine, faulty>>
  <2>1. alone' \subseteq Builders
    BY <1>1, <1>8 DEF Die
  <2> QED
    BY <1>8, <2>1, OrphanInductive
<1>9. CASE \E c \in Contents \cup {None} : Inspect(p, c)
  BY <1>9, InspectInductive
<1> QED
  BY <1>1, <1>2, <1>3, <1>4, <1>5, <1>6, <1>7, <1>8, <1>9, BuildCases

LEMMA BuildInductive == BuildInv /\ [ImageNext]_imageVars => BuildInv'
<1> SUFFICES ASSUME BuildInv, [ImageNext]_imageVars PROVE BuildInv'
  OBVIOUS
<1>1. BuildTypes /\ alone \subseteq Builders /\ faulty \subseteq Builders
  BY DEF BuildInv, BuildTypes, ImageTypeOK
<1>2. ASSUME NEW p \in Builders, Start(p) PROVE BuildInv'
  BY <1>2, StartInductive
<1>3. CASE PruneImages
  BY <1>3, PruneInductive
<1>4. ASSUME NEW p \in Builders, Build(p) PROVE BuildInv'
  BY <1>4, ActsInductive
<1>5. CASE UNCHANGED imageVars
  <2>1. UNCHANGED <<final, tmp, keys, base, bases, custom, box, job, alone, faulty>>
    BY <1>5 DEF imageVars, cache, engine, ghosts
  <2>2. Grows
    BY <2>1 DEF Grows
  <2>3. ASSUME NEW q \in Builders PROVE Orderly(q)' /\ Opened(q)'
    <3>1. Orderly(q) /\ Placed(q) /\ Opened(q) /\ Alike(job[q], job'[q])
      BY <2>1 DEF BuildInv, Orderly, Alike
    <3> QED
      BY <1>1, <2>1, <2>2, <3>1, OrderlyKept, OpenedKept
  <2> QED
    BY <2>1, <2>3 DEF BuildInv, BuildTypes, ImageTypeOK, FinalIsWhole
<1> QED
  BY <1>2, <1>3, <1>4, <1>5 DEF ImageNext

LEMMA BuildInvariant == ImageSpec => []BuildInv
BY BuildStart, BuildInductive, PTL DEF ImageSpec

\* Whatever builders do beside one another and wherever they are killed, the
\* variables have their types: a rename never moves what is not a file, and an
\* export never reads what is not an image.
THEOREM ImagesTypeCorrect == ImageSpec => []ImageTypeOK
<1>1. BuildInv => ImageTypeOK
  BY DEF BuildInv, BuildTypes
<1> QED
  BY <1>1, BuildInvariant, PTL

\* A file under its final name has been written to its end, or it is one that
\* two builders had at the same time: a build that is killed or fails at any
\* step leaves nothing unfinished under the name the next one takes.
THEOREM PublishedFilesAreWhole == ImageSpec => []FinalIsWhole
<1>1. BuildInv => FinalIsWhole
  BY DEF BuildInv
<1> QED
  BY <1>1, BuildInvariant, PTL

-----------------------------------------------------------------------------
(* Builders that run alone *)

\* What a builder beside which nothing has run finds as it has left it.
Undisturbed(p) ==
    /\ job[p].step \in {"write", "publish"} => job[p].open = "tmp"
    /\ job[p].step = "keygen" => keys < job[p].key
    /\ Rootfs(p, {"inspect", "stat", "base", "custom", "box"}) => \A t \in Tags : box[t] = None
    /\ Rootfs(p, {"stat", "base", "custom", "box"}) => base = job[p].seen
    /\ job[p].step = "box" /\ Tag(p) # Plain => custom[Tag(p)] # None
    /\ Rootfs(p, {"export", "create"}) => box[job[p].own] # None

\* A downloaded file that is spoilt, and that nobody makes any more.
Settled(f) ==
    /\ f \in Files \cap {Orig, Modloop}
    /\ final[f] # None /\ final[f].spoilt
    /\ \A q \in Active : job[q].n < Last /\ The(q) = f => job[q].step = "stat"

Excused(p) == p \in faulty \/ \E f \in Files : Settled(f)

AloneInv ==
    \A p \in alone : /\ job[p].step # "idle"
                     /\ p \in Active => Active = {p} /\ Undisturbed(p)
                     /\ job[p].step = "failed" => Excused(p)

\* A script whose builder was killed is at the root file system.
DeadInv ==
    \A p \in Builders : job[p].dead =>
        p \notin alone /\ job[p].step \in {"create", "write", "publish"} /\ job[p].n = Last

\* The others keep their jobs, but for what they have open.
LEMMA OthersAlike ==
    ASSUME BuildInv, NEW p \in Builders, Build(p) \/ Start(p), NEW q \in Builders, q # p
    PROVE  Alike(job[q], job'[q]) /\ job'[q].dead = job[q].dead
<1>1. BuildTypes /\ job[q] \in Job
  BY DEF BuildInv, BuildTypes
<1>2. CASE job'[q] = job[q]
  BY <1>2 DEF Alike
<1>3. CASE Create(p)
  <2>1. job'[q] = job[q] \/ job'[q] = [job[q] EXCEPT !.last = FALSE]
    BY <1>3 DEF Create
  <2> QED
    BY <1>1, <1>2, <2>1 DEF Alike, Job
<1>4. CASE Publish(p)
  BY <1>1, <1>4, PublishLeaves, RenamedIs
<1>5. CASE Fails(p)
  <2>1. job'[q] = job[q] \/ job'[q] = Renamed(The(p), "gone")[q]
    BY <1>1, <1>5 DEF Fails, BuildTypes, Renamed
  <2> QED
    BY <1>1, <1>2, <2>1, RenamedIs
<1>6. CASE Start(p)
  BY <1>1, <1>2, <1>6 DEF Start, BuildTypes
<1>7. CASE Stat(p) \/ Read(p) \/ Write(p) \/ StatKey(p)
  BY <1>1, <1>2, <1>7 DEF Stat, Read, Write, StatKey, To, BuildTypes
<1>8. CASE job' = [job EXCEPT ![p].step = "key", ![p].key = 0]
  BY <1>1, <1>2, <1>8 DEF BuildTypes
<1>9. CASE CleanupStaleContainers(p) \/ BuildCustom(p) \/ CreateBox(p) \/ Export(p)
  BY <1>1, <1>2, <1>9 DEF CleanupStaleContainers, BuildCustom, CreateBox, Export, To, BuildTypes
<1>10. CASE BuildBase(p)
  BY <1>1, <1>2, <1>10 DEF BuildBase, To, BuildTypes
<1>11. CASE Leaves(p) \/ job' = [job EXCEPT ![p].dead = TRUE]
  BY <1>1, <1>2, <1>11 DEF Leaves, BuildTypes
<1>12. CASE \E c \in Contents \cup {None} : Inspect(p, c)
  BY <1>1, <1>2, <1>12 DEF Inspect, BuildTypes
<1> QED
  BY <1>1, <1>3, <1>4, <1>5, <1>6, <1>7, <1>8, <1>9, <1>10, <1>11, <1>12, BuildCases,
     GivesUpFails

LEMMA FailedJob ==
    ASSUME BuildTypes, NEW p \in Builders, Fails(p)
    PROVE  job'[p] = [Idle EXCEPT !.step = "failed"] /\ final' = final
<1>1. p \in DOMAIN Renamed(The(p), "gone")
  BY DEF Renamed
<1> QED
  BY <1>1 DEF Fails, BuildTypes

LEMMA IdleSteps ==
    /\ Idle.step = "idle" /\ Idle.n = 0 /\ ~Idle.dead
    /\ [Idle EXCEPT !.step = "failed"].step = "failed"
    /\ [Idle EXCEPT !.step = "failed"].n = 0 /\ ~[Idle EXCEPT !.step = "failed"].dead
BY DEF Idle

\* A builder is past looking for a file only if it was, or has found none.
LEMMA StaysAtFile ==
    ASSUME BuildInv, NEW p \in Builders, Build(p) \/ Start(p),
           p \in Active', job'[p].n < Last, job'[p].step # "stat"
    PROVE  /\ p \in Active /\ job'[p].n = job[p].n /\ The(p)' = The(p)
           /\ job[p].step = "stat" => final[The(p)] = None
<1>1. BuildTypes /\ Placed(p) /\ job[p] \in Job /\ Last \in Nat
  BY EarlyFiles DEF BuildInv, BuildTypes, Orderly
<1>2. Placed(p)'
  <2>1. BuildInv'
    BY ActsInductive, StartInductive
  <2> QED
    BY <2>1 DEF BuildInv, Orderly
<1>3. job'[p].step \notin {"idle", "done", "failed"} /\ job'[p].step \notin LateSteps
  BY <1>1, <1>2 DEF Active, Placed
<1>4. CASE Stat(p)
  <2>1. job[p].step = "stat" /\ job[p].n \in 1..Last
    BY <1>1, <1>4 DEF Stat, Step, Placed, Resting
  <2>2. CASE final[The(p)] # None
    <3>1. job'[p].step = After(job[p].n)
      BY <1>1, <1>4, <2>2 DEF Stat, BuildTypes, Job
    <3>2. After(job[p].n) \in {"done", "key", "stat"}
      BY DEF After
    <3> QED
      BY <1>3, <3>1, <3>2 DEF LateSteps
  <2>3. CASE final[The(p)] = None
    <3>1. job'[p].n = job[p].n /\ job'[p].path = job[p].path
      BY <1>1, <1>4, <2>3 DEF Stat, To, BuildTypes, Job
    <3> QED
      BY <2>1, <2>3, <3>1 DEF Active, The
  <2> QED
    BY <2>2, <2>3
<1>5. CASE Read(p) \/ Create(p) \/ Write(p)
  <2>1. job[p].step \in {"read", "create", "write"}
    BY <1>5 DEF Read, Create, Write, Step
  <2>2. job'[p].n = job[p].n /\ job'[p].path = job[p].path
    <3>1. CASE Read(p)
      BY <1>1, <3>1 DEF Read, BuildTypes, Job
    <3>2. CASE Create(p)
      BY <1>1, <3>2 DEF Create, Job
    <3>3. CASE Write(p)
      BY <1>1, <3>3 DEF Write, To, BuildTypes, Job
    <3> QED
      BY <1>5, <3>1, <3>2, <3>3
  <2> QED
    BY <2>1, <2>2 DEF Active, The
<1>6. CASE Publish(p)
  <2>1. job'[p] = PublishedJob(p) /\ job[p].n \in 1..Last
    <3>1. job[p].step = "publish"
      BY <1>6 DEF Publish, Step
    <3> QED
      BY <1>1, <1>6, <3>1, PublishLeaves DEF Placed, Resting
  <2>2. PublishedJob(p).step \in {"stat", "key", "done"}
    BY <1>6, <2>1, EarlyFiles, PublishedJobIs
  <2> QED
    BY <1>3, <2>1, <2>2 DEF LateSteps
<1>7. CASE Start(p)
  <2>1. job'[p].step = "stat"
    BY <1>1, <1>7 DEF Start, BuildTypes, Idle
  <2> QED
    BY <2>1
<1>8. CASE GivesUp(p) \/ Leaves(p)
  <2>1. job'[p].step \in {"failed", "idle"}
    BY <1>1, <1>8, GivesUpFails, FailedJob, IdleSteps DEF Leaves, BuildTypes
  <2> QED
    BY <1>3, <2>1
<1>9. CASE Die(p) /\ job' = [job EXCEPT ![p].dead = TRUE]
  <2>1. /\ job'[p].n = job[p].n /\ job'[p].path = job[p].path
        /\ job[p].step \in {"create", "write"} \/ job'[p] = Idle
    BY <1>1, <1>9 DEF Die, BuildTypes, Job
  <2>2. p \in Active
    BY <1>9 DEF Die
  <2>3. job[p].step # "stat"
    BY <1>3, <2>1, IdleSteps, <1>1, <1>9 DEF Die, BuildTypes, Job, LateSteps
  <2> QED
    BY <2>1, <2>2, <2>3 DEF The
<1>10. CASE job[p].step \in LateSteps \ {"done"}
  <2>1. job[p].n = Last
    BY <1>1, <1>10 DEF Placed
  <2>2. CASE StatKey(p) \/ CleanupStaleContainers(p) \/ BuildCustom(p) \/ CreateBox(p) \/ Export(p)
    BY <1>1, <2>1, <2>2
       DEF StatKey, CleanupStaleContainers, BuildCustom, CreateBox, Export, To, BuildTypes, Job
  <2>3. CASE job' = [job EXCEPT ![p].step = "key", ![p].key = 0]
    BY <1>1, <2>1, <2>3 DEF BuildTypes, Job
  <2>4. CASE BuildBase(p)
    <3>1. PICK b, path :
            \/ job' = [job EXCEPT ![p].step = "custom"]
            \/ job' = [job EXCEPT ![p].step = "custom", ![p].seen = b, ![p].path = path]
      BY <2>4 DEF BuildBase, To
    <3> QED
      BY <1>1, <2>1, <3>1 DEF BuildTypes, Job
  <2>5. CASE \E c \in Contents \cup {None} : Inspect(p, c)
    BY <1>1, <2>1, <2>5 DEF Inspect, BuildTypes, Job
  <2> QED
    BY <1>1, <1>4, <1>5, <1>6, <1>7, <1>8, <1>9, <2>2, <2>3, <2>4, <2>5, BuildCases
<1>11. CASE StatKey(p) \/ CleanupStaleContainers(p) \/ BuildCustom(p) \/ CreateBox(p)
            \/ Export(p) \/ BuildBase(p) \/ Step(p, "keygen")
            \/ \E c \in Contents \cup {None} : Inspect(p, c)
  <2>1. job[p].step \in LateSteps \ {"done"}
    BY <1>11 DEF StatKey, CleanupStaleContainers, BuildCustom, CreateBox, Export, BuildBase,
       Inspect, Step, LateSteps
  <2> QED
    BY <1>10, <2>1
<1> QED
  BY <1>1, <1>4, <1>5, <1>6, <1>7, <1>8, <1>9, <1>11, BuildCases

\* A spoilt download stays, and nobody makes it again.
LEMMA SettledStays ==
    ASSUME BuildInv, NEW p \in Builders, Build(p) \/ Start(p), NEW f, Settled(f)
    PROVE  Settled(f)'
<1>1. BuildTypes /\ Placed(p) /\ job[p] \in Job /\ f \in Files
  BY DEF BuildInv, BuildTypes, Orderly, Settled
<1>2. f \notin Tags
  BY NamesAssumption DEF Settled
<1>3. final'[f] = final[f]
  <2>1. CASE Write(p) \/ Publish(p)
    <3>1. job[p].step \in {"write", "publish"} /\ job[p].n \in 1..Last /\ p \in Active
      BY <1>1, <2>1 DEF Write, Publish, Step, Placed, Resting, Active
    <3>2. The(p) # f
      <4>1. job[p].n = Last => The(p) \in Tags
        BY <1>1, EarlyFiles DEF The, Last, Job
      <4> QED
        BY <1>2, <3>1, <4>1, EarlyFiles DEF Settled
    <3>3. CASE Write(p)
      BY <1>1, <3>2, <3>3 DEF Write, Written, BuildTypes, ImageTypeOK
    <3>4. CASE Publish(p)
      BY <1>1, <3>2, <3>4 DEF Publish, BuildTypes, ImageTypeOK
    <3> QED
      BY <2>1, <3>3, <3>4
  <2>2. CASE ~Write(p) /\ ~Publish(p)
    <3>1. final' = final
      BY <1>1, <2>2, BuildCases, GivesUpFails, FailedJob
         DEF Stat, Read, Create, StatKey, CleanupStaleContainers, BuildBase, BuildCustom,
             CreateBox, Export, Leaves, Inspect, Start, cache
    <3> QED
      BY <3>1
  <2> QED
    BY <2>1, <2>2
<1>4. ASSUME NEW q \in Active', job'[q].n < Last, The(q)' = f, job'[q].step # "stat"
      PROVE  FALSE
  <2>1. q \in Builders
    BY <1>4 DEF Active
  <2>2. CASE q = p
    BY <1>4, <2>1, <2>2, StaysAtFile DEF Settled
  <2>3. CASE q # p
    <3>1. Alike(job[q], job'[q])
      BY <2>1, <2>3, OthersAlike
    <3>2. q \in Active /\ job[q].n < Last /\ The(q) = f /\ job[q].step # "stat"
      BY <1>4, <2>1, <3>1, SameFile DEF Active, Alike
    <3> QED
      BY <3>2 DEF Settled
  <2> QED
    BY <2>2, <2>3
<1> QED
  BY <1>3, <1>4 DEF Settled

LEMMA ExcusedStays ==
    ASSUME BuildInv, NEW p \in Builders, Build(p) \/ Start(p), NEW q \in Builders, q # p,
           Excused(q)
    PROVE  Excused(q)'
<1>1. CASE q \in faulty
  <2>1. q \in faulty'
    BY <1>1, BuildCases, GivesUpFails
       DEF BuildInv, Stat, Read, Create, Write, Publish, StatKey, CleanupStaleContainers,
           BuildBase, BuildCustom, CreateBox, Export, Return, Die, ScriptEnds, Inspect,
           Start, ghosts
  <2> QED
    BY <2>1 DEF Excused
<1>2. ASSUME NEW f \in Files, Settled(f) PROVE Excused(q)'
  BY <1>2, SettledStays DEF Excused
<1> QED
  BY <1>1, <1>2 DEF Excused

\* What the next state owes to a builder that runs alone.
Proceeds(p) ==
    job'[p].step # "idle" /\ Undisturbed(p)' /\ job'[p].step # "failed"

LEMMA FilesProceed ==
    ASSUME BuildInv, NEW p \in Builders, Undisturbed(p),
           Stat(p) \/ Read(p) \/ Create(p) \/ Write(p) \/ Publish(p)
    PROVE  Proceeds(p)
<1>1. /\ BuildTypes /\ Placed(p) /\ Chosen(p) /\ job[p] \in Job
      /\ Last = Len(Early) + 1 /\ Len(Early) \in Nat \ {0}
  BY EarlyFiles DEF BuildInv, BuildTypes, Orderly, Last
<1> USE DEF Proceeds
<1>2. CASE Stat(p)
  <2>1. job[p].step = "stat" /\ job[p].n \in 1..Last /\ UNCHANGED <<cache, engine, ghosts>>
    BY <1>1, <1>2 DEF Stat, Step, Placed, Resting
  <2>2. CASE final[The(p)] # None
    <3>1. job'[p].step = After(job[p].n)
          /\ job'[p].n = IF job[p].n > Len(Early) THEN job[p].n ELSE job[p].n + 1
      BY <1>1, <1>2, <2>2 DEF Stat, BuildTypes, Job
    <3>2. job'[p].step \in {"done", "key", "stat"} /\ (job'[p].step = "stat" => job'[p].n < Last)
      BY <1>1, <2>1, <3>1 DEF After
    <3> QED
      BY <1>1, <3>2, EarlyFiles DEF Undisturbed, Rootfs
  <2>3. CASE final[The(p)] = None
    <3>1. /\ job'[p].step \in {"base", "read", "create"}
          /\ job'[p].step = "create" => job[p].n < Last
          /\ job'[p].step = "base" => job[p].n = Last
          /\ job'[p].n = job[p].n /\ job'[p].seen = job[p].seen
      <4>1. /\ job'[p].step = IF job[p].n > Len(Early) THEN "base"
                              ELSE IF job[p].n > Len(Downloads) THEN "read" ELSE "create"
            /\ job'[p].n = job[p].n /\ job'[p].seen = job[p].seen
        BY <1>1, <1>2, <2>3 DEF Stat, To, BuildTypes, Job
      <4> QED
        BY <1>1, <2>1, <4>1
    <3>2. Rootfs(p, {"base"})' => Rootfs(p, {"stat"})
      BY <2>1, <3>1 DEF Rootfs
    <3> QED
      BY <1>1, <2>1, <3>1, <3>2 DEF Undisturbed, Rootfs, engine
  <2> QED
    BY <2>2, <2>3
<1>3. CASE Read(p)
  <2>1. job'[p].step = "create" /\ job'[p].n = job[p].n /\ job[p].n = Len(Early)
    BY <1>1, <1>3 DEF Read, Step, Placed, BuildTypes, Job
  <2> QED
    BY <1>1, <2>1 DEF Undisturbed, Rootfs
<1>4. CASE Create(p)
  <2>1. job'[p].step = "write" /\ job'[p].open = "tmp"
    BY <1>1, <1>4 DEF Create, Job
  <2> QED
    BY <2>1 DEF Undisturbed, Rootfs
<1>5. CASE Write(p)
  <2>1. job'[p].step = "publish" /\ job'[p].open = job[p].open /\ job[p].step = "write"
    BY <1>1, <1>5 DEF Write, Step, To, BuildTypes, Job
  <2> QED
    BY <2>1 DEF Undisturbed, Rootfs
<1>6. CASE Publish(p)
  <2>1. job'[p] = PublishedJob(p) /\ job[p].n \in 1..Last
    <3>1. job[p].step = "publish"
      BY <1>6 DEF Publish, Step
    <3> QED
      BY <1>1, <1>6, <3>1, PublishLeaves DEF Placed, Resting
  <2>2. /\ job'[p].step \in {"stat", "key", "done"}
        /\ job'[p].step = "stat" => job'[p].n # Last
    BY <1>1, <1>6, <2>1, PublishedJobIs
  <2> QED
    BY <2>2 DEF Undisturbed, Rootfs
<1> QED
  BY <1>2, <1>3, <1>4, <1>5, <1>6

LEMMA LateProceed ==
    ASSUME BuildInv, NEW p \in Builders, Undisturbed(p),
           \/ StatKey(p) \/ job' = [job EXCEPT ![p].step = "key", ![p].key = 0]
           \/ CleanupStaleContainers(p) \/ (\E c \in Contents \cup {None} : Inspect(p, c))
           \/ BuildBase(p)
    PROVE  Proceeds(p)
<1>1. BuildTypes /\ Placed(p) /\ job[p] \in Job /\ ImageTypeOK
  BY DEF BuildInv, BuildTypes, Orderly
<1> USE DEF Proceeds
<1>2. CASE StatKey(p) /\ keys = KeyTypes
  <2>1. job'[p].step = "cleanup"
    BY <1>1, <1>2 DEF StatKey, To, BuildTypes, Job
  <2> QED
    BY <2>1 DEF Undisturbed, Rootfs
<1>3. CASE StatKey(p) /\ keys # KeyTypes
  <2>1. job'[p].step = "keygen" /\ job'[p].key = keys + 1 /\ keys' = keys
    BY <1>1, <1>3 DEF StatKey, BuildTypes, Job, cache
  <2>2. keys' < job'[p].key
    BY <1>1, <2>1, ImageBuildAssumption DEF ImageTypeOK
  <2> QED
    BY <2>1, <2>2 DEF Undisturbed, Rootfs
<1>4. CASE job' = [job EXCEPT ![p].step = "key", ![p].key = 0]
  <2>1. job'[p].step = "key"
    BY <1>1, <1>4 DEF BuildTypes, Job
  <2> QED
    BY <2>1 DEF Undisturbed, Rootfs
<1>5. CASE CleanupStaleContainers(p)
  <2>1. job'[p].step = "inspect" /\ \A t \in Tags : box'[t] = None
    BY <1>1, <1>5 DEF CleanupStaleContainers, To, BuildTypes, Job
  <2> QED
    BY <2>1 DEF Undisturbed, Rootfs
<1>6. ASSUME NEW c \in Contents \cup {None}, Inspect(p, c) PROVE Proceeds(p)
  <2>1. /\ job'[p].step = "stat" /\ job'[p].seen = base /\ base' = base /\ box' = box
        /\ job[p].step = "inspect"
    BY <1>1, <1>6 DEF Inspect, Step, BuildTypes, Job, engine
  <2>2. Rootfs(p, {"inspect"})
    BY <1>1, <2>1 DEF Placed, LateSteps, Rootfs
  <2> QED
    BY <2>1, <2>2 DEF Undisturbed, Rootfs
<1>7. CASE BuildBase(p)
  <2>1. job[p].step = "base" /\ Rootfs(p, {"base"}) /\ box' = box
    BY <1>1, <1>7 DEF BuildBase, Step, Placed, LateSteps, Rootfs
  <2>2. job'[p].step = "custom" /\ base' = job'[p].seen
    <3>1. CASE job[p].seen # 0
      BY <1>1, <1>7, <2>1, <3>1 DEF BuildBase, To, BuildTypes, Job, Undisturbed, Rootfs
    <3>2. CASE job[p].seen = 0
      <4>1. PICK b : /\ base' = b
                     /\ job' = [job EXCEPT ![p].step = "custom", ![p].seen = b,
                                           ![p].path = RootfsPath(job[p].content, b)]
        BY <1>7, <3>2 DEF BuildBase
      <4> QED
        BY <1>1, <4>1 DEF BuildTypes, Job
    <3> QED
      BY <3>1, <3>2
  <2> QED
    BY <2>1, <2>2 DEF Undisturbed, Rootfs
<1> QED
  BY <1>2, <1>3, <1>4, <1>5, <1>6, <1>7

LEMMA ContainersProceed ==
    ASSUME BuildInv, NEW p \in Builders, Undisturbed(p),
           BuildCustom(p) \/ CreateBox(p) \/ Export(p)
    PROVE  Proceeds(p)
<1>1. BuildTypes /\ Placed(p) /\ Chosen(p) /\ job[p] \in Job /\ ImageTypeOK
  BY DEF BuildInv, BuildTypes, Orderly
<1> USE DEF Proceeds
<1>2. job[p].step \in {"custom", "box", "export"} /\ job[p].n = Last /\ Tag(p) \in Tags
  <2>1. job[p].step \in {"custom", "box", "export"} /\ job[p].n = Last
    BY <1>1 DEF BuildCustom, CreateBox, Export, Step, Placed, LateSteps
  <2> QED
    BY <1>1, <2>1, TagTyped DEF Chosen, Rootfs
<1>3. CASE BuildCustom(p)
  <2>1. /\ job[p].step = "custom" /\ job'[p].step = "box" /\ job'[p].seen = job[p].seen
        /\ job'[p].content = job[p].content /\ base' = base /\ box' = box
    BY <1>1, <1>3 DEF BuildCustom, Step, To, BuildTypes, Job
  <2>2. Rootfs(p, {"custom"})
    BY <1>2, <2>1 DEF Rootfs
  <2>3. Tag(p)' = Tag(p)
    BY <2>1 DEF Tag
  <2>4. Tag(p) # Plain => custom'[Tag(p)] # None
    <3>1. CASE custom' = custom /\ custom[Tag(p)] # None
      BY <3>1
    <3>2. CASE custom' = [custom EXCEPT ![Tag(p)] =
                 [content |-> job[p].content, base |-> base, alone |-> p \in alone]]
      <4>1. [content |-> job[p].content, base |-> base, alone |-> p \in alone] # None
        <5>1. job[p].content \in Contents \cup {None} /\ base \in 0..MaxBase
          BY <1>1 DEF ImageTypeOK, Job
        <5>2. [content |-> job[p].content, base |-> base, alone |-> p \in alone] \in Image
          BY <5>1 DEF Image
        <5> QED
          BY <5>2, NamesAssumption
      <4> QED
        BY <1>1, <1>2, <3>2, <4>1 DEF ImageTypeOK
    <3> QED
      BY <1>3, <3>1, <3>2 DEF BuildCustom
  <2> QED
    BY <2>1, <2>2, <2>3, <2>4 DEF Undisturbed, Rootfs
<1>4. CASE CreateBox(p)
  <2>1. /\ job'[p].step = "export" /\ job'[p].own = Tag(p)
        /\ box'[Tag(p)] = ImageOf(Tag(p)) /\ ImageOf(Tag(p)) # None
    BY <1>1, <1>2, <1>4 DEF CreateBox, BuildTypes, ImageTypeOK, Job
  <2> QED
    BY <2>1 DEF Undisturbed, Rootfs
<1>5. CASE Export(p)
  <2>1. /\ job'[p].step = "create" /\ job'[p].own = job[p].own
        /\ box' = box /\ box[job[p].own] # None
    BY <1>1, <1>5 DEF Export, BuildTypes, Job, engine
  <2> QED
    BY <2>1 DEF Undisturbed, Rootfs
<1> QED
  BY <1>3, <1>4, <1>5

\* What a builder that runs alone still needs is missing only if it was
\* downloaded, or made of it, when two had the file.
LEMMA AloneFails ==
    ASSUME BuildInv, NEW p \in Builders, Active = {p}, Undisturbed(p), GivesUp(p)
    PROVE  Excused(p)'
<1>1. /\ BuildTypes /\ ImageTypeOK /\ Placed(p) /\ Chosen(p) /\ Passed(p) /\ Opened(p)
      /\ FinalIsWhole /\ Last = Len(Early) + 1 /\ Len(Early) \in Nat \ {0}
  BY EarlyFiles DEF BuildInv, BuildTypes, Orderly, Last
<1>2. CASE WriteFails(p) \/ Fault(p)
  BY <1>2 DEF WriteFails, Fault, Excused
<1>3. CASE PublishFails(p)
  <2>1. job[p].step = "publish" /\ tmp[The(p)] = None
    BY <1>3 DEF PublishFails, Step
  <2> QED
    BY <1>1, <2>1 DEF Undisturbed, Opened
<1>4. CASE Keygen(p) /\ ~(keys < job[p].key)
  BY <1>4 DEF Keygen, Step, Undisturbed
<1>5. CASE Step(p, "read") /\ SpoiltInput(p) /\ GivesUp(p)
  <2>1. job[p].step = "read" /\ job[p].n = Len(Early) /\ ~AtRootfs(p)
    BY <1>1, <1>5 DEF Step, Placed, AtRootfs
  <2>2. PICK f \in Files \cap {Orig, Modloop} : final[f] = None \/ ~Whole(final[f])
    BY <1>5, <2>1 DEF SpoiltInput, Inputs
  <2>3. PICK i \in 1..Len(Early) : f = Early[i]
    BY <2>2, NamesAssumption DEF Files
  <2>4. i < job[p].n
    BY <1>1, <2>1, <2>2, <2>3, NamesAssumption, EarlyFiles
  <2>5. final[f] # None /\ final[f].spoilt
    BY <1>1, <2>1, <2>2, <2>3, <2>4 DEF Passed, Resting, FinalIsWhole, Whole
  <2>6. Fails(p) /\ job'[p].step = "failed" /\ final' = final
    BY <1>1, <1>5, GivesUpFails, FailedJob, IdleSteps
  <2>7. Active' = {}
    <3>1. ASSUME NEW q \in Builders, q # p PROVE job'[q].step = job[q].step
      <4>1. Build(p)
        BY <1>5 DEF GivesUp, Build
      <4> QED
        BY <3>1, <4>1, OthersAlike DEF Alike
    <3>2. \A q \in Builders : q # p => job[q].step \in {"idle", "done", "failed"}
      BY DEF Active
    <3> QED
      BY <2>6, <3>1, <3>2 DEF Active
  <2>8. Settled(f)'
    BY <2>2, <2>5, <2>6, <2>7 DEF Settled
  <2> QED
    BY <2>2, <2>8 DEF Excused
<1>6. CASE Step(p, "create") /\ AtRootfs(p) /\ box[job[p].own] = None
  <2>1. job[p].step = "create" /\ job[p].n \in 1..Last
    BY <1>1, <1>6 DEF Step, Placed, Resting
  <2>2. Rootfs(p, {"export", "create"})
    BY <1>1, <1>6, <2>1 DEF AtRootfs, Rootfs
  <2> QED
    BY <1>6, <2>2 DEF Undisturbed
<1>7. CASE Step(p, "custom") /\ base = 0
  <2>1. Rootfs(p, {"custom"})
    BY <1>1, <1>7 DEF Step, Placed, LateSteps, Rootfs
  <2> QED
    BY <1>1, <1>7, <2>1 DEF Undisturbed, Chosen, Rootfs
<1>8. CASE Step(p, "box") /\ (ImageOf(Tag(p)) = None \/ box[Tag(p)] # None)
  <2>1. Rootfs(p, {"box"})
    BY <1>1, <1>8 DEF Step, Placed, LateSteps, Rootfs
  <2>2. job[p].seen # 0 /\ base = job[p].seen /\ box[Tag(p)] = None
    BY <1>1, <2>1, TagTyped DEF Undisturbed, Chosen, Rootfs
  <2>3. Tag(p) # Plain => custom[Tag(p)] # None
    BY <1>8 DEF Undisturbed, Step
  <2>4. [content |-> None, base |-> base, alone |-> TRUE] # None
    <3>1. [content |-> None, base |-> base, alone |-> TRUE] \in Image
      BY <1>1 DEF ImageTypeOK, Image
    <3> QED
      BY <3>1, NamesAssumption
  <2> QED
    BY <1>8, <2>2, <2>3, <2>4 DEF ImageOf
<1>9. CASE Step(p, "export") /\ box[job[p].own] = None
  <2>1. Rootfs(p, {"export"})
    BY <1>1, <1>9 DEF Step, Placed, LateSteps, Rootfs
  <2> QED
    BY <1>9, <2>1 DEF Undisturbed, Rootfs
<1>10. CASE BuildFails(p)
  BY <1>5, <1>6, <1>7, <1>8, <1>9, <1>10 DEF BuildFails, GivesUp
<1> QED
  BY <1>2, <1>3, <1>4, <1>10 DEF GivesUp

\* Only a start makes a builder one that runs alone.
LEMMA AloneAfter ==
    ASSUME BuildTypes, NEW p \in Builders, Build(p)
    PROVE  alone' \subseteq alone /\ (Return(p) \/ Die(p) => p \notin alone')
BY BuildCases, GivesUpFails
   DEF Stat, Read, Create, Write, Publish, StatKey, CleanupStaleContainers, BuildBase,
       BuildCustom, CreateBox, Export, Return, Die, ScriptEnds, Inspect, Fails, ghosts

\* A script whose builder was killed ends what it writes, and no more.
LEMMA DeadInductive ==
    ASSUME BuildInv, DeadInv, [ImageNext]_imageVars
    PROVE  DeadInv'
<1>1. BuildTypes
  BY DEF BuildInv
<1>2. CASE PruneImages
  BY <1>2 DEF PruneImages, DeadInv
<1>3. ASSUME NEW p \in Builders, Build(p) \/ Start(p) PROVE DeadInv'
  <2>1. alone' \subseteq alone \cup {p} /\ (p \in alone' /\ p \notin alone => Start(p))
    BY <1>1, <1>3, AloneAfter DEF Start
  <2>2. ASSUME NEW q \in Builders, q # p, job'[q].dead
        PROVE  /\ q \notin alone' /\ job'[q].n = Last
               /\ job'[q].step \in {"create", "write", "publish"}
    BY <1>3, <2>1, <2>2, OthersAlike DEF DeadInv, Alike
  <2>3. ASSUME job'[p].dead
        PROVE  /\ p \notin alone' /\ job'[p].n = Last
               /\ job'[p].step \in {"create", "write", "publish"}
    <3>1. job[p] \in Job /\ Placed(p)
      BY <1>1 DEF BuildInv, BuildTypes, Orderly
    <3>2. CASE Create(p) \/ Write(p)
      <4>1. /\ job'[p].dead = job[p].dead /\ job'[p].n = job[p].n /\ alone' = alone
            /\ job'[p].step \in {"write", "publish"}
        <5>1. CASE Create(p)
          BY <3>1, <5>1 DEF Create, ghosts, Job
        <5>2. CASE Write(p)
          BY <1>1, <3>1, <5>2 DEF Write, To, ghosts, BuildTypes, Job
        <5> QED
          BY <3>2, <5>1, <5>2
      <4> QED
        BY <2>3, <4>1 DEF DeadInv
    <3>3. CASE Die(p) /\ job' = [job EXCEPT ![p].dead = TRUE]
      <4>1. job'[p] = [job[p] EXCEPT !.dead = TRUE] /\ p \notin alone'
        BY <1>1, <3>3 DEF Die, BuildTypes
      <4>2. job'[p] # Idle
        BY <2>3, IdleSteps
      <4>3. AtRootfs(p) /\ job[p].step \in {"create", "write"}
        BY <1>1, <3>3, <4>2 DEF Die, BuildTypes
      <4> QED
        BY <3>1, <4>1, <4>3, EarlyFiles DEF AtRootfs, Placed, Resting, Last, Job
    <3>4. CASE GivesUp(p) \/ Leaves(p) \/ Start(p)
      <4>1. CASE GivesUp(p)
        BY <1>1, <2>3, <4>1, GivesUpFails, FailedJob, IdleSteps
      <4>2. CASE Leaves(p)
        BY <1>1, <2>3, <4>2, IdleSteps DEF Leaves, BuildTypes
      <4>3. CASE Start(p)
        <5>1. job'[p] = [Idle EXCEPT !.step = "stat", !.n = 1]
          BY <1>1, <4>3 DEF Start, BuildTypes
        <5>2. ~[Idle EXCEPT !.step = "stat", !.n = 1].dead
          BY DEF Idle
        <5> QED
          BY <2>3, <5>1, <5>2
      <4> QED
        BY <3>4, <4>1, <4>2, <4>3
    <3>5. CASE Publish(p)
      <4>1. job'[p] = PublishedJob(p) /\ ~job[p].dead
        BY <3>5, PublishLeaves DEF Publish
      <4>2. PublishedJob(p).dead = job[p].dead
        BY <3>5, PublishedJobIs
      <4> QED
        BY <2>3, <4>1, <4>2
    <3>6. CASE job'[p].dead = job[p].dead /\ job[p].step \notin {"create", "write", "publish"}
      BY <2>3, <3>6 DEF DeadInv
    <3>7. CASE Stat(p) \/ Read(p) \/ StatKey(p)
      BY <1>1, <3>1, <3>6, <3>7 DEF Stat, Read, StatKey, Step, To, BuildTypes, Job
    <3>8. CASE CleanupStaleContainers(p) \/ BuildCustom(p) \/ CreateBox(p) \/ Export(p)
      BY <1>1, <3>1, <3>6, <3>8
         DEF CleanupStaleContainers, BuildCustom, CreateBox, Export, Step, To, BuildTypes, Job
    <3>9. CASE \/ Step(p, "keygen") /\ job' = [job EXCEPT ![p].step = "key", ![p].key = 0]
               \/ \E c \in Contents \cup {None} : Inspect(p, c)
      <4>1. job[p].step \in {"keygen", "inspect"}
        BY <3>9 DEF Inspect, Step
      <4>2. CASE job' = [job EXCEPT ![p].step = "key", ![p].key = 0]
        BY <1>1, <3>1, <3>6, <4>1, <4>2 DEF BuildTypes, Job
      <4>3. ASSUME NEW c \in Contents \cup {None}, Inspect(p, c) PROVE job'[p].dead = job[p].dead
        BY <1>1, <3>1, <4>3 DEF Inspect, BuildTypes, Job
      <4> QED
        BY <3>6, <3>9, <4>1, <4>2, <4>3
    <3>10. CASE BuildBase(p)
      <4>1. PICK b, path :
              \/ job' = [job EXCEPT ![p].step = "custom"]
              \/ job' = [job EXCEPT ![p].step = "custom", ![p].seen = b, ![p].path = path]
        BY <3>10 DEF BuildBase, To
      <4>2. job'[p].dead = job[p].dead
        BY <1>1, <3>1, <4>1 DEF BuildTypes, Job
      <4> QED
        BY <3>6, <3>10, <4>2 DEF BuildBase, Step
    <3> QED
      BY <1>1, <1>3, <3>2, <3>3, <3>4, <3>5, <3>7, <3>8, <3>9, <3>10, BuildCases
  <2> QED
    BY <2>2, <2>3 DEF DeadInv
<1>4. CASE UNCHANGED imageVars
  BY <1>4 DEF imageVars, ghosts, DeadInv
<1> QED
  BY <1>2, <1>3, <1>4 DEF ImageNext

\* Of the builders that are not at work, only returns are left.
LEMMA OnlyReturns ==
    ASSUME BuildInv, DeadInv, NEW p \in Builders, p \notin Active, Build(p)
    PROVE  Return(p) /\ job' = [job EXCEPT ![p] = Idle] /\ UNCHANGED <<cache, engine>>
<1>1. job[p].step \in {"idle", "done", "failed"} /\ ~job[p].dead
  BY DEF Active, DeadInv
<1>2. Return(p)
  BY <1>1 DEF Build, Stat, Read, Create, Write, WriteFails, Publish, PublishFails, StatKey,
     Keygen, CleanupStaleContainers, BuildBase, BuildCustom, CreateBox, Export, BuildFails,
     Fault, Die, ScriptEnds, Inspect, Step, Active
<1> QED
  BY <1>2 DEF Return

LEMMA AloneInductive ==
    ASSUME BuildInv, DeadInv, AloneInv, [ImageNext]_imageVars
    PROVE  AloneInv'
<1> DEFINE Fine(q) == /\ job[q].step # "idle"
                      /\ q \in Active => Active = {q} /\ Undisturbed(q)
                      /\ job[q].step = "failed" => Excused(q)
<1>1. BuildTypes /\ alone \subseteq Builders
  BY DEF BuildInv, BuildTypes, ImageTypeOK
<1>2. CASE PruneImages
  BY <1>2 DEF PruneImages, AloneInv
\* A builder at rest stays as it is, whoever moves.
<1>3. ASSUME NEW p \in Builders, Build(p) \/ Start(p),
             NEW q \in alone, q # p, q \notin Active
      PROVE  Fine(q)'
  <2>1. q \in Builders /\ job'[q].step = job[q].step
    BY <1>1, <1>3, OthersAlike DEF Alike
  <2>2. q \notin Active'
    BY <1>3, <2>1 DEF Active
  <2>3. job'[q].step = "failed" => Excused(q)'
    BY <1>3, <2>1, ExcusedStays DEF AloneInv
  <2> QED
    BY <2>1, <2>2, <2>3 DEF AloneInv
<1>4. ASSUME NEW p \in Builders, Start(p) PROVE AloneInv'
  <2>1. /\ job'[p] = [Idle EXCEPT !.step = "stat", !.n = 1] /\ p \notin alone
        /\ alone' = IF Active = {} THEN alone \cup {p} ELSE alone \ Active
    BY <1>1, <1>4 DEF Start, Step, BuildTypes, AloneInv
  <2>2. job'[p].step = "stat" /\ job'[p].n # Last
    <3>1. [Idle EXCEPT !.step = "stat", !.n = 1].step = "stat"
          /\ [Idle EXCEPT !.step = "stat", !.n = 1].n = 1
      BY DEF Idle
    <3> QED
      BY <2>1, <3>1, EarlyFiles DEF Last
  <2>3. ASSUME NEW q \in alone', q # p PROVE Fine(q)'
    <3>1. q \in alone /\ q \notin Active
      BY <2>1, <2>3
    <3> QED
      BY <1>3, <1>4, <2>3, <3>1
  <2>4. ASSUME p \in alone' PROVE Fine(p)'
    <3>1. Active = {}
      BY <2>1, <2>4
    <3>2. \A q \in Builders : q # p => job'[q].step = job[q].step
      BY <1>4, OthersAlike DEF Alike
    <3>3. Active' = {p}
      BY <2>2, <3>1, <3>2 DEF Active
    <3>4. Undisturbed(p)'
      BY <2>2 DEF Undisturbed, Rootfs
    <3> QED
      BY <2>2, <3>3, <3>4
  <2> QED
    BY <2>3, <2>4 DEF AloneInv
<1>5. ASSUME NEW p \in Builders, Build(p) PROVE AloneInv'
  <2>1. alone' \subseteq alone /\ (Return(p) \/ Die(p) => p \notin alone')
    BY <1>1, <1>5, AloneAfter
  <2>2. ASSUME NEW q \in alone', q # p PROVE Fine(q)'
    <3>1. q \in alone /\ q \in Builders
      BY <1>1, <2>1, <2>2
    <3>2. CASE q \notin Active
      BY <1>3, <1>5, <2>2, <3>1, <3>2
    <3>3. CASE q \in Active
      <4>1. Active = {q} /\ Undisturbed(q)
        BY <3>1, <3>3 DEF AloneInv
      <4>2. job' = [job EXCEPT ![p] = Idle] /\ UNCHANGED <<cache, engine>>
        BY <1>5, <2>2, <4>1, OnlyReturns
      <4>3. job'[q] = job[q] /\ job'[p].step = "idle"
            /\ \A b \in Builders : b # p => job'[b] = job[b]
        BY <1>1, <2>2, <3>1, <4>2, IdleSteps DEF BuildTypes
      <4>4. Active' = {q}
        BY <2>2, <4>1, <4>3 DEF Active
      <4>5. Undisturbed(q)'
        BY <4>1, <4>2, <4>3 DEF Undisturbed, Rootfs, Tag, cache, engine
      <4>6. job[q].step \notin {"idle", "failed"}
        BY <3>3 DEF Active
      <4> QED
        BY <4>3, <4>4, <4>5, <4>6
    <3> QED
      BY <3>2, <3>3
  <2>3. ASSUME p \in alone' PROVE Fine(p)'
    <3>1. p \in alone /\ p \in Active
      BY <1>5, <2>1, <2>3, OnlyReturns
    <3>2. Active = {p} /\ Undisturbed(p) /\ ~job[p].dead
      BY <3>1 DEF AloneInv, DeadInv
    <3>3. \A q \in Builders : q # p => job'[q].step = job[q].step
      BY <1>5, OthersAlike DEF Alike
    <3>4. p \in Active' => Active' = {p}
      BY <3>2, <3>3 DEF Active
    <3>5. CASE GivesUp(p)
      <4>1. job'[p].step = "failed" /\ Excused(p)'
        BY <1>1, <3>2, <3>5, AloneFails, GivesUpFails, FailedJob, IdleSteps
      <4> QED
        BY <4>1 DEF Active
    <3>6. CASE ~GivesUp(p)
      <4>1. ~Return(p) /\ ~Die(p) /\ ~ScriptEnds(p)
        BY <2>1, <2>3, <3>2 DEF ScriptEnds
      <4>2. Proceeds(p)
        BY <1>1, <1>5, <3>2, <3>6, <4>1, BuildCases, FilesProceed, LateProceed,
           ContainersProceed
      <4> QED
        BY <3>4, <4>2 DEF Proceeds
    <3> QED
      BY <3>5, <3>6
  <2> QED
    BY <2>2, <2>3 DEF AloneInv
<1>6. CASE UNCHANGED imageVars
  BY <1>6 DEF imageVars, cache, engine, ghosts, AloneInv, Active, Undisturbed, Excused,
     Settled, Rootfs, Tag, The
<1> QED
  BY <1>2, <1>4, <1>5, <1>6 DEF ImageNext

LEMMA AloneInvariant == ImageSpec => [](BuildInv /\ DeadInv /\ AloneInv)
<1>1. ImageInit => BuildInv /\ DeadInv /\ AloneInv
  BY BuildStart, IdleSteps DEF ImageInit, DeadInv, AloneInv
<1>2. BuildInv /\ DeadInv /\ AloneInv /\ [ImageNext]_imageVars
        => (BuildInv /\ DeadInv /\ AloneInv)'
  BY BuildInductive, DeadInductive, AloneInductive
<1> QED
  BY <1>1, <1>2, PTL DEF ImageSpec

\* A builder beside which nothing runs gets through: what killed builders have
\* left behind at any step never stops it, only something that fails outside
\* or a download that two builders once had at the same time.
THEOREM LeftoversStopNothing == ImageSpec => []OnlyFaultsStopABuild
<1>1. AloneInv => OnlyFaultsStopABuild
  BY DEF AloneInv, OnlyFaultsStopABuild, Excused, Settled, Step
<1> QED
  BY <1>1, AloneInvariant, PTL

-----------------------------------------------------------------------------
(* The contents of the images *)

\* An image goes with a tag: it has its custom layer and, if it was made by a
\* builder that ran alone, its base.
Suits(image, t) == /\ image.content = t[1]
                   /\ t[1] # None /\ image.alone => image.base = t[2]

SuitsAll(images) == \A t \in Tags : images[t] # None => Suits(images[t], t)
FilesSuit(files) == \A t \in Tags : files[t] # None => Suits(files[t].image, t)

\* The image a builder has read goes with the name of its root file system.
ReadSuits(p) == Rootfs(p, {"create"}) => Suits(job[p].image, job[p].path)

ContentInv ==
    /\ \A p \in Builders : ReadSuits(p)
    /\ SuitsAll(custom) /\ SuitsAll(box)
    /\ FilesSuit(tmp) /\ FilesSuit(final)

\* The tag of the custom image names the file, too.
LEMMA TagIsPath ==
    ASSUME BuildInv, NEW p \in Builders,
           Rootfs(p, {"custom", "box", "export", "create", "write", "publish"})
    PROVE  Tag(p) = job[p].path /\ Tag(p) \in Tags
<1>1. BuildTypes /\ Chosen(p)
  BY DEF BuildInv, Orderly
<1>2. job[p].path = RootfsPath(job[p].content, job[p].seen) /\ job[p].seen # 0
  BY <1>1 DEF Chosen, Rootfs
<1> QED
  BY <1>1, <1>2, TagTyped DEF Tag, RootfsPath

LEMMA CustomSuits ==
    ASSUME BuildInv, AloneInv, SuitsAll(custom), NEW p \in Builders, BuildCustom(p)
    PROVE  SuitsAll(custom)'
<1> DEFINE image == [content |-> job[p].content, base |-> base, alone |-> p \in alone]
<1>1. BuildTypes /\ ImageTypeOK
  BY DEF BuildInv, BuildTypes
<1>2. CASE custom' = custom
  BY <1>2 DEF SuitsAll
<1>3. CASE Tag(p) # Plain /\ custom' = [custom EXCEPT ![Tag(p)] = image]
  <2>1. Rootfs(p, {"custom"}) /\ p \in Active
    BY DEF BuildCustom, Step, BuildInv, Orderly, Placed, LateSteps, Rootfs, Active
  <2>2. Tag(p) = <<job[p].content, job[p].seen>>
    BY <1>3 DEF Tag
  <2>3. p \in alone => base = job[p].seen
    BY <2>1 DEF AloneInv, Undisturbed, Rootfs
  <2>4. Suits(image, Tag(p))
    <3>1. image.content = job[p].content /\ image.base = base /\ image.alone = (p \in alone)
      OBVIOUS
    <3>2. Tag(p)[1] = job[p].content /\ Tag(p)[2] = job[p].seen
      BY <2>2
    <3> HIDE DEF image
    <3> QED
      BY <2>3, <3>1, <3>2 DEF Suits
  <2>5. \A t \in Tags : custom'[t] = IF t = Tag(p) THEN image ELSE custom[t]
    BY <1>1, <1>3 DEF ImageTypeOK
  <2> QED
    BY <2>4, <2>5 DEF SuitsAll
<1> QED
  BY <1>2, <1>3 DEF BuildCustom

LEMMA BoxSuits ==
    ASSUME BuildInv, SuitsAll(custom), SuitsAll(box), NEW p \in Builders, CreateBox(p)
    PROVE  SuitsAll(box)'
<1>1. BuildTypes /\ ImageTypeOK
  BY DEF BuildInv, BuildTypes
<1>2. Tag(p) \in Tags
  <2>1. Rootfs(p, {"box"})
    BY DEF CreateBox, Step, BuildInv, Orderly, Placed, LateSteps, Rootfs
  <2> QED
    BY <2>1, TagIsPath DEF Rootfs
<1>3. Suits(ImageOf(Tag(p)), Tag(p))
  <2>1. CASE Tag(p) # Plain
    <3>1. ImageOf(Tag(p)) = custom[Tag(p)] /\ custom[Tag(p)] # None
      BY <2>1 DEF CreateBox, ImageOf
    <3> QED
      BY <1>2, <3>1 DEF SuitsAll
  <2>2. CASE Tag(p) = Plain
    <3>1. ImageOf(Plain) = [content |-> None, base |-> base, alone |-> TRUE]
      BY <2>2 DEF CreateBox, ImageOf
    <3> QED
      BY <2>2, <3>1 DEF Suits, Plain
  <2> QED
    BY <2>1, <2>2
<1>4. \A t \in Tags : box'[t] = IF t = Tag(p) THEN ImageOf(Tag(p)) ELSE box[t]
  BY <1>1 DEF CreateBox, ImageTypeOK
<1> QED
  BY <1>3, <1>4 DEF SuitsAll

\* An export that begins reads the container of the builder's own tag.
LEMMA ReadsSuit ==
    ASSUME BuildInv, NEW p \in Builders, Build(p) \/ Start(p), SuitsAll(box),
           NEW q \in Builders, ReadSuits(q)
    PROVE  ReadSuits(q)'
<1>1. BuildTypes /\ Placed(p) /\ Chosen(p) /\ job[p] \in Job
      /\ Last = Len(Early) + 1 /\ Len(Early) \in Nat \ {0}
  BY EarlyFiles DEF BuildInv, BuildTypes, Orderly, Last
<1>2. CASE q # p
  BY <1>2, OthersAlike DEF ReadSuits, Rootfs, Alike
<1>3. CASE q = p /\ job'[p].step # "create"
  BY <1>3 DEF ReadSuits, Rootfs
<1>4. CASE q = p /\ Export(p)
  <2>1. /\ job'[p].image = box[job[p].own] /\ job'[p].path = job[p].path
        /\ box[job[p].own] # None
    BY <1>1, <1>4 DEF Export, BuildTypes, Job
  <2>2. Rootfs(p, {"export"})
    BY <1>1, <1>4 DEF Export, Step, Placed, LateSteps, Rootfs
  <2>3. job[p].own = job[p].path /\ job[p].own \in Tags
    BY <1>1, <2>2, TagIsPath DEF Chosen, Rootfs
  <2> QED
    BY <1>4, <2>1, <2>3 DEF SuitsAll, ReadSuits
<1>5. CASE q = p /\ (Stat(p) \/ Read(p))
  <2>1. job'[p].step = "create" => job'[p].n # Last
    <3>1. CASE Read(p)
      BY <1>1, <3>1 DEF Read, Step, Placed, BuildTypes, Job
    <3>2. CASE Stat(p) /\ final[The(p)] # None
      <4>1. job'[p].step = After(job[p].n)
        BY <1>1, <3>2 DEF Stat, BuildTypes, Job
      <4> QED
        BY <4>1 DEF After
    <3>3. CASE Stat(p) /\ final[The(p)] = None
      <4>1. /\ job'[p].step = IF job[p].n > Len(Early) THEN "base"
                              ELSE IF job[p].n > Len(Downloads) THEN "read" ELSE "create"
            /\ job'[p].n = job[p].n
        BY <1>1, <3>3 DEF Stat, To, BuildTypes, Job
      <4> QED
        BY <1>1, <4>1
    <3> QED
      BY <1>5, <3>1, <3>2, <3>3
  <2> QED
    BY <1>5, <2>1 DEF ReadSuits, Rootfs
<1>6. CASE q = p /\ Die(p) /\ job' = [job EXCEPT ![p].dead = TRUE]
  BY <1>1, <1>6 DEF ReadSuits, Rootfs, BuildTypes, Job
<1>7. CASE q = p /\ (Create(p) \/ Write(p) \/ StatKey(p) \/ CleanupStaleContainers(p)
                      \/ BuildCustom(p) \/ CreateBox(p)
                      \/ job' = [job EXCEPT ![p].step = "key", ![p].key = 0])
  <2>1. job'[p].step # "create"
    <3>1. CASE Create(p)
      BY <1>1, <3>1 DEF Create, Job
    <3>2. CASE Write(p) \/ StatKey(p) \/ CleanupStaleContainers(p)
      BY <1>1, <3>2 DEF Write, StatKey, CleanupStaleContainers, To, BuildTypes, Job
    <3>3. CASE BuildCustom(p) \/ CreateBox(p)
      BY <1>1, <3>3 DEF BuildCustom, CreateBox, To, BuildTypes, Job
    <3>4. CASE job' = [job EXCEPT ![p].step = "key", ![p].key = 0]
      BY <1>1, <3>4 DEF BuildTypes, Job
    <3> QED
      BY <1>7, <3>1, <3>2, <3>3, <3>4
  <2> QED
    BY <1>3, <1>7, <2>1
<1>8. CASE q = p /\ Publish(p)
  <2>1. job'[p] = PublishedJob(p) /\ job[p].n \in 1..Last
    <3>1. job[p].step = "publish"
      BY <1>8 DEF Publish, Step
    <3> QED
      BY <1>1, <1>8, <3>1, PublishLeaves DEF Placed, Resting
  <2>2. PublishedJob(p).step \in {"stat", "key", "done"}
    BY <1>1, <1>8, <2>1, PublishedJobIs
  <2> QED
    BY <1>3, <1>8, <2>1, <2>2
<1>9. CASE q = p /\ (GivesUp(p) \/ Leaves(p) \/ Start(p))
  <2>1. job'[p].step \in {"failed", "idle", "stat"}
    <3>1. CASE GivesUp(p)
      BY <1>1, <3>1, GivesUpFails, FailedJob, IdleSteps
    <3>2. CASE Leaves(p)
      BY <1>1, <3>2, IdleSteps DEF Leaves, BuildTypes
    <3>3. CASE Start(p)
      BY <1>1, <3>3 DEF Start, BuildTypes, Idle
    <3> QED
      BY <1>9, <3>1, <3>2, <3>3
  <2> QED
    BY <1>3, <1>9, <2>1
<1>10. CASE q = p /\ BuildBase(p)
  <2>1. PICK b, path :
          \/ job' = [job EXCEPT ![p].step = "custom"]
          \/ job' = [job EXCEPT ![p].step = "custom", ![p].seen = b, ![p].path = path]
    BY <1>10 DEF BuildBase, To
  <2>2. job'[p].step = "custom"
    BY <1>1, <2>1 DEF BuildTypes, Job
  <2> QED
    BY <1>3, <1>10, <2>2
<1>11. ASSUME q = p, NEW c \in Contents \cup {None}, Inspect(p, c) PROVE ReadSuits(q)'
  <2>1. job'[p].step = "stat"
    BY <1>1, <1>11 DEF Inspect, BuildTypes, Job
  <2> QED
    BY <1>3, <1>11, <2>1
<1> QED
  BY <1>1, <1>2, <1>4, <1>5, <1>6, <1>7, <1>8, <1>9, <1>10, <1>11, BuildCases

LEMMA FilesStaySuited ==
    ASSUME BuildInv, ContentInv, NEW p \in Builders, Build(p) \/ Start(p)
    PROVE  FilesSuit(tmp)' /\ FilesSuit(final)'
<1> DEFINE f == The(p)
<1>1. /\ BuildTypes /\ ImageTypeOK /\ Placed(p) /\ Opened(p) /\ job[p] \in Job
      /\ Tags \subseteq Files /\ FilesSuit(tmp) /\ FilesSuit(final)
  BY TagsAreFiles DEF BuildInv, BuildTypes, Orderly, ContentInv
<1>2. job[p].n \in 1..Last /\ f \in Tags => job[p].n = Last /\ f = job[p].path
  BY NamesAssumption, EarlyFiles DEF The, Last
<1>3. CASE Create(p)
  <2> DEFINE new == tmp'[f]
  <2>1. job[p].step = "create" /\ job[p].n \in 1..Last
    BY <1>1, <1>3 DEF Create, Step, Placed, Resting
  <2>2. final' = final /\ \A t \in Tags : t # f => tmp'[t] = tmp[t]
    BY <1>1, <1>3 DEF Create, ImageTypeOK
  <2>3. f \in Tags => tmp'[f].image = job[p].image
    BY <1>1, <1>3 DEF Create, ImageTypeOK
  <2>4. f \in Tags => Suits(tmp'[f].image, f)
    BY <1>2, <2>1, <2>3 DEF ContentInv, ReadSuits, Rootfs
  <2> QED
    BY <1>1, <2>2, <2>4 DEF FilesSuit
<1>4. CASE Write(p)
  <2>1. job[p].step = "write" /\ job[p].n \in 1..Last
    BY <1>1, <1>4 DEF Write, Step, Placed, Resting
  <2>2. /\ job[p].open = "final" => final[f] \in File
        /\ job[p].open = "tmp" => tmp[f] \in File
    BY <1>1, <2>1, FileTyped DEF Opened, ImageTypeOK
  <2>3. ASSUME NEW x \in File PROVE [x EXCEPT !.done = TRUE].image = x.image
    BY DEF File
  <2>4. /\ final' \in {final, [final EXCEPT ![f] = [final[f] EXCEPT !.done = TRUE]]}
        /\ final' = final \/ job[p].open = "final"
        /\ tmp' \in {tmp, [tmp EXCEPT ![f] = [tmp[f] EXCEPT !.done = TRUE]]}
        /\ tmp' = tmp \/ job[p].open = "tmp"
    BY <1>1, <1>4 DEF Write, Written, ImageTypeOK
  <2>5. \A t \in Tags : /\ final'[t] # None => final[t] # None /\ final'[t].image = final[t].image
                        /\ tmp'[t] # None => tmp[t] # None /\ tmp'[t].image = tmp[t].image
    <3> SUFFICES ASSUME NEW t \in Tags
                 PROVE  /\ final'[t] # None => final[t] # None /\ final'[t].image = final[t].image
                        /\ tmp'[t] # None => tmp[t] # None /\ tmp'[t].image = tmp[t].image
      OBVIOUS
    <3>1. CASE t = f
      <4>1. /\ final'[f] = final[f] \/ (final[f] \in File /\ final'[f].image = final[f].image)
            /\ tmp'[f] = tmp[f] \/ (tmp[f] \in File /\ tmp'[f].image = tmp[f].image)
        <5>1. f \in DOMAIN final /\ f \in DOMAIN tmp
          BY <1>1, <3>1 DEF ImageTypeOK
        <5>2. /\ final'[f] = final[f] \/ (final[f] \in File /\ final'[f] = [final[f] EXCEPT !.done = TRUE])
              /\ tmp'[f] = tmp[f] \/ (tmp[f] \in File /\ tmp'[f] = [tmp[f] EXCEPT !.done = TRUE])
          BY <2>2, <2>4, <5>1
        <5> QED
          BY <2>3, <5>2
      <4> QED
        BY <3>1, <4>1, NamesAssumption
    <3>2. CASE t # f
      <4>1. final'[t] = final[t] /\ tmp'[t] = tmp[t]
        BY <1>1, <2>4, <3>2 DEF ImageTypeOK
      <4> QED
        BY <4>1
    <3> QED
      BY <3>1, <3>2
  <2> QED
    BY <1>1, <2>5 DEF FilesSuit
<1>5. CASE Publish(p)
  <2>1. PICK x \in File : final' = [final EXCEPT ![f] = x] /\ x.image = tmp[f].image
    BY <1>5, PublishedIsWhole
  <2>2. tmp[f] # None /\ \A t \in Tags : /\ tmp'[t] = IF t = f THEN None ELSE tmp[t]
                                         /\ final'[t] = IF t = f THEN x ELSE final[t]
    BY <1>1, <1>5, <2>1 DEF Publish, ImageTypeOK
  <2> QED
    BY <1>1, <2>1, <2>2 DEF FilesSuit
<1>6. CASE GivesUp(p)
  <2>1. /\ final' = final /\ tmp' \in {tmp, [tmp EXCEPT ![f] = None]}
    BY <1>1, <1>6, GivesUpFails DEF Fails
  <2>2. \A t \in Tags : tmp'[t] \in {tmp[t], None}
    BY <1>1, <2>1 DEF ImageTypeOK
  <2> QED
    BY <1>1, <2>1, <2>2 DEF FilesSuit
<1>7. CASE UNCHANGED <<final, tmp>>
  BY <1>1, <1>7 DEF FilesSuit
<1> QED
  BY <1>1, <1>3, <1>4, <1>5, <1>6, <1>7, BuildCases
     DEF Stat, Read, StatKey, CleanupStaleContainers, BuildBase, BuildCustom, CreateBox,
         Export, Leaves, Die, Inspect, Start, cache

LEMMA ImagesStaySuited ==
    ASSUME BuildInv, AloneInv, ContentInv, NEW p \in Builders, Build(p) \/ Start(p)
    PROVE  SuitsAll(custom)' /\ SuitsAll(box)'
<1>1. /\ BuildTypes /\ ImageTypeOK /\ SuitsAll(custom) /\ SuitsAll(box)
  BY DEF BuildInv, BuildTypes, ContentInv
<1>2. ASSUME box' = Unboxed(p) PROVE SuitsAll(box)'
  <2>1. \A t \in Tags : box'[t] \in {box[t], None}
    BY <1>1, <1>2 DEF Unboxed, ImageTypeOK
  <2> QED
    BY <1>1, <2>1 DEF SuitsAll
<1>3. CASE BuildCustom(p)
  BY <1>1, <1>3, CustomSuits DEF BuildCustom, SuitsAll
<1>4. CASE CreateBox(p)
  BY <1>1, <1>4, BoxSuits DEF CreateBox, SuitsAll
<1>5. CASE CleanupStaleContainers(p)
  BY <1>1, <1>5 DEF CleanupStaleContainers, SuitsAll
<1>6. CASE Publish(p)
  BY <1>1, <1>2, <1>6 DEF Publish, SuitsAll
<1>7. CASE GivesUp(p)
  BY <1>1, <1>2, <1>7, GivesUpFails DEF Fails, SuitsAll
<1>8. CASE UNCHANGED <<custom, box>>
  BY <1>1, <1>8 DEF SuitsAll
<1> QED
  BY <1>1, <1>3, <1>4, <1>5, <1>6, <1>7, <1>8, BuildCases
     DEF Stat, Read, Create, Write, StatKey, BuildBase, Export, Leaves, Die, Inspect, Start,
         engine

LEMMA ContentInductive ==
    ASSUME BuildInv, AloneInv, ContentInv, [ImageNext]_imageVars
    PROVE  ContentInv'
<1>1. ASSUME NEW p \in Builders, Build(p) \/ Start(p) PROVE ContentInv'
  <2>1. \A q \in Builders : ReadSuits(q)'
    BY <1>1, ReadsSuit DEF ContentInv
  <2> QED
    BY <1>1, <2>1, FilesStaySuited, ImagesStaySuited DEF ContentInv
<1>2. CASE PruneImages
  <2>1. /\ UNCHANGED <<final, tmp, box, job>>
        /\ \A t \in Tags : custom'[t] \in {custom[t], None}
    BY <1>2 DEF PruneImages, cache
  <2> QED
    BY <2>1 DEF ContentInv, ReadSuits, Rootfs, SuitsAll, FilesSuit
<1>3. CASE UNCHANGED imageVars
  BY <1>3 DEF imageVars, cache, engine, ContentInv, ReadSuits, Rootfs, SuitsAll, FilesSuit
<1> QED
  BY <1>1, <1>2, <1>3 DEF ImageNext

\* The root file system that a builder running alone returns is of the custom
\* Dockerfile and of the base image it was asked for, whatever builds other
\* builders have left half done and however old what the cache holds.
THEOREM RootfsIsOfItsConfig == ImageSpec => []RootfsMatchesConfig
<1>1. ImageInit => ContentInv
  BY EarlyFiles, TagsAreFiles DEF ImageInit, ContentInv, ReadSuits, Rootfs, SuitsAll,
     FilesSuit, Idle
<1>2. BuildInv /\ ContentInv => RootfsMatchesConfig
  <2> SUFFICES ASSUME BuildInv, ContentInv, NEW p \in alone, job[p].step = "done"
               PROVE  LET image == final[job[p].path].image IN
                      \/ job[p].seen = 0 /\ image.content = None
                      \/ /\ image.content = job[p].content
                         /\ job[p].content # None /\ image.alone => image.base = job[p].seen
    BY DEF RootfsMatchesConfig, Step
  <2>1. p \in Builders /\ job[p] \in Job /\ Placed(p) /\ Chosen(p) /\ Passed(p)
    BY DEF BuildInv, BuildTypes, ImageTypeOK, Orderly
  <2>2. /\ final[job[p].path] # None /\ job[p].path \in Tags
        /\ job[p].path = RootfsPath(job[p].content, job[p].seen)
    BY <2>1 DEF Passed, Placed, Chosen, LateSteps, Rootfs, Job
  <2>3. Suits(final[job[p].path].image, job[p].path)
    BY <2>2 DEF ContentInv, FilesSuit
  <2>4. CASE job[p].content = None \/ job[p].seen = 0
    <3>1. job[p].path[1] = None
      BY <2>2, <2>4 DEF RootfsPath, Plain
    <3> QED
      BY <2>3, <2>4, <3>1 DEF Suits
  <2>5. CASE job[p].content # None /\ job[p].seen # 0
    <3>1. job[p].path[1] = job[p].content /\ job[p].path[2] = job[p].seen
      BY <2>2, <2>5 DEF RootfsPath
    <3> QED
      BY <2>3, <3>1 DEF Suits
  <2> QED
    BY <2>4, <2>5
<1>3. ImageSpec => []ContentInv
  BY <1>1, ContentInductive, AloneInvariant, PTL DEF ImageSpec
<1> QED
  BY <1>2, <1>3, BuildInvariant, PTL

=============================================================================
