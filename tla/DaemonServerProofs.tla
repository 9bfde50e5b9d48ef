------------------------- MODULE DaemonServerProofs -------------------------
(***************************************************************************)
(* Invariance proofs for DaemonServer, for every finite set of connections *)
(* and every number of slots.                                              *)
(***************************************************************************)
EXTENDS DaemonServer, FiniteSetTheorems, TLAPS

CountedConns == {c \in Conns : pc[c] \in Counted}

-----------------------------------------------------------------------------
(* The number of requests in flight, and the types with it: that inflight  *)
(* never goes below zero is a matter of counting.                          *)

\* A goroutine in the middle of stopManaged has a VM to stop.
StopTarget ==
    \A a \in Stoppers : pc[a] \in {"signal", "grace", "waitdone"} => cur[a] \in Conns

CountInv == TypeOK /\ StopTarget /\ InflightCounts

LEMMA CountedIsFinite == IsFiniteSet(CountedConns)
BY DaemonAssumption, FS_Subset DEF CountedConns

\* A goroutine that moves within the counted states, or within the others,
\* leaves the set of counted connections as it is.
LEMMA CountFrame ==
    ASSUME InflightCounts, UNCHANGED inflight,
           \A c \in Conns : pc'[c] \in Counted <=> pc[c] \in Counted
    PROVE  InflightCounts'
<1>1. CountedConns' = CountedConns
  BY DEF CountedConns
<1> QED
  BY <1>1 DEF InflightCounts, CountedConns

LEMMA CountedGrows ==
    ASSUME TypeOK, InflightCounts, NEW c \in Conns,
           pc[c] \notin Counted, NEW l \in Counted,
           pc' = [pc EXCEPT ![c] = l], inflight' = inflight + 1
    PROVE  InflightCounts'
<1>1. CountedConns' = CountedConns \cup {c}
  BY DEF CountedConns, TypeOK, Stoppers
<1>2. c \notin CountedConns
  BY DEF CountedConns
<1>3. Cardinality(CountedConns \cup {c}) = Cardinality(CountedConns) + 1
  BY <1>2, CountedIsFinite, FS_AddElement
<1> QED
  BY <1>1, <1>3 DEF InflightCounts, CountedConns

LEMMA CountedShrinks ==
    ASSUME TypeOK, InflightCounts, NEW c \in Conns,
           pc[c] \in Counted, NEW l, l \notin Counted,
           pc' = [pc EXCEPT ![c] = l], inflight' = inflight - 1
    PROVE  InflightCounts' /\ inflight' \in Nat
<1>1. CountedConns' = CountedConns \ {c}
  BY DEF CountedConns, TypeOK, Stoppers
<1>2. c \in CountedConns
  BY DEF CountedConns
<1>3. /\ IsFiniteSet(CountedConns \ {c})
      /\ Cardinality(CountedConns \ {c}) = Cardinality(CountedConns) - 1
  BY <1>2, CountedIsFinite, FS_RemoveElement
<1>4. Cardinality(CountedConns \ {c}) \in Nat
  BY <1>3, FS_CardinalityType
<1> QED
  BY <1>1, <1>3, <1>4 DEF InflightCounts, CountedConns

LEMMA TypeInductive ==
    TypeOK /\ StopTarget /\ [Next]_vars /\ inflight' \in Nat
        => TypeOK' /\ StopTarget'
<1> SUFFICES ASSUME TypeOK, StopTarget, [Next]_vars, inflight' \in Nat
             PROVE  TypeOK' /\ StopTarget'
  OBVIOUS
<1> USE DaemonAssumption DEF TypeOK, StopTarget, PCs, Methods, Stoppers, runVars,
        idleVars, startVars, stopVars, vmVars, At, Goto, Respond, Restore,
        updateIdleLocked, triggerExit
<1>1. CASE Timers
  <2>1. CASE TimerFires
    BY <2>1 DEF TimerFires
  <2>2. CASE IdleExit
    BY <2>2 DEF IdleExit
  <2>3. CASE onIdleFire
    <3>1. decided' \in BOOLEAN
      BY <2>3 DEF onIdleFire, Idle, IsIdle
    <3> QED
      BY <2>3, <3>1 DEF onIdleFire
  <2> QED
    BY <1>1, <2>1, <2>2, <2>3 DEF Timers
<1>2. CASE Teardown
  BY <1>2 DEF Teardown, AcceptFails, ProcessExits
<1>3. CASE Ended \/ UNCHANGED vars
  BY <1>3 DEF Ended, vars
<1>4. CASE ReceiveSignal
  BY <1>4 DEF ReceiveSignal, StopAll, Registered
<1>5. ASSUME NEW a \in Stoppers, StopSteps(a) PROVE TypeOK' /\ StopTarget'
  <2>1. CASE NextToStop(a)
    BY <2>1 DEF NextToStop
  <2>2. CASE ShutdownVM(a)
    BY <2>2 DEF ShutdownVM
  <2>3. CASE GraceSeesExit(a)
    BY <2>3 DEF GraceSeesExit
  <2>4. CASE GraceTimeout(a)
    BY <2>4 DEF GraceTimeout
  <2>5. CASE DoneClosed(a)
    BY <2>5 DEF DoneClosed, AfterStop
  <2>6. CASE StopTimeout(a)
    BY <2>6 DEF StopTimeout, AfterStop
  <2>7. CASE ExitAfterStop(a)
    <3>1. TypeOK'
      <4>1. CASE a = Sig
        BY <2>7, <4>1 DEF ExitAfterStop
      <4>2. CASE a # Sig
        BY <2>7, <4>2 DEF ExitAfterStop
      <4> QED
        BY <4>1, <4>2
    <3>2. StopTarget'
      BY <2>7 DEF ExitAfterStop
    <3> QED
      BY <3>1, <3>2
  <2> QED
    BY <1>5, <2>1, <2>2, <2>3, <2>4, <2>5, <2>6, <2>7 DEF StopSteps
<1>6. ASSUME NEW c \in Conns,
             Connect(c) \/ Accept(c) \/ BeginConn(c) \/ EndConn(c)
      PROVE  TypeOK' /\ StopTarget'
  BY <1>6 DEF Connect, Accept, BeginConn, EndConn
<1>7. ASSUME NEW c \in Conns, ReadRequest(c) PROVE TypeOK' /\ StopTarget'
  <2>1. CASE ReadEOF(c) \/ DispatchQuery(c) \/ DispatchStart(c)
    BY <2>1 DEF ReadEOF, DispatchQuery, DispatchStart
  <2>2. CASE DispatchStop(c)
    BY <2>2 DEF DispatchStop
  <2>3. CASE StopUnknownVM(c)
    BY <2>3 DEF StopUnknownVM
  <2>4. CASE DispatchShutdown(c)
    BY <2>4 DEF DispatchShutdown, StopAll, Registered
  <2> QED
    BY <1>7, <2>1, <2>2, <2>3, <2>4 DEF ReadRequest
<1>8. ASSUME NEW c \in Conns, LockStart(c) PROVE TypeOK' /\ StopTarget'
  BY <1>8 DEF LockStart
<1>9. ASSUME NEW c \in Conns, StartSteps(c) PROVE TypeOK' /\ StopTarget'
  <2>1. CASE NewVM(c)
    BY <2>1 DEF NewVM, Free
  <2>2. CASE NewVMFails(c)
    BY <2>2 DEF NewVMFails
  <2>3. CASE StartVM(c)
    BY <2>3 DEF StartVM
  <2>4. CASE StartVMFails(c)
    BY <2>4 DEF StartVMFails
  <2>5. CASE Register(c)
    BY <2>5 DEF Register
  <2>6. CASE StartResult(c) \/ UnlockStart(c)
    BY <2>6 DEF StartResult, UnlockStart
  <2> QED
    BY <1>9, <2>1, <2>2, <2>3, <2>4, <2>5, <2>6 DEF StartSteps
<1>10. ASSUME NEW c \in Conns, QEMUExits(c) PROVE TypeOK' /\ StopTarget'
  BY <1>10 DEF QEMUExits
<1>11. ASSUME NEW c \in Conns, Supervise(c) PROVE TypeOK' /\ StopTarget'
  BY <1>11 DEF Supervise, SuperviseWait, SuperviseCleanup, SuperviseDeregister,
     SuperviseClose, SuperviseStep
<1> QED
  BY <1>1, <1>2, <1>3, <1>4, <1>5, <1>6, <1>7, <1>8, <1>9, <1>10, <1>11 DEF Next

\* Which steps change the number of requests in flight, and how.
LEMMA CountInductive ==
    CountInv /\ [Next]_vars => InflightCounts' /\ inflight' \in Nat
<1> SUFFICES ASSUME CountInv, [Next]_vars
             PROVE  InflightCounts' /\ inflight' \in Nat
  OBVIOUS
<1> USE DaemonAssumption DEF CountInv
<1>1. ASSUME UNCHANGED inflight,
             \A c \in Conns : pc'[c] \in Counted <=> pc[c] \in Counted
      PROVE  InflightCounts' /\ inflight' \in Nat
  BY <1>1, CountFrame DEF TypeOK
<1>2. CASE Timers \/ Teardown \/ Ended \/ UNCHANGED vars
  BY <1>1, <1>2 DEF Timers, TimerFires, onIdleFire, IdleExit, Teardown,
     AcceptFails, ProcessExits, Ended, vars
<1>3. CASE ReceiveSignal
  BY <1>1, <1>3 DEF ReceiveSignal, StopAll, Goto, TypeOK, Stoppers
<1>4. ASSUME NEW a \in Stoppers, StopSteps(a)
      PROVE  InflightCounts' /\ inflight' \in Nat
  <2>1. CASE NextToStop(a) \/ ShutdownVM(a) \/ GraceSeesExit(a) \/ GraceTimeout(a)
    BY <1>1, <2>1 DEF NextToStop, ShutdownVM, GraceSeesExit, GraceTimeout, At,
       Goto, Counted, TypeOK, Stoppers
  <2>2. CASE DoneClosed(a) \/ StopTimeout(a) \/ ExitAfterStop(a)
    BY <1>1, <2>2 DEF DoneClosed, StopTimeout, ExitAfterStop, AfterStop, At,
       Goto, Counted, TypeOK, Stoppers
  <2> QED
    BY <1>4, <2>1, <2>2 DEF StopSteps
<1>5. ASSUME NEW c \in Conns, BeginConn(c)
      PROVE  InflightCounts' /\ inflight' \in Nat
  <2>1. /\ pc[c] \notin Counted /\ "reading" \in Counted
        /\ pc' = [pc EXCEPT ![c] = "reading"] /\ inflight' = inflight + 1
    BY <1>5 DEF BeginConn, At, Goto, Counted
  <2>2. inflight' \in Nat
    BY <2>1 DEF TypeOK
  <2> QED
    BY <2>1, <2>2, CountedGrows
<1>6. ASSUME NEW c \in Conns, EndConn(c)
      PROVE  InflightCounts' /\ inflight' \in Nat
  BY <1>6, CountedShrinks DEF EndConn, At, Goto, Counted
<1>7. ASSUME NEW c \in Conns, Connect(c) \/ Accept(c) \/ LockStart(c)
      PROVE  InflightCounts' /\ inflight' \in Nat
  BY <1>1, <1>7 DEF Connect, Accept, LockStart, At, Goto, Counted, TypeOK, Stoppers
<1>8. ASSUME NEW c \in Conns, ReadRequest(c)
      PROVE  InflightCounts' /\ inflight' \in Nat
  <2>1. UNCHANGED inflight /\ pc[c] = "reading"
    BY <1>8 DEF ReadRequest, ReadEOF, DispatchQuery, DispatchStart,
       DispatchStop, StopUnknownVM, DispatchShutdown, StopAll, At
  <2>2. \E l \in {"finish", "lock", "signal", "exit"} : pc' = [pc EXCEPT ![c] = l]
    BY <1>8 DEF ReadRequest, ReadEOF, DispatchQuery, DispatchStart,
       DispatchStop, StopUnknownVM, DispatchShutdown, StopAll, Goto
  <2> QED
    BY <1>1, <2>1, <2>2 DEF Counted, TypeOK, Stoppers
<1>9. ASSUME NEW c \in Conns, StartSteps(c)
      PROVE  InflightCounts' /\ inflight' \in Nat
  <2>1. UNCHANGED inflight /\ pc[c] \in Counted
    BY <1>9 DEF StartSteps, NewVM, NewVMFails, StartVM, StartVMFails, Register,
       StartResult, UnlockStart, At, Counted
  <2>2. \E l \in {"starting", "unlock", "register", "reply", "finish"} :
           pc' = [pc EXCEPT ![c] = l]
    BY <1>9 DEF StartSteps, NewVM, NewVMFails, StartVM, StartVMFails, Register,
       StartResult, UnlockStart, Goto
  <2> QED
    BY <1>1, <2>1, <2>2 DEF Counted, TypeOK, Stoppers
<1>10. ASSUME NEW c \in Conns, QEMUExits(c) \/ Supervise(c)
       PROVE  InflightCounts' /\ inflight' \in Nat
  BY <1>1, <1>10 DEF QEMUExits, Supervise, SuperviseWait, SuperviseCleanup,
     SuperviseDeregister, SuperviseClose, SuperviseStep
<1> QED
  BY <1>2, <1>3, <1>4, <1>5, <1>6, <1>7, <1>8, <1>9, <1>10 DEF Next

LEMMA CountInvariant == Spec => []CountInv
<1>1. Init => CountInv
  <2> SUFFICES ASSUME Init PROVE CountInv
    OBVIOUS
  <2>1. TypeOK /\ StopTarget
    BY DaemonAssumption DEF Init, TypeOK, StopTarget, NoVMs, PCs, Methods, Stoppers
  <2>2. CountedConns = {}
    BY DEF Init, CountedConns, Counted, Stoppers
  <2>3. Cardinality(CountedConns) = 0
    BY <2>2, FS_EmptySet
  <2> QED
    BY <2>1, <2>3 DEF Init, CountInv, InflightCounts, CountedConns
<1>2. CountInv /\ [Next]_vars => CountInv'
  BY TypeInductive, CountInductive DEF CountInv
<1> QED
  BY <1>1, <1>2, PTL DEF Spec

\* Every reachable state of the daemon is well typed; in particular inflight
\* never becomes negative.
THEOREM TypeCorrect == Spec => []TypeOK
BY CountInvariant, PTL DEF CountInv

\* s.inflight is the number of requests being served, whatever path they take
\* through handleConn.
THEOREM InflightIsExact == Spec => []InflightCounts
BY CountInvariant, PTL DEF CountInv

-----------------------------------------------------------------------------
(* The idle timer *)

LEMMA IdleFrame ==
    ASSUME TimerTracksIdle, UNCHANGED <<timer, vms, inflight>>
    PROVE  TimerTracksIdle'
BY DEF TimerTracksIdle, Idle, IsIdle

\* updateIdleLocked, called with the values just stored, establishes it.
LEMMA IdleUpdated ==
    ASSUME TypeOK, updateIdleLocked(vms', inflight')
    PROVE  TimerTracksIdle'
BY DEF updateIdleLocked, TimerTracksIdle, Idle, IsIdle, TypeOK

LEMMA IdleInductive == TypeOK /\ TimerTracksIdle /\ [Next]_vars => TimerTracksIdle'
<1> SUFFICES ASSUME TypeOK, TimerTracksIdle, [Next]_vars PROVE TimerTracksIdle'
  OBVIOUS
<1> USE DEF runVars, idleVars, startVars, stopVars, vmVars
<1>1. CASE TimerFires
  BY <1>1 DEF TimerFires, TimerTracksIdle, Idle, IsIdle
<1>2. CASE onIdleFire \/ IdleExit \/ Teardown \/ Ended \/ ReceiveSignal
             \/ UNCHANGED vars
  BY <1>2, IdleFrame DEF onIdleFire, IdleExit, Teardown, AcceptFails,
     ProcessExits, Ended, ReceiveSignal, StopAll, vars
<1>3. ASSUME NEW a \in Stoppers, StopSteps(a) PROVE TimerTracksIdle'
  BY <1>3, IdleFrame DEF StopSteps, NextToStop, ShutdownVM, GraceSeesExit,
     GraceTimeout, DoneClosed, StopTimeout, AfterStop, ExitAfterStop
<1>4. ASSUME NEW c \in Conns, BeginConn(c) \/ EndConn(c) PROVE TimerTracksIdle'
  BY <1>4, IdleUpdated DEF BeginConn, EndConn
<1>5. ASSUME NEW c \in Conns, Register(c) \/ SuperviseDeregister(c)
      PROVE  TimerTracksIdle'
  BY <1>5, IdleUpdated DEF Register, SuperviseDeregister, SuperviseStep
<1>6. ASSUME NEW c \in Conns,
             Connect(c) \/ Accept(c) \/ ReadRequest(c) \/ LockStart(c)
      PROVE  TimerTracksIdle'
  BY <1>6, IdleFrame DEF Connect, Accept, LockStart, ReadRequest, ReadEOF,
     DispatchQuery, DispatchStart, DispatchStop, StopUnknownVM,
     DispatchShutdown, StopAll
<1>7. ASSUME NEW c \in Conns, StartSteps(c) PROVE TimerTracksIdle'
  BY <1>5, <1>7, IdleFrame DEF StartSteps, NewVM, NewVMFails, StartVM,
     StartVMFails, StartResult, UnlockStart
<1>8. ASSUME NEW c \in Conns, QEMUExits(c) \/ Supervise(c) PROVE TimerTracksIdle'
  BY <1>5, <1>8, IdleFrame DEF QEMUExits, Supervise, SuperviseWait,
     SuperviseCleanup, SuperviseClose, SuperviseStep
<1> QED
  BY <1>1, <1>2, <1>3, <1>4, <1>6, <1>7, <1>8 DEF Next, Timers

\* The idle timer exists exactly while the daemon has neither VMs nor requests:
\* it is armed whenever the daemon could end and never while it must not.
THEOREM TimerIsExact == Spec => []TimerTracksIdle
<1>1. Init => TimerTracksIdle
  BY DEF Init, TimerTracksIdle, Idle, IsIdle, NoVMs
<1> QED
  BY <1>1, TypeCorrect, IdleInductive, PTL DEF Spec

-----------------------------------------------------------------------------
(* The output writer that starts swap under startMu *)

Swapped == {"newvm", "starting", "register", "reply"}
Holding == Swapped \cup {"unlock"}

\* startMu is held by the connection whose goroutine is between LockStart and
\* UnlockStart, so at most by one; that start found the log's writer and has
\* put it back before it unlocks.
WriterInv ==
    /\ \A c \in Conns : pc[c] \in Holding <=> startMu = c
    /\ \A c \in Conns : pc[c] \in Swapped => prevOutput[c] = None
    /\ \A c \in Conns : pc[c] = "unlock" => childOutput = None
    /\ WriterRestored

LEMMA WriterFrame ==
    ASSUME WriterInv, UNCHANGED startVars,
           \A c \in Conns : /\ pc'[c] \in Swapped <=> pc[c] \in Swapped
                            /\ pc'[c] = "unlock" <=> pc[c] = "unlock"
    PROVE  WriterInv'
BY DEF WriterInv, WriterRestored, startVars, Holding

LEMMA WriterInductive == TypeOK /\ WriterInv /\ [Next]_vars => WriterInv'
<1> SUFFICES ASSUME TypeOK, WriterInv, [Next]_vars PROVE WriterInv'
  OBVIOUS
<1> USE DaemonAssumption
<1>1. CASE Timers \/ Teardown \/ Ended \/ UNCHANGED vars
  BY <1>1, WriterFrame DEF Timers, TimerFires, onIdleFire, IdleExit, Teardown,
     AcceptFails, ProcessExits, Ended, vars, startVars
<1>2. CASE ReceiveSignal
  BY <1>2, WriterFrame DEF ReceiveSignal, StopAll, Goto, TypeOK, Stoppers
<1>3. ASSUME NEW a \in Stoppers, StopSteps(a) PROVE WriterInv'
  <2>1. UNCHANGED startVars /\ pc[a] \in {"exit", "signal", "grace", "waitdone"}
    BY <1>3 DEF StopSteps, NextToStop, ShutdownVM, GraceSeesExit, GraceTimeout,
       DoneClosed, StopTimeout, AfterStop, ExitAfterStop, At
  <2>2. \E l \in {"signal", "waitdone", "grace", "finish", "exit", "closed"} :
           pc' = [pc EXCEPT ![a] = l]
    BY <1>3 DEF StopSteps, NextToStop, ShutdownVM, GraceSeesExit, GraceTimeout,
       DoneClosed, StopTimeout, AfterStop, ExitAfterStop, Goto
  <2> QED
    BY <2>1, <2>2, WriterFrame DEF TypeOK, Stoppers, Swapped
<1>4. ASSUME NEW c \in Conns,
             \/ Connect(c) \/ Accept(c) \/ BeginConn(c) \/ EndConn(c)
             \/ ReadRequest(c)
      PROVE  WriterInv'
  <2>1. /\ UNCHANGED startVars
        /\ pc[c] \in {"new", "queued", "accepted", "reading", "finish"}
    BY <1>4 DEF Connect, Accept, BeginConn, EndConn, ReadRequest, ReadEOF,
       DispatchQuery, DispatchStart, DispatchStop, StopUnknownVM,
       DispatchShutdown, StopAll, At
  <2>2. \E l \in {"queued", "accepted", "reading", "closed", "finish", "lock",
                  "signal", "exit"} : pc' = [pc EXCEPT ![c] = l]
    BY <1>4 DEF Connect, Accept, BeginConn, EndConn, ReadRequest, ReadEOF,
       DispatchQuery, DispatchStart, DispatchStop, StopUnknownVM,
       DispatchShutdown, StopAll, Goto
  <2> QED
    BY <2>1, <2>2, WriterFrame DEF TypeOK, Stoppers, Swapped
<1>5. ASSUME NEW c \in Conns, LockStart(c) PROVE WriterInv'
  BY <1>5 DEF LockStart, At, Goto, WriterInv, WriterRestored, Holding, Swapped,
     TypeOK, Stoppers
<1>6. ASSUME NEW c \in Conns, NewVM(c) \/ StartVM(c) \/ Register(c)
      PROVE  WriterInv'
  <2>1. UNCHANGED startVars /\ pc[c] \in Swapped
    BY <1>6 DEF NewVM, StartVM, Register, At, Swapped
  <2>2. \E l \in Swapped : pc' = [pc EXCEPT ![c] = l]
    BY <1>6 DEF NewVM, StartVM, Register, Goto, Swapped
  <2> QED
    BY <2>1, <2>2, WriterFrame DEF TypeOK, Stoppers, Swapped
<1>7. ASSUME NEW c \in Conns, NewVMFails(c) \/ StartVMFails(c) \/ StartResult(c)
      PROVE  WriterInv'
  <2>1. /\ pc[c] \in Swapped /\ pc' = [pc EXCEPT ![c] = "unlock"]
        /\ childOutput' = prevOutput[c] /\ UNCHANGED <<startMu, prevOutput>>
    BY <1>7 DEF NewVMFails, StartVMFails, StartResult, At, Goto, Restore, Swapped
  <2> QED
    BY <2>1 DEF WriterInv, WriterRestored, Holding, Swapped, TypeOK, Stoppers
<1>8. ASSUME NEW c \in Conns, UnlockStart(c) PROVE WriterInv'
  BY <1>8 DEF UnlockStart, At, Goto, WriterInv, WriterRestored, Holding, Swapped,
     TypeOK, Stoppers
<1>9. ASSUME NEW c \in Conns, QEMUExits(c) \/ Supervise(c) PROVE WriterInv'
  BY <1>9, WriterFrame DEF QEMUExits, Supervise, SuperviseWait,
     SuperviseCleanup, SuperviseDeregister, SuperviseClose, SuperviseStep
<1> QED
  BY <1>1, <1>2, <1>3, <1>4, <1>5, <1>6, <1>7, <1>8, <1>9 DEF Next, StartSteps

\* The writer a start redirects to its client is the log's again as soon as
\* the start is over, on every path, however many clients start VMs at once.
THEOREM WriterIsRestored == Spec => []WriterRestored
<1>1. Init => WriterInv
  BY DaemonAssumption DEF Init, WriterInv, WriterRestored, Holding, Swapped, Stoppers
<1>2. WriterInv => WriterRestored
  BY DEF WriterInv
<1> QED
  BY <1>1, <1>2, TypeCorrect, WriterInductive, PTL DEF Spec

-----------------------------------------------------------------------------
(* The slots of the daemon's VMs *)

\* From NewVM's row to the ReleaseVMSlot in Cleanup.
UsesRow(c) == pc[c] \in {"starting", "register"} \/ sup[c] \in {"wait", "cleanup"}

RowInv ==
    /\ \A c \in Conns : UsesRow(c) => slotOf[c] \in Slots /\ rows[slotOf[c]] = c
    /\ \A c \in Conns, s \in Slots :
          rows[s] = c => UsesRow(c) /\ slotOf[c] = s
    /\ \A c \in Conns :
          sup[c] # "none" => pc[c] \in {"reply", "unlock", "finish", "closed"}
    /\ \A c \in Conns :
          sup[c] \in {"cleanup", "deregister", "close", "done"} => qemu[c] = "down"

\* Steps that leave VMs alone and do not move a goroutine into or out of the
\* part of handleStartVM that owns a row.
LEMMA RowFrame ==
    ASSUME RowInv, UNCHANGED <<rows, slotOf, sup, qemu>>,
           \A c \in Conns :
              \/ pc'[c] = pc[c]
              \/ /\ pc[c] \notin {"starting", "register"}
                 /\ pc'[c] \notin {"starting", "register"}
                 /\ pc[c] \in {"reply", "unlock", "finish", "closed"} =>
                       pc'[c] \in {"reply", "unlock", "finish", "closed"}
    PROVE  RowInv'
BY DEF RowInv, UsesRow

LEMMA RowInductive == TypeOK /\ RowInv /\ [Next]_vars => RowInv'
<1> SUFFICES ASSUME TypeOK, RowInv, [Next]_vars PROVE RowInv'
  OBVIOUS
<1> USE DaemonAssumption DEF vmVars
<1>1. CASE Timers \/ AcceptFails \/ Ended \/ UNCHANGED vars
  BY <1>1, RowFrame DEF Timers, TimerFires, onIdleFire, IdleExit, AcceptFails,
     Ended, vars
<1>2. CASE ProcessExits
  BY <1>2 DEF ProcessExits, RowInv, UsesRow, TypeOK
<1>3. CASE ReceiveSignal
  BY <1>3, RowFrame DEF ReceiveSignal, StopAll, Goto, TypeOK, Stoppers
<1>4. ASSUME NEW a \in Stoppers, StopSteps(a) PROVE RowInv'
  <2>1. /\ UNCHANGED <<rows, slotOf, sup, qemu>>
        /\ pc[a] \in {"exit", "signal", "grace", "waitdone"}
    BY <1>4 DEF StopSteps, NextToStop, ShutdownVM, GraceSeesExit, GraceTimeout,
       DoneClosed, StopTimeout, AfterStop, ExitAfterStop, At
  <2>2. \E l \in {"signal", "waitdone", "grace", "finish", "exit", "closed"} :
           pc' = [pc EXCEPT ![a] = l]
    BY <1>4 DEF StopSteps, NextToStop, ShutdownVM, GraceSeesExit, GraceTimeout,
       DoneClosed, StopTimeout, AfterStop, ExitAfterStop, Goto
  <2> QED
    BY <2>1, <2>2, RowFrame DEF TypeOK, Stoppers
<1>5. ASSUME NEW c \in Conns,
             \/ Connect(c) \/ Accept(c) \/ BeginConn(c) \/ EndConn(c)
             \/ ReadRequest(c) \/ LockStart(c)
      PROVE  RowInv'
  <2>1. /\ UNCHANGED <<rows, slotOf, sup, qemu>>
        /\ \/ pc[c] \in {"new", "queued", "accepted", "reading", "lock"}
           \/ pc[c] = "finish" /\ pc' = [pc EXCEPT ![c] = "closed"]
    BY <1>5 DEF Connect, Accept, BeginConn, EndConn, ReadRequest, ReadEOF,
       DispatchQuery, DispatchStart, DispatchStop, StopUnknownVM,
       DispatchShutdown, StopAll, LockStart, At, Goto
  <2>2. \E l \in {"queued", "accepted", "reading", "closed", "finish", "lock",
                  "signal", "exit", "newvm"} : pc' = [pc EXCEPT ![c] = l]
    BY <1>5 DEF Connect, Accept, BeginConn, EndConn, ReadRequest, ReadEOF,
       DispatchQuery, DispatchStart, DispatchStop, StopUnknownVM,
       DispatchShutdown, StopAll, LockStart, Goto
  <2> QED
    BY <2>1, <2>2, RowFrame DEF TypeOK, Stoppers
<1>6. ASSUME NEW c \in Conns, NewVM(c) PROVE RowInv'
  <2>1. PICK s \in Free : /\ rows' = [rows EXCEPT ![s] = c]
                          /\ slotOf' = [slotOf EXCEPT ![c] = s]
    BY <1>6 DEF NewVM
  <2>2. s \in Slots /\ rows[s] = None
    BY DEF Free
  <2>3. /\ pc[c] = "newvm" /\ pc' = [pc EXCEPT ![c] = "starting"]
        /\ UNCHANGED <<sup, qemu>>
    BY <1>6 DEF NewVM, At, Goto
  <2>4. sup[c] = "none" /\ ~UsesRow(c)
    BY <2>3 DEF RowInv, UsesRow
  <2>5. \A t \in Slots : rows[t] # c
    BY <2>4 DEF RowInv
  <2>6. /\ UsesRow(c)'
        /\ \A d \in Conns : d # c => (UsesRow(d)' <=> UsesRow(d))
    BY <2>3 DEF UsesRow, TypeOK, Stoppers
  <2>7. /\ rows'[s] = c /\ slotOf'[c] = s
        /\ \A t \in Slots : t # s => rows'[t] = rows[t]
        /\ \A d \in Conns : d # c => slotOf'[d] = slotOf[d]
    BY <2>1, <2>2 DEF TypeOK
  <2>8. \A d \in Conns : UsesRow(d)' => slotOf'[d] \in Slots /\ rows'[slotOf'[d]] = d
    BY <2>2, <2>6, <2>7 DEF RowInv
  <2>9. \A d \in Conns, t \in Slots : rows'[t] = d => UsesRow(d)' /\ slotOf'[d] = t
    BY <2>2, <2>5, <2>6, <2>7 DEF RowInv
  <2>10. \A d \in Conns :
            sup'[d] # "none" => pc'[d] \in {"reply", "unlock", "finish", "closed"}
    BY <2>3, <2>4 DEF RowInv, TypeOK, Stoppers
  <2> QED
    BY <2>3, <2>8, <2>9, <2>10 DEF RowInv
<1>7. ASSUME NEW c \in Conns, StartVM(c) \/ Register(c) PROVE RowInv'
  <2>1. /\ UNCHANGED <<rows, slotOf>>
        /\ pc[c] \in {"starting", "register"}
        /\ \/ /\ pc' = [pc EXCEPT ![c] = "register"] /\ UNCHANGED sup
              /\ qemu' = [qemu EXCEPT ![c] = "up"]
           \/ /\ pc' = [pc EXCEPT ![c] = "reply"] /\ UNCHANGED qemu
              /\ sup' = [sup EXCEPT ![c] = "wait"]
    BY <1>7 DEF StartVM, Register, At, Goto
  <2> QED
    BY <2>1 DEF RowInv, UsesRow, TypeOK, Stoppers
<1>8. ASSUME NEW c \in Conns, StartVMFails(c) PROVE RowInv'
  <2>1. /\ UNCHANGED <<slotOf, qemu, sup>> /\ pc[c] = "starting"
        /\ pc' = [pc EXCEPT ![c] = "unlock"]
        /\ rows' = [rows EXCEPT ![slotOf[c]] = None]
    BY <1>8 DEF StartVMFails, At, Goto
  <2> QED
    BY <2>1 DEF RowInv, UsesRow, TypeOK, Stoppers
<1>9. ASSUME NEW c \in Conns, NewVMFails(c) \/ StartResult(c) \/ UnlockStart(c)
      PROVE  RowInv'
  BY <1>9, RowFrame DEF NewVMFails, StartResult, UnlockStart, At, Goto, TypeOK,
     Stoppers
<1>10. ASSUME NEW c \in Conns, QEMUExits(c) PROVE RowInv'
  BY <1>10 DEF QEMUExits, RowInv, UsesRow, TypeOK
<1>11. ASSUME NEW c \in Conns, Supervise(c) PROVE RowInv'
  <2>1. CASE SuperviseCleanup(c)
    BY <2>1 DEF SuperviseCleanup, SuperviseStep, RowInv, UsesRow, TypeOK
  <2>2. CASE SuperviseWait(c) \/ SuperviseDeregister(c) \/ SuperviseClose(c)
    BY <2>2 DEF SuperviseWait, SuperviseDeregister, SuperviseClose,
       SuperviseStep, RowInv, UsesRow, TypeOK
  <2> QED
    BY <1>11, <2>1, <2>2 DEF Supervise
<1> QED
  BY <1>1, <1>2, <1>3, <1>4, <1>5, <1>6, <1>7, <1>8, <1>9, <1>10, <1>11
  DEF Next, StartSteps, Teardown

LEMMA RowInvariant == Spec => []RowInv
<1>1. Init => RowInv
  BY DaemonAssumption DEF Init, RowInv, UsesRow, NoVMs, Stoppers
<1> QED
  BY <1>1, TypeCorrect, RowInductive, PTL DEF Spec

\* No two VMs the daemon supervises have the same slot, hence address and
\* ports, although slots are released and taken again all the time.
THEOREM SlotsAreNotShared == Spec => []SlotsNotShared
<1>1. RowInv => SlotsNotShared
  BY DEF RowInv, UsesRow, SlotsNotShared
<1> QED
  BY <1>1, RowInvariant, PTL

-----------------------------------------------------------------------------
(* What a stop-vm result tells the client *)

ReplyInv ==
    /\ \A c \in Conns :
          reply[c] # "none" => pc[c] \in {"unlock", "finish", "closed"}
    /\ \A c \in Conns : pc[c] \in Holding \cup {"lock"} => method[c] = "start-vm"
    /\ \A c \in Conns : pc[c] = "exit" => method[c] # "stop-vm"
    /\ \A c \in Conns : method[c] = "stop-vm" /\ reply[c] = "result" =>
                           cur[c] \in Conns /\ sup[cur[c]] = "done"

\* Steps of other goroutines: a finished supervise stays finished.
LEMMA ReplyFrame ==
    ASSUME ReplyInv, UNCHANGED <<reply, method, cur>>,
           \A c \in Conns : pc'[c] = pc[c],
           \A c \in Conns : sup[c] = "done" => sup'[c] = "done"
    PROVE  ReplyInv'
BY DEF ReplyInv

LEMMA ReplyInductive ==
    TypeOK /\ StopTarget /\ RowInv /\ ReplyInv /\ [Next]_vars => ReplyInv'
<1> SUFFICES ASSUME TypeOK, StopTarget, RowInv, ReplyInv, [Next]_vars
             PROVE  ReplyInv'
  OBVIOUS
<1> USE DaemonAssumption DEF runVars, stopVars, vmVars
<1>1. CASE Timers \/ Teardown \/ Ended \/ UNCHANGED vars
  BY <1>1, ReplyFrame DEF Timers, TimerFires, onIdleFire, IdleExit, Teardown,
     AcceptFails, ProcessExits, Ended, vars
<1>2. CASE ReceiveSignal
  BY <1>2, ReplyFrame DEF ReceiveSignal, StopAll, Goto, TypeOK, Stoppers
<1>3. ASSUME NEW a \in Stoppers, StopSteps(a) PROVE ReplyInv'
  <2> USE DEF ReplyInv, Holding, Swapped, At, Goto, Respond, TypeOK, Stoppers
  <2>1. CASE NextToStop(a)
    BY <2>1 DEF NextToStop
  <2>2. CASE ShutdownVM(a) \/ GraceSeesExit(a) \/ GraceTimeout(a)
    <3>1. /\ UNCHANGED <<reply, method, cur, sup>>
          /\ pc[a] \in {"signal", "grace"}
          /\ \E l \in {"waitdone", "grace"} : pc' = [pc EXCEPT ![a] = l]
      BY <2>2 DEF ShutdownVM, GraceSeesExit, GraceTimeout
    <3> QED
      BY <3>1
  <2>3. CASE DoneClosed(a) \/ StopTimeout(a)
    <3>1. /\ UNCHANGED <<method, cur, sup>> /\ pc[a] = "waitdone"
          /\ cur[a] \in Conns
      BY <2>3 DEF DoneClosed, StopTimeout, AfterStop, StopTarget
    <3>2. CASE a # Sig /\ method[a] = "stop-vm"
      <4>1. /\ pc' = [pc EXCEPT ![a] = "finish"]
            /\ \/ reply' = [reply EXCEPT ![a] = "error"]
               \/ reply' = [reply EXCEPT ![a] = "result"] /\ sup[cur[a]] = "done"
        BY <2>3, <3>2 DEF DoneClosed, StopTimeout, AfterStop
      <4> QED
        BY <3>1, <3>2, <4>1
    <3>3. CASE ~(a # Sig /\ method[a] = "stop-vm")
      <4>1. pc' = [pc EXCEPT ![a] = "exit"] /\ UNCHANGED reply
        BY <2>3, <3>3 DEF DoneClosed, StopTimeout, AfterStop
      <4> QED
        BY <3>1, <3>3, <4>1
    <3> QED
      BY <3>2, <3>3
  <2>4. CASE ExitAfterStop(a)
    BY <2>4 DEF ExitAfterStop
  <2> QED
    BY <1>3, <2>1, <2>2, <2>3, <2>4 DEF StopSteps
<1>4. ASSUME NEW c \in Conns,
             Connect(c) \/ Accept(c) \/ BeginConn(c) \/ EndConn(c)
      PROVE  ReplyInv'
  <2>1. /\ UNCHANGED <<reply, method, cur, sup>>
        /\ \/ pc[c] \in {"new", "queued", "accepted"}
           \/ pc[c] = "finish" /\ pc' = [pc EXCEPT ![c] = "closed"]
        /\ \E l \in {"queued", "accepted", "reading", "closed"} :
              pc' = [pc EXCEPT ![c] = l]
    BY <1>4 DEF Connect, Accept, BeginConn, EndConn, At, Goto
  <2> QED
    BY <2>1 DEF ReplyInv, Holding, Swapped, TypeOK, Stoppers
<1>5. ASSUME NEW c \in Conns, ReadRequest(c) PROVE ReplyInv'
  <2> USE DEF ReplyInv, Holding, Swapped, At, Goto, Respond, TypeOK, Stoppers
  <2>1. CASE ReadEOF(c)
    BY <2>1 DEF ReadEOF
  <2>2. CASE DispatchQuery(c)
    BY <2>2 DEF DispatchQuery
  <2>3. CASE DispatchStart(c)
    BY <2>3 DEF DispatchStart
  <2>4. CASE DispatchStop(c)
    BY <2>4 DEF DispatchStop
  <2>5. CASE StopUnknownVM(c)
    BY <2>5 DEF StopUnknownVM
  <2>6. CASE DispatchShutdown(c)
    BY <2>6 DEF DispatchShutdown, StopAll
  <2> QED
    BY <1>5, <2>1, <2>2, <2>3, <2>4, <2>5, <2>6 DEF ReadRequest
<1>6. ASSUME NEW c \in Conns, LockStart(c) \/ NewVM(c) \/ StartVM(c)
      PROVE  ReplyInv'
  <2>1. /\ UNCHANGED <<reply, method, cur, sup>>
        /\ pc[c] \in {"lock", "newvm", "starting"}
        /\ \E l \in {"newvm", "starting", "register"} : pc' = [pc EXCEPT ![c] = l]
    BY <1>6 DEF LockStart, NewVM, StartVM, At, Goto
  <2> QED
    BY <2>1 DEF ReplyInv, Holding, Swapped, TypeOK, Stoppers
<1>7. ASSUME NEW c \in Conns, Register(c) PROVE ReplyInv'
  <2>1. /\ UNCHANGED <<reply, method, cur>> /\ pc[c] = "register"
        /\ pc' = [pc EXCEPT ![c] = "reply"] /\ sup' = [sup EXCEPT ![c] = "wait"]
    BY <1>7 DEF Register, At, Goto
  <2>2. \A d \in Conns : sup[d] = "done" => d # c
    BY <2>1 DEF RowInv
  <2> QED
    BY <2>1, <2>2 DEF ReplyInv, Holding, Swapped, TypeOK, Stoppers
<1>8. ASSUME NEW c \in Conns, NewVMFails(c) \/ StartVMFails(c) \/ StartResult(c)
      PROVE  ReplyInv'
  <2>1. /\ UNCHANGED <<method, cur, sup>> /\ pc[c] \in Holding
        /\ pc' = [pc EXCEPT ![c] = "unlock"]
        /\ \E r \in {"error", "result"} : reply' = [reply EXCEPT ![c] = r]
    BY <1>8 DEF NewVMFails, StartVMFails, StartResult, At, Goto, Respond,
       Holding, Swapped
  <2> QED
    BY <2>1 DEF ReplyInv, Holding, Swapped, TypeOK, Stoppers
<1>9. ASSUME NEW c \in Conns, UnlockStart(c) PROVE ReplyInv'
  BY <1>9 DEF UnlockStart, At, Goto, ReplyInv, Holding, Swapped, TypeOK, Stoppers
<1>10. ASSUME NEW c \in Conns, QEMUExits(c) \/ Supervise(c) PROVE ReplyInv'
  <2>1. /\ UNCHANGED <<reply, method, cur, pc>>
        /\ \A d \in Conns : sup[d] = "done" => sup'[d] = "done"
    BY <1>10 DEF QEMUExits, Supervise, SuperviseWait, SuperviseCleanup,
       SuperviseDeregister, SuperviseClose, SuperviseStep, TypeOK
  <2> QED
    BY <2>1, ReplyFrame
<1> QED
  BY <1>1, <1>2, <1>3, <1>4, <1>5, <1>6, <1>7, <1>8, <1>9, <1>10
  DEF Next, StartSteps

\* A client that is told its VM stopped can rely on it: QEMU has exited, its
\* slot has been released and the supervising goroutine is done with it.
THEOREM StoppedVMIsGone == Spec => []StopResultMeansGone
<1>1. Init => ReplyInv
  BY DaemonAssumption DEF Init, ReplyInv, Holding, Swapped, Stoppers
<1>2. RowInv /\ ReplyInv => StopResultMeansGone
  BY DEF RowInv, UsesRow, ReplyInv, StopResultMeansGone
<1>3. CountInv => TypeOK /\ StopTarget
  BY DEF CountInv
<1> QED
  BY <1>1, <1>2, <1>3, CountInvariant, RowInvariant, ReplyInductive, PTL DEF Spec

-----------------------------------------------------------------------------
(* How a supervised VM can be missing from s.vms *)

LEMMA LostFrame ==
    ASSUME LostOnlyToSlotReuse, UNCHANGED <<vms, slotOf>>,
           \A c \in Conns : /\ sup'[c] = "wait" => sup[c] = "wait"
                            /\ sup[c] \in {"close", "done"} =>
                                  sup'[c] \in {"close", "done"}
    PROVE  LostOnlyToSlotReuse'
BY DEF LostOnlyToSlotReuse

LEMMA LostInductive ==
    TypeOK /\ RowInv /\ LostOnlyToSlotReuse /\ [Next]_vars => LostOnlyToSlotReuse'
<1> SUFFICES ASSUME TypeOK, RowInv, LostOnlyToSlotReuse, [Next]_vars
             PROVE  LostOnlyToSlotReuse'
  OBVIOUS
<1> USE DaemonAssumption DEF vmVars
<1>1. CASE UNCHANGED vmVars
  BY <1>1, LostFrame
<1>2. CASE \/ Timers \/ AcceptFails \/ Ended \/ UNCHANGED vars \/ ReceiveSignal
           \/ \E a \in Stoppers : StopSteps(a)
  BY <1>1, <1>2 DEF Timers, TimerFires, onIdleFire, IdleExit, AcceptFails, Ended,
     vars, ReceiveSignal, StopAll, StopSteps, NextToStop, ShutdownVM,
     GraceSeesExit, GraceTimeout, DoneClosed, StopTimeout, AfterStop,
     ExitAfterStop
<1>3. CASE \E c \in Conns : \/ Connect(c) \/ Accept(c) \/ BeginConn(c)
                            \/ EndConn(c) \/ ReadRequest(c) \/ LockStart(c)
  BY <1>1, <1>3 DEF Connect, Accept, BeginConn, EndConn, ReadRequest, ReadEOF,
     DispatchQuery, DispatchStart, DispatchStop, StopUnknownVM,
     DispatchShutdown, StopAll, LockStart
<1>4. CASE \/ ProcessExits
           \/ \E c \in Conns : \/ NewVMFails(c) \/ StartVM(c) \/ StartVMFails(c)
                               \/ StartResult(c) \/ UnlockStart(c) \/ QEMUExits(c)
  <2>1. UNCHANGED <<vms, slotOf, sup>>
    BY <1>4 DEF ProcessExits, NewVMFails, StartVM, StartVMFails, StartResult,
       UnlockStart, QEMUExits
  <2> QED
    BY <2>1, LostFrame
<1>5. ASSUME NEW c \in Conns, NewVM(c) PROVE LostOnlyToSlotReuse'
  <2>1. /\ sup[c] = "none"
        /\ UNCHANGED <<vms, sup>>
        /\ \A d \in Conns : d # c => slotOf'[d] = slotOf[d]
    BY <1>5 DEF NewVM, At, RowInv, TypeOK
  <2> QED
    BY <2>1 DEF LostOnlyToSlotReuse
<1>6. ASSUME NEW c \in Conns, Register(c) PROVE LostOnlyToSlotReuse'
  <2>1. /\ vms' = [vms EXCEPT ![slotOf[c]] = c] /\ UNCHANGED slotOf
        /\ sup' = [sup EXCEPT ![c] = "wait"] /\ UsesRow(c)
    BY <1>6 DEF Register, At, UsesRow
  <2>2. slotOf[c] \in Slots /\ rows[slotOf[c]] = c /\ sup[c] = "none"
    BY <1>6, <2>1 DEF RowInv, Register, At
  <2>3. \A d \in Conns : sup[d] = "wait" => slotOf[d] \in Slots /\ slotOf[d] # slotOf[c]
    BY <2>2 DEF RowInv, UsesRow
  <2>4. /\ vms'[slotOf[c]] = c
        /\ \A t \in Slots : t # slotOf[c] => vms'[t] = vms[t]
    BY <2>1, <2>2 DEF TypeOK
  <2>5. sup'[c] = "wait" /\ \A d \in Conns : d # c => sup'[d] = sup[d]
    BY <2>1 DEF TypeOK
  <2>6. \A d \in Conns : sup'[d] = "wait" /\ vms'[slotOf[d]] # d =>
           d # c /\ sup[d] = "wait" /\ vms[slotOf[d]] # d
    BY <2>3, <2>4, <2>5
  <2> QED
    BY <2>1, <2>2, <2>5, <2>6 DEF LostOnlyToSlotReuse
<1>7. ASSUME NEW c \in Conns, SuperviseDeregister(c) PROVE LostOnlyToSlotReuse'
  <2>1. /\ vms' = [vms EXCEPT ![slotOf[c]] = None] /\ UNCHANGED slotOf
        /\ sup[c] = "deregister" /\ sup' = [sup EXCEPT ![c] = "close"]
    BY <1>7 DEF SuperviseDeregister, SuperviseStep
  <2>2. sup'[c] = "close" /\ \A d \in Conns : d # c => sup'[d] = sup[d]
    BY <2>1 DEF TypeOK
  <2>3. \A d \in Conns : sup'[d] = "wait" => d # c /\ slotOf[d] \in Slots
    BY <2>2 DEF RowInv, UsesRow
  <2>4. \A t \in Slots : t # slotOf[c] => vms'[t] = vms[t]
    BY <2>1 DEF TypeOK
  <2> QED
    BY <2>1, <2>2, <2>3, <2>4 DEF LostOnlyToSlotReuse
<1>8. ASSUME NEW c \in Conns,
             SuperviseWait(c) \/ SuperviseCleanup(c) \/ SuperviseClose(c)
      PROVE  LostOnlyToSlotReuse'
  <2>1. /\ UNCHANGED <<vms, slotOf>>
        /\ \/ sup[c] \in {"wait", "cleanup"}
                /\ \E l \in {"cleanup", "deregister"} : sup' = [sup EXCEPT ![c] = l]
           \/ sup[c] = "close" /\ sup' = [sup EXCEPT ![c] = "done"]
    BY <1>8 DEF SuperviseWait, SuperviseCleanup, SuperviseClose, SuperviseStep
  <2> QED
    BY <2>1, LostFrame DEF TypeOK
<1> QED
  BY <1>2, <1>3, <1>4, <1>5, <1>6, <1>7, <1>8
  DEF Next, StartSteps, Supervise, Teardown

\* The only way for a VM that is being supervised to be missing from s.vms is
\* that its slot was used before and the earlier VM's supervise, having
\* released the slot first, deregistered the newcomer.
THEOREM OnlySlotReuseLosesVMs == Spec => []LostOnlyToSlotReuse
<1>1. Init => LostOnlyToSlotReuse
  BY DEF Init, LostOnlyToSlotReuse
<1> QED
  BY <1>1, TypeCorrect, RowInvariant, LostInductive, PTL DEF Spec

=============================================================================
