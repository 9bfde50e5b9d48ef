------------------------------ MODULE SlotTable ------------------------------
(***************************************************************************)
(* The machine-wide table of VM slots (internal/vm/globalstate.go) and the *)
(* life of a VM that holds one (internal/vm/vm.go).                        *)
(*                                                                         *)
(* Every homura process of the machine opens the same SQLite file.  Each   *)
(* statement or transaction is atomic; what happens between two of them    *)
(* interleaves freely with other processes, any of which may be killed at  *)
(* any point.  A VM instance v is one call of NewVM made by the process    *)
(* Owner[v] (the daemon, or a foreground `homura vm`).  A row of the table *)
(* is identified with the instance that inserted it: its vm_pid is         *)
(* Owner[v] and its state directory (the parent of passt_socket_path) is   *)
(* the one v created, which no other instance shares (os.MkdirTemp).       *)
(***************************************************************************)
EXTENDS Integers, FiniteSets

CONSTANTS
    Procs,       \* homura processes that own VMs; a pid is one incarnation
    Daemons,     \* those that run the daemon (children get Pdeathsig)
    VMs,         \* VM instances
    Owner,       \* the process that called NewVM for each instance
    Readers,     \* other commands that start by calling CleanupStaleSlots
    MaxVMSlots,  \* 254 in the code
    NoVM,        \* "no row"
    Faults,      \* which environment faults may happen
    Serialised   \* TRUE: no two cleanups that found something overlap

ASSUME SlotTableAssumption ==
    /\ Daemons \subseteq Procs
    /\ Owner \in [VMs -> Procs]
    /\ Readers \cap VMs = {}
    /\ MaxVMSlots \in Nat
    /\ NoVM \notin VMs
    /\ Faults \subseteq {"removeall", "sql", "pidreuse"}
    /\ Serialised \in BOOLEAN

Slots  == 1..MaxVMSlots
Actors == VMs \cup Readers
NoRows == [s \in Slots |-> NoVM]

BasePort     == 10000
PortsPerSlot == 10
PortStart(s) == BasePort + (s - 1) * PortsPerSlot
\* Mutant: the range reaches into the next slot's.
PortEndInclusive(s) == PortStart(s) + PortsPerSlot
PortEnd(s)   == PortStart(s) + PortsPerSlot - 1

VARIABLES
    rows,     \* vm_slots: slot -> instance whose row it is, or NoVM
    qemuPid,  \* column qemu_pid: instance whose QEMU is recorded, or NoVM
    console,  \* column console_socket: likewise ("" is NoVM)
    alive,    \* processes that are still running
    reused,   \* dead processes whose pid now belongs to an unrelated process
    pc,       \* where NewVM / Start / Wait / Cleanup of each instance stands
    slot,     \* VM.SlotNumber (0 until allocated)
    res,      \* what each instance currently has on the host
    cl,       \* progress of the CleanupStaleSlots an actor is running
    found     \* the stale rows that cleanup saw: slot -> instance, or NoVM

vars == <<rows, qemuPid, console, alive, reused, pc, slot, res, cl, found>>
dbVars == <<rows, qemuPid, console>>
procVars == <<alive, reused>>

Resources == {"dir", "fs", "token", "passt", "qemu"}
PCs == {"new", "peek", "fsd", "alloc", "created", "passt", "launched", "qpid",
        "running", "cleanup", "release", "rmdir", "done", "failed"}

\* From AllocateVMSlot's COMMIT to ReleaseVMSlot: the instance uses the slot's
\* address and ports.
HoldsSlot == {"created", "passt", "launched", "qpid", "running", "cleanup",
              "release"}
\* From MkdirTemp to the RemoveAll of the instance itself.
UsesDir == HoldsSlot \cup {"peek", "fsd", "alloc", "rmdir"}

TypeOK ==
    /\ rows \in [Slots -> VMs \cup {NoVM}]
    /\ qemuPid \in [Slots -> VMs \cup {NoVM}]
    /\ console \in [Slots -> VMs \cup {NoVM}]
    /\ alive \subseteq Procs
    /\ reused \subseteq Procs
    /\ pc \in [VMs -> PCs]
    /\ slot \in [VMs -> Slots \cup {0}]
    /\ res \in [VMs -> SUBSET Resources]
    /\ cl \in [Actors -> {"idle", "scanned", "removed", "clean"}]
    /\ found \in [Actors -> [Slots -> VMs \cup {NoVM}]]

Init ==
    /\ rows = NoRows
    /\ qemuPid = NoRows
    /\ console = NoRows
    /\ alive = Procs
    /\ reused = {}
    /\ pc = [v \in VMs |-> "new"]
    /\ slot = [v \in VMs |-> 0]
    /\ res = [v \in VMs |-> {}]
    /\ cl = [a \in Actors |-> "idle"]
    /\ found = [a \in Actors |-> NoRows]

-----------------------------------------------------------------------------
(* Processes *)

\* Mutant: only processes like the caller's own are seen.
IsPIDAliveForDaemons(p) == p \in Daemons /\ p \in alive \cup reused
isPIDAlive(p) == p \in alive \cup reused

\* An instance takes a step only while the process it lives in runs.
At(v, l) == pc[v] = l /\ Owner[v] \in alive

OwnedBy(a, p) == a \in VMs /\ Owner[a] = p

\* The owner ends without running Cleanup: SIGKILL, a crash, a signal before
\* Wait installs its handler, or the daemon returning from Run.  A daemon's
\* children die with it (DaemonChildProcAttr); a foreground VM's do not.  What
\* a cleanup of the process had found is lost with it.
ProcessDies(p) ==
    /\ p \in alive
    /\ alive' = alive \ {p}
    /\ res' = [v \in VMs |->
                 IF Owner[v] = p /\ p \in Daemons
                   THEN res[v] \ {"fs", "passt", "qemu"} ELSE res[v]]
    /\ cl' = [a \in Actors |-> IF OwnedBy(a, p) THEN "idle" ELSE cl[a]]
    /\ found' = [a \in Actors |-> IF OwnedBy(a, p) THEN NoRows ELSE found[a]]
    /\ UNCHANGED <<dbVars, reused, pc, slot>>

\* The kernel hands a dead owner's pid to some unrelated process.
PidReused(p) ==
    /\ "pidreuse" \in Faults
    /\ p \notin alive \cup reused
    /\ reused' = reused \cup {p}
    /\ UNCHANGED <<dbVars, alive, pc, slot, res, cl, found>>

\* QEMU exits: guest poweroff, a signal, a crash.
QEMUExits(v) ==
    /\ "qemu" \in res[v]
    /\ res' = [res EXCEPT ![v] = @ \ {"qemu"}]
    /\ UNCHANGED <<dbVars, procVars, pc, slot, cl, found>>

-----------------------------------------------------------------------------
(* CleanupStaleSlots, which every operation on the table runs first.       *)

CanClean(a) ==
    \/ a \in Readers
    \/ a \in VMs /\ (At(a, "peek") \/ At(a, "alloc"))

\* Mutant: the liveness test is left out.
StaleAnyRow(s) == rows[s] # NoVM
Stale(s) == rows[s] # NoVM /\ ~isPIDAlive(Owner[rows[s]])

\* SELECT all rows and test each vm_pid.
CleanupScan(a) ==
    /\ CanClean(a)
    /\ cl[a] = "idle"
    /\ Serialised => \A b \in Actors : found[b] = NoRows
    /\ found' = [found EXCEPT
                   ![a] = [s \in Slots |-> IF Stale(s) THEN rows[s] ELSE NoVM]]
    /\ cl' = [cl EXCEPT ![a] = "scanned"]
    /\ UNCHANGED <<dbVars, procVars, pc, slot, res>>

\* Mutant: only rows are dropped.
CleanupSkipsDirs(a) ==
    /\ CanClean(a)
    /\ cl[a] = "scanned"
    /\ cl' = [cl EXCEPT ![a] = "removed"]
    /\ UNCHANGED <<dbVars, procVars, pc, slot, res, found>>

\* os.RemoveAll on the state directory of each stale row; a failure is logged
\* and the loop goes on.
CleanupRemoveDirs(a) ==
    /\ CanClean(a)
    /\ cl[a] = "scanned"
    /\ \E kept \in SUBSET VMs :
          /\ "removeall" \notin Faults => kept = {}
          /\ res' = [v \in VMs |->
                       IF v \notin kept /\ \E s \in Slots : found[a][s] = v
                         THEN res[v] \ {"dir"} ELSE res[v]]
    /\ cl' = [cl EXCEPT ![a] = "removed"]
    /\ UNCHANGED <<dbVars, procVars, pc, slot, found>>

\* Mutant: the transaction is never committed.
CleanupRollsBack(a) ==
    /\ CanClean(a)
    /\ cl[a] = "removed"
    /\ found' = [found EXCEPT ![a] = NoRows]
    /\ cl' = [cl EXCEPT ![a] = "clean"]
    /\ UNCHANGED <<dbVars, procVars, pc, slot, res>>

\* One transaction deletes, by slot number, the rows the scan called stale.
CleanupDelete(a) ==
    /\ CanClean(a)
    /\ cl[a] = "removed"
    /\ rows' = [s \in Slots |-> IF found[a][s] # NoVM THEN NoVM ELSE rows[s]]
    /\ qemuPid' = [s \in Slots |->
                     IF found[a][s] # NoVM THEN NoVM ELSE qemuPid[s]]
    /\ console' = [s \in Slots |->
                     IF found[a][s] # NoVM THEN NoVM ELSE console[s]]
    /\ found' = [found EXCEPT ![a] = NoRows]
    /\ cl' = [cl EXCEPT ![a] = "clean"]
    /\ UNCHANGED <<procVars, pc, slot, res>>

\* FindVMByWorkDir, FindVMsByWorkDir, FindVMBySlot, ListAllVMs,
\* FindVMByNinePPID: a query after the cleanup; the table is not changed.
Query(r) ==
    /\ cl[r] = "clean"
    /\ cl' = [cl EXCEPT ![r] = "idle"]
    /\ UNCHANGED <<dbVars, procVars, pc, slot, res, found>>

\* The SELECT or the DELETE transaction fails: the caller returns the error
\* and nothing was deleted.
QueryFails(r) ==
    /\ "sql" \in Faults
    /\ cl[r] \in {"idle", "removed", "clean"}
    /\ found' = [found EXCEPT ![r] = NoRows]
    /\ cl' = [cl EXCEPT ![r] = "idle"]
    /\ UNCHANGED <<dbVars, procVars, pc, slot, res>>

-----------------------------------------------------------------------------
(* NewVM *)

\* What an instance may be left with after os.RemoveAll(stateDir).
RemoveAll(r) == {r \ {"dir"}} \cup (IF "removeall" \in Faults THEN {r} ELSE {})

\* cleanupOnError and its shorter forms, with what the instance has by then:
\* kill the share daemon, remove the state directory, return the error.  The
\* token file is left behind.
NewVMFails(v, had) ==
    /\ \E r \in RemoveAll(had \ {"fs"}) : res' = [res EXCEPT ![v] = r]
    /\ pc' = [pc EXCEPT ![v] = "failed"]
    /\ cl' = [cl EXCEPT ![v] = "idle"]
    /\ found' = [found EXCEPT ![v] = NoRows]
    /\ UNCHANGED <<dbVars, procVars, slot>>

\* The daemon runs NewVM and Start under startMu, one instance at a time.
Starting == {"peek", "fsd", "alloc", "created", "passt", "launched", "qpid"}
MayStart(v) ==
    Owner[v] \in Daemons =>
        \A w \in VMs : Owner[w] = Owner[v] => pc[w] \notin Starting

\* MkdirTemp and the checks on space, path length and ssh keys after it.
MakeStateDir(v) ==
    /\ At(v, "new")
    /\ MayStart(v)
    /\ res' = [res EXCEPT ![v] = {"dir"}]
    /\ pc' = [pc EXCEPT ![v] = "peek"]
    /\ UNCHANGED <<dbVars, procVars, slot, cl, found>>

\* One of them fails, before or after the directory was made.
StateDirUnusable(v) ==
    /\ At(v, "new")
    /\ MayStart(v)
    /\ \E had \in SUBSET {"dir"} : NewVMFails(v, had)

Free == {s \in Slots : rows[s] = NoVM}

PeekNextSlotNumber(v) ==
    /\ At(v, "peek")
    /\ cl[v] = "clean"
    /\ Free # {}
    /\ cl' = [cl EXCEPT ![v] = "idle"]
    /\ pc' = [pc EXCEPT ![v] = "fsd"]
    /\ UNCHANGED <<dbVars, procVars, slot, res, found>>

PeekFails(v) ==
    /\ At(v, "peek")
    /\ \/ cl[v] = "clean" /\ Free = {}
       \/ "sql" \in Faults /\ cl[v] \in {"idle", "removed", "clean"}
    /\ NewVMFails(v, res[v])

\* virtiofsd, or 9passthrough up to the parsed token file.
StartFSDaemon(v) ==
    /\ At(v, "fsd")
    /\ res' = [res EXCEPT ![v] = @ \cup {"fs", "token"}]
    /\ pc' = [pc EXCEPT ![v] = "alloc"]
    /\ UNCHANGED <<dbVars, procVars, slot, cl, found>>

\* The share daemon does not start, or is killed because its socket or token
\* file did not appear in time or did not parse.
FSDaemonFails(v) ==
    /\ At(v, "fsd")
    /\ \E t \in SUBSET {"token"} : NewVMFails(v, res[v] \cup t)

\* BEGIN IMMEDIATE ... COMMIT: the lowest free slot gets a row of this
\* process; console_socket and qemu_pid start empty.  NewPasstManager, which
\* follows, returns no error.
AllocateVMSlot(v) ==
    /\ At(v, "alloc")
    /\ cl[v] = "clean"
    /\ \E s \in Free :
          /\ \A t \in Free : s <= t
          /\ rows' = [rows EXCEPT ![s] = v]
          /\ qemuPid' = [qemuPid EXCEPT ![s] = NoVM]
          /\ console' = [console EXCEPT ![s] = NoVM]
          /\ slot' = [slot EXCEPT ![v] = s]
    /\ pc' = [pc EXCEPT ![v] = "created"]
    /\ cl' = [cl EXCEPT ![v] = "idle"]
    /\ UNCHANGED <<procVars, res, found>>

AllocateFails(v) ==
    /\ At(v, "alloc")
    /\ \/ cl[v] = "clean" /\ Free = {}
       \/ "sql" \in Faults /\ cl[v] \in {"idle", "removed", "clean"}
    /\ NewVMFails(v, res[v])

-----------------------------------------------------------------------------
(* Start, Wait and Cleanup *)

StartPasst(v) ==
    /\ At(v, "created")
    /\ res' = [res EXCEPT ![v] = @ \cup {"passt"}]
    /\ pc' = [pc EXCEPT ![v] = "passt"]
    /\ UNCHANGED <<dbVars, procVars, slot, cl, found>>

\* EnsureImages, CreateEphemeralDisk and QEMUCmd.Start succeed.
LaunchQEMU(v) ==
    /\ At(v, "passt")
    /\ res' = [res EXCEPT ![v] = @ \cup {"qemu"}]
    /\ pc' = [pc EXCEPT ![v] = "launched"]
    /\ UNCHANGED <<dbVars, procVars, slot, cl, found>>

\* Any of the phases before QEMU runs fails; the caller runs Cleanup (fail in
\* handleStartVM, the deferred call in runVMForeground).
StartFails(v) ==
    /\ At(v, "created") \/ At(v, "passt")
    /\ pc' = [pc EXCEPT ![v] = "cleanup"]
    /\ UNCHANGED <<dbVars, procVars, slot, res, cl, found>>

\* UPDATE vm_slots ... WHERE slot_number = ?: whichever row is there, if any.
SetColumn(col, s, v) ==
    IF rows[s] = NoVM THEN col ELSE [col EXCEPT ![s] = v]

UpdateSlotQEMUPid(v) ==
    /\ At(v, "launched")
    /\ \/ qemuPid' = SetColumn(qemuPid, slot[v], v)
       \/ "sql" \in Faults /\ UNCHANGED qemuPid
    /\ pc' = [pc EXCEPT ![v] = "qpid"]
    /\ UNCHANGED <<rows, console, procVars, slot, res, cl, found>>

UpdateSlotConsole(v) ==
    /\ At(v, "qpid")
    /\ \/ Owner[v] \in Daemons /\ console' = SetColumn(console, slot[v], v)
       \/ Owner[v] \notin Daemons /\ UNCHANGED console
       \/ "sql" \in Faults /\ UNCHANGED console
    /\ pc' = [pc EXCEPT ![v] = "running"]
    /\ UNCHANGED <<rows, qemuPid, procVars, slot, res, cl, found>>

\* QEMUCmd.Wait returns, in Wait or in the daemon's supervise.
WaitReturns(v) ==
    /\ At(v, "running")
    /\ "qemu" \notin res[v]
    /\ pc' = [pc EXCEPT ![v] = "cleanup"]
    /\ UNCHANGED <<dbVars, procVars, slot, res, cl, found>>

\* Mutant: passt is left running.
StopHelpersButPasst(v) ==
    /\ At(v, "cleanup")
    /\ res' = [res EXCEPT ![v] = @ \ {"fs", "token"}]
    /\ pc' = [pc EXCEPT ![v] = "release"]
    /\ UNCHANGED <<dbVars, procVars, slot, cl, found>>

\* Cleanup stops the share daemon, drops its token file and stops passt.
StopHelpers(v) ==
    /\ At(v, "cleanup")
    /\ res' = [res EXCEPT ![v] = @ \ {"fs", "token", "passt"}]
    /\ pc' = [pc EXCEPT ![v] = "release"]
    /\ UNCHANGED <<dbVars, procVars, slot, cl, found>>

\* Mutant: the row is deleted by vm_pid, which a daemon's VMs share.
ReleaseByPid(v) ==
    /\ At(v, "release")
    /\ rows' = [s \in Slots |-> IF rows[s] # NoVM /\ Owner[rows[s]] = Owner[v]
                                THEN NoVM ELSE rows[s]]
    /\ pc' = [pc EXCEPT ![v] = "rmdir"]
    /\ UNCHANGED <<qemuPid, console, procVars, slot, res, cl, found>>

\* DELETE ... WHERE slot_number = ?; an error is only logged.
ReleaseVMSlot(v) ==
    /\ At(v, "release")
    /\ \/ /\ rows' = [rows EXCEPT ![slot[v]] = NoVM]
          /\ qemuPid' = [qemuPid EXCEPT ![slot[v]] = NoVM]
          /\ console' = [console EXCEPT ![slot[v]] = NoVM]
       \/ "sql" \in Faults /\ UNCHANGED dbVars
    /\ pc' = [pc EXCEPT ![v] = "rmdir"]
    /\ UNCHANGED <<procVars, slot, res, cl, found>>

RemoveStateDir(v) ==
    /\ At(v, "rmdir")
    /\ \E r \in RemoveAll(res[v]) : res' = [res EXCEPT ![v] = r]
    /\ pc' = [pc EXCEPT ![v] = "done"]
    /\ UNCHANGED <<dbVars, procVars, slot, cl, found>>

-----------------------------------------------------------------------------
Cleaning(a) ==
    \/ CleanupScan(a)
    \/ CleanupRemoveDirs(a)
    \/ CleanupDelete(a)

Lifecycle(v) ==
    \/ QEMUExits(v)
    \/ MakeStateDir(v)
    \/ StateDirUnusable(v)
    \/ PeekNextSlotNumber(v)
    \/ PeekFails(v)
    \/ StartFSDaemon(v)
    \/ FSDaemonFails(v)
    \/ AllocateVMSlot(v)
    \/ AllocateFails(v)
    \/ StartPasst(v)
    \/ LaunchQEMU(v)
    \/ StartFails(v)
    \/ UpdateSlotQEMUPid(v)
    \/ UpdateSlotConsole(v)
    \/ WaitReturns(v)
    \/ StopHelpers(v)
    \/ ReleaseVMSlot(v)
    \/ RemoveStateDir(v)

Next ==
    \/ \E p \in Procs : ProcessDies(p) \/ PidReused(p)
    \/ \E a \in Actors : Cleaning(a)
    \/ \E r \in Readers : Query(r) \/ QueryFails(r)
    \/ \E v \in VMs : Lifecycle(v)

Spec == Init /\ [][Next]_vars

\* Commands that clean up keep being run, each of them finishes, and the
\* database does not fail every one of them.
CleanersKeepRunning ==
    \A r \in Readers : WF_vars(Cleaning(r) \/ Query(r)) /\ SF_vars(CleanupDelete(r))
FairSpec == Spec /\ CleanersKeepRunning

-----------------------------------------------------------------------------
(* Properties *)

\* What makes removing a directory safe: a row a pending cleanup took for
\* stale belongs to a process that is dead for good, even if the slot or the
\* pid has meanwhile been given to someone else.
FoundRowsAreDead ==
    \A a \in Actors, s \in Slots :
        found[a][s] # NoVM => Owner[found[a][s]] \notin alive

\* What makes deleting by slot number safe, when cleanups do not overlap: the
\* row that was found stale is still the one in its slot, and no two cleanups
\* have rows to delete.
FoundRowsStillThere ==
    /\ \A a \in Actors, s \in Slots :
          found[a][s] # NoVM => rows[s] = found[a][s]
    /\ \A a, b \in Actors : a # b => found[a] = NoRows \/ found[b] = NoRows

\* The state directory (sockets, ephemeral disk) of a VM whose owner is alive
\* is never removed under it, whoever runs CleanupStaleSlots meanwhile
\* (globalstate.go removes directories of rows whose vm_pid is dead).
LiveDirKept ==
    \A v \in VMs :
        Owner[v] \in alive /\ pc[v] \in UsesDir => "dir" \in res[v]

\* From AllocateVMSlot to ReleaseVMSlot the slot of a VM with a live owner is
\* the VM's row: CleanupStaleSlots removes slots for dead PIDs only.
LiveVMHoldsSlot ==
    \A v \in VMs :
        Owner[v] \in alive /\ pc[v] \in HoldsSlot =>
            slot[v] \in Slots /\ rows[slot[v]] = v

\* No two VMs with live owners are given overlapping port ranges, and the
\* ranges stay within the slots' part of the port space.
PortsExclusive ==
    \A v, w \in {x \in VMs : Owner[x] \in alive /\ pc[x] \in HoldsSlot} :
        /\ PortStart(slot[v]) >= BasePort
        /\ PortEnd(slot[v]) < BasePort + MaxVMSlots * PortsPerSlot
        /\ v # w => \/ PortEnd(slot[v]) < PortStart(slot[w])
                    \/ PortEnd(slot[w]) < PortStart(slot[v])

\* UpdateSlotQEMUPid and UpdateSlotConsole address a row by slot number only;
\* they never write one VM's process or console into another VM's row.
ColumnsBelongToRow ==
    \A s \in Slots : /\ qemuPid[s] \in {NoVM, rows[s]}
                     /\ console[s] \in {NoVM, rows[s]}

\* A VM whose start failed or whose Cleanup returned has nothing left on the
\* host but, when NewVM failed, the token file of its share daemon.
EndedVMLeavesNothing ==
    \A v \in VMs :
        Owner[v] \in alive =>
          /\ pc[v] = "failed" => res[v] \subseteq {"token"}
          /\ pc[v] = "done" => res[v] = {}
          /\ pc[v] \in {"failed", "done"} => \A s \in Slots : rows[s] # v

\* "Remove dead VMs' state directories before dropping their rows, so a failed
\* removal is retried on the next cleanup": while the directory of a VM whose
\* owner died holding a slot exists, the row that leads a cleanup to it does.
StaleDirHasRow ==
    \A v \in VMs :
        Owner[v] \notin alive /\ pc[v] \in HoldsSlot /\ "dir" \in res[v]
            => \E s \in Slots : rows[s] = v

\* A row whose owner died is eventually deleted and the slot free again, if
\* commands that clean up keep being run, however they overlap and whatever
\* fails meanwhile; unless the dead owner's pid is in use again.
StaleRowReclaimed ==
    \A v \in VMs, s \in Slots :
        rows[s] = v /\ Owner[v] \notin alive ~>
            rows[s] # v \/ Owner[v] \in reused

\* What the table is for: seen from outside, rows and owners alone, it is an
\* allocator of slots.  Without overlapping cleanups every step of every
\* process is one of the allocator's, or invisible: CleanupStaleSlots frees
\* slots of ended processes only, ReleaseVMSlot a VM's own, and
\* AllocateVMSlot hands out the lowest that is free.
Allocator == INSTANCE SlotAllocator
             WITH holder <- rows,
                  ended <- Procs \ alive,
                  served <- {v \in VMs : slot[v] # 0}
IsAllocator == Allocator!Spec

=============================================================================
