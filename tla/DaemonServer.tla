---------------------------- MODULE DaemonServer ----------------------------
(***************************************************************************)
(* One homura daemon from the moment it listens to the end of its process  *)
(* (internal/daemon/server.go).                                            *)
(*                                                                         *)
(* The goroutines are: Run's accept loop; one handleConn per connection,   *)
(* which serves a single request; one supervise per registered VM; the     *)
(* signal goroutine; and the timer goroutines that run onIdleFire.  A      *)
(* section between s.mu.Lock and s.mu.Unlock is one atomic step.           *)
(*                                                                         *)
(* A connection starts at most one VM, so the VM is named by it.  The slot *)
(* table (SlotTable) is reduced to the rows of this daemon: nothing else   *)
(* of it matters here and a live daemon's rows are not stale.              *)
(***************************************************************************)
EXTENDS Integers, FiniteSets

CONSTANTS
    Conns,       \* client connections, and the VMs they start
    MayCall,     \* the methods the client of each connection may send
    MaxVMSlots,
    Sig,         \* the signal goroutine, as an actor that stops VMs
    None         \* nil / no row / the daemon's own log writer

ASSUME DaemonAssumption ==
    /\ IsFiniteSet(Conns)
    /\ MayCall \in [Conns -> SUBSET {"query", "start-vm", "stop-vm", "shutdown"}]
    /\ MaxVMSlots \in Nat
    /\ Sig \notin Conns
    /\ None \notin Conns

Slots    == 1..MaxVMSlots
Stoppers == Conns \cup {Sig}

VARIABLES
    run,         \* Run's goroutine: serving, teardown (accept failed), exited
    listening,   \* s.listener is open
    pc,          \* each connection's goroutine, and the signal goroutine's
    method,      \* the request read on each connection
    inflight,    \* s.inflight
    timer,       \* s.idleTimer: nil, armed, or expired (non-nil, has fired)
    fires,       \* onIdleFire goroutines that have not taken s.mu yet
    decided,     \* one of them found the daemon idle and will call triggerExit
    vms,         \* s.vms: slot -> VM, or None
    rows,        \* this daemon's rows of vm_slots: slot -> VM, or None
    slotOf,      \* vmInst.SlotNumber
    qemu,        \* QEMU of each VM: none, up, down
    sup,         \* supervise goroutine of each VM
    startMu,     \* holder of s.startMu, or None
    childOutput, \* vm.ChildOutput: the log (None) or log plus a client
    prevOutput,  \* prevChildOutput of each handleStartVM
    todo,        \* VMs a stopper has still to stop
    cur,         \* the VM it is stopping
    killed,      \* VMs whose QEMU was sent SIGKILL
    reply        \* the terminating frame sent: none, result, error

vars == <<run, listening, pc, method, inflight, timer, fires, decided, vms,
          rows, slotOf, qemu, sup, startMu, childOutput, prevOutput, todo, cur,
          killed, reply>>

idleVars  == <<timer, fires, decided>>
runVars   == <<run, listening>>
startVars == <<startMu, childOutput, prevOutput>>
stopVars  == <<todo, cur, killed>>
vmVars    == <<vms, rows, slotOf, qemu, sup>>

Methods == {"none", "query", "start-vm", "stop-vm", "shutdown"}
PCs == {"new", "queued", "accepted", "reading", "lock", "newvm", "starting",
        "register", "reply", "unlock", "signal", "grace", "waitdone", "exit",
        "finish", "closed"}
\* Between inflight++ and the deferred inflight--.
Counted == {"reading", "lock", "newvm", "starting", "register", "reply",
            "unlock", "signal", "grace", "waitdone", "exit", "finish"}

TypeOK ==
    /\ run \in {"serving", "teardown", "exited"}
    /\ listening \in BOOLEAN
    /\ pc \in [Stoppers -> PCs]
    /\ method \in [Conns -> Methods]
    /\ inflight \in Nat
    /\ timer \in {"nil", "armed", "expired"}
    /\ fires \in Nat
    /\ decided \in BOOLEAN
    /\ vms \in [Slots -> Conns \cup {None}]
    /\ rows \in [Slots -> Conns \cup {None}]
    /\ slotOf \in [Conns -> Slots \cup {0}]
    /\ qemu \in [Conns -> {"none", "up", "down"}]
    /\ sup \in [Conns -> {"none", "wait", "cleanup", "deregister", "close",
                          "done"}]
    /\ startMu \in Conns \cup {None}
    /\ childOutput \in Conns \cup {None}
    /\ prevOutput \in [Conns -> Conns \cup {None}]
    /\ todo \in [Stoppers -> SUBSET Conns]
    /\ cur \in [Stoppers -> Conns \cup {None}]
    /\ killed \subseteq Conns
    /\ reply \in [Conns -> {"none", "result", "error"}]

NoVMs == [s \in Slots |-> None]

\* Run has taken the lock, listened and armed the idle timer.
Init ==
    /\ run = "serving" /\ listening = TRUE
    /\ pc = [a \in Stoppers |-> "new"]
    /\ method = [c \in Conns |-> "none"]
    /\ inflight = 0
    /\ timer = "armed" /\ fires = 0 /\ decided = FALSE
    /\ vms = NoVMs /\ rows = NoVMs
    /\ slotOf = [c \in Conns |-> 0]
    /\ qemu = [c \in Conns |-> "none"]
    /\ sup = [c \in Conns |-> "none"]
    /\ startMu = None /\ childOutput = None
    /\ prevOutput = [c \in Conns |-> None]
    /\ todo = [a \in Stoppers |-> {}]
    /\ cur = [a \in Stoppers |-> None]
    /\ killed = {}
    /\ reply = [c \in Conns |-> "none"]

Alive == run # "exited"
At(a, l) == Alive /\ pc[a] = l
Goto(a, l) == pc' = [pc EXCEPT ![a] = l]

-----------------------------------------------------------------------------
(* The idle timer *)

IsIdle(m, n) == (\A s \in Slots : m[s] = None) /\ n = 0
Idle == IsIdle(vms, inflight)

\* Mutant: a stopped timer is not armed again.
UpdateIdleNeverRearms(m, n) ==
    timer' = IF ~IsIdle(m, n) THEN "nil" ELSE timer

\* m and n are the values of s.vms and s.inflight it is called with.
updateIdleLocked(m, n) ==
    timer' = IF ~IsIdle(m, n) THEN "nil"
             ELSE IF timer = "nil" THEN "armed" ELSE timer

\* time.AfterFunc starts a goroutine; s.idleTimer stays non-nil.
TimerFires ==
    /\ Alive
    /\ timer = "armed"
    /\ timer' = "expired"
    /\ fires' = fires + 1
    /\ UNCHANGED <<runVars, pc, method, inflight, decided, vmVars, startVars,
                   stopVars, reply>>

\* The section under s.mu; triggerExit is called after the unlock.
onIdleFire ==
    /\ Alive
    /\ fires > 0
    /\ fires' = fires - 1
    /\ decided' = (decided \/ Idle)
    /\ UNCHANGED <<runVars, pc, method, inflight, timer, vmVars, startVars,
                   stopVars, reply>>

\* exitOnce closes the listener.
triggerExit == listening' = FALSE

IdleExit ==
    /\ Alive
    /\ decided
    /\ triggerExit
    /\ decided' = FALSE
    /\ UNCHANGED <<run, pc, method, inflight, timer, fires, vmVars, startVars,
                   stopVars, reply>>

-----------------------------------------------------------------------------
(* Connections *)

Connect(c) ==
    /\ At(c, "new")
    /\ listening
    /\ Goto(c, "queued")
    /\ UNCHANGED <<runVars, method, inflight, idleVars, vmVars, startVars,
                   stopVars, reply>>

Accept(c) ==
    /\ At(c, "queued")
    /\ run = "serving" /\ listening
    /\ Goto(c, "accepted")
    /\ UNCHANGED <<runVars, method, inflight, idleVars, vmVars, startVars,
                   stopVars, reply>>

BeginConn(c) ==
    /\ At(c, "accepted")
    /\ inflight' = inflight + 1
    /\ updateIdleLocked(vms, inflight + 1)
    /\ Goto(c, "reading")
    /\ UNCHANGED <<runVars, method, fires, decided, vmVars, startVars, stopVars,
                   reply>>

\* The deferred function of handleConn, then conn.Close.
EndConn(c) ==
    /\ At(c, "finish")
    /\ inflight' = inflight - 1
    /\ updateIdleLocked(vms, inflight - 1)
    /\ Goto(c, "closed")
    /\ UNCHANGED <<runVars, method, fires, decided, vmVars, startVars, stopVars,
                   reply>>

\* Mutant: the early return skips the deferred decrement.
ReadEOFLeaks(c) ==
    /\ At(c, "reading")
    /\ Goto(c, "closed")
    /\ UNCHANGED <<runVars, method, inflight, idleVars, vmVars, startVars,
                   stopVars, reply>>

\* The client closes without a request (Dial's probe).
ReadEOF(c) ==
    /\ At(c, "reading")
    /\ Goto(c, "finish")
    /\ UNCHANGED <<runVars, method, inflight, idleVars, vmVars, startVars,
                   stopVars, reply>>

\* ping, list-vms, an unknown method or bad JSON: one frame, nothing changes.
DispatchQuery(c) ==
    /\ At(c, "reading")
    /\ "query" \in MayCall[c]
    /\ method' = [method EXCEPT ![c] = "query"]
    /\ reply' = [reply EXCEPT ![c] = "result"]
    /\ Goto(c, "finish")
    /\ UNCHANGED <<runVars, inflight, idleVars, vmVars, startVars, stopVars>>

-----------------------------------------------------------------------------
(* start-vm *)

DispatchStart(c) ==
    /\ At(c, "reading")
    /\ "start-vm" \in MayCall[c]
    /\ method' = [method EXCEPT ![c] = "start-vm"]
    /\ Goto(c, "lock")
    /\ UNCHANGED <<runVars, inflight, idleVars, vmVars, startVars, stopVars,
                   reply>>

\* Mutant: starts are not serialised.
LockStartWithoutMutex(c) ==
    /\ At(c, "lock")
    /\ startMu' = c
    /\ prevOutput' = [prevOutput EXCEPT ![c] = childOutput]
    /\ childOutput' = c
    /\ Goto(c, "newvm")
    /\ UNCHANGED <<runVars, method, inflight, idleVars, vmVars, stopVars, reply>>

\* startMu.Lock, then the swap of vm.ChildOutput and the default logger.
LockStart(c) ==
    /\ At(c, "lock")
    /\ startMu = None
    /\ startMu' = c
    /\ prevOutput' = [prevOutput EXCEPT ![c] = childOutput]
    /\ childOutput' = c
    /\ Goto(c, "newvm")
    /\ UNCHANGED <<runVars, method, inflight, idleVars, vmVars, stopVars, reply>>

\* restore() and the terminating frame.
Restore(c) == childOutput' = prevOutput[c]
Respond(c, r) == reply' = [reply EXCEPT ![c] = r]

Free == {s \in Slots : rows[s] = None}

\* Mutant: INSERT OR REPLACE of the first slot.
NewVMReplaces(c) ==
    /\ At(c, "newvm")
    /\ \E s \in Slots :
          /\ \A t \in Slots : s <= t
          /\ rows' = [rows EXCEPT ![s] = c]
          /\ slotOf' = [slotOf EXCEPT ![c] = s]
    /\ Goto(c, "starting")
    /\ UNCHANGED <<runVars, method, inflight, idleVars, vms, qemu, sup,
                   startVars, stopVars, reply>>

\* The lowest slot without a row, of any process: seen from the rows of this
\* daemon, some free slot.
NewVM(c) ==
    /\ At(c, "newvm")
    /\ \E s \in Free :
          /\ rows' = [rows EXCEPT ![s] = c]
          /\ slotOf' = [slotOf EXCEPT ![c] = s]
    /\ Goto(c, "starting")
    /\ UNCHANGED <<runVars, method, inflight, idleVars, vms, qemu, sup,
                   startVars, stopVars, reply>>

\* A bad share mode, or NewVM returns an error (no free slot among them).
NewVMFails(c) ==
    /\ At(c, "newvm")
    /\ Restore(c)
    /\ Respond(c, "error")
    /\ Goto(c, "unlock")
    /\ UNCHANGED <<runVars, method, inflight, idleVars, vmVars, startMu,
                   prevOutput, stopVars>>

StartVM(c) ==
    /\ At(c, "starting")
    /\ qemu' = [qemu EXCEPT ![c] = "up"]
    /\ Goto(c, "register")
    /\ UNCHANGED <<runVars, method, inflight, idleVars, vms, rows, slotOf, sup,
                   startVars, stopVars, reply>>

\* Start fails before QEMU runs: fail() runs Cleanup, which releases the slot.
StartVMFails(c) ==
    /\ At(c, "starting")
    /\ rows' = [rows EXCEPT ![slotOf[c]] = None]
    /\ Restore(c)
    /\ Respond(c, "error")
    /\ Goto(c, "unlock")
    /\ UNCHANGED <<runVars, method, inflight, idleVars, vms, slotOf, qemu, sup,
                   startMu, prevOutput, stopVars>>

\* s.vms[slot] = mvm under s.mu, and go s.supervise(mvm).
Register(c) ==
    LET m == [vms EXCEPT ![slotOf[c]] = c] IN
    /\ At(c, "register")
    /\ vms' = m
    /\ updateIdleLocked(m, inflight)
    /\ sup' = [sup EXCEPT ![c] = "wait"]
    /\ Goto(c, "reply")
    /\ UNCHANGED <<runVars, method, inflight, fires, decided, rows, slotOf,
                   qemu, startVars, stopVars, reply>>

StartResult(c) ==
    /\ At(c, "reply")
    /\ Restore(c)
    /\ Respond(c, "result")
    /\ Goto(c, "unlock")
    /\ UNCHANGED <<runVars, method, inflight, idleVars, vmVars, startMu,
                   prevOutput, stopVars>>

\* Mutant: a path returns with the mutex held.
UnlockStartForgotten(c) ==
    /\ At(c, "unlock")
    /\ Goto(c, "finish")
    /\ UNCHANGED <<runVars, method, inflight, idleVars, vmVars, startVars,
                   stopVars, reply>>

UnlockStart(c) ==
    /\ At(c, "unlock")
    /\ startMu' = None
    /\ Goto(c, "finish")
    /\ UNCHANGED <<runVars, method, inflight, idleVars, vmVars, childOutput,
                   prevOutput, stopVars, reply>>

-----------------------------------------------------------------------------
(* supervise *)

\* Guest poweroff, a crash, or a signal taking effect.
QEMUExits(c) ==
    /\ Alive
    /\ qemu[c] = "up"
    /\ qemu' = [qemu EXCEPT ![c] = "down"]
    /\ UNCHANGED <<runVars, pc, method, inflight, idleVars, vms, rows, slotOf,
                   sup, startVars, stopVars, reply>>

SuperviseStep(c, from, to) ==
    /\ Alive
    /\ sup[c] = from
    /\ sup' = [sup EXCEPT ![c] = to]
    /\ UNCHANGED <<runVars, pc, method, inflight, fires, decided, slotOf, qemu,
                   startVars, stopVars, reply>>

SuperviseWait(c) ==
    /\ qemu[c] = "down"
    /\ SuperviseStep(c, "wait", "cleanup")
    /\ UNCHANGED <<timer, vms, rows>>

\* Cleanup up to ReleaseVMSlot; the state directory is removed after it.
SuperviseCleanup(c) ==
    /\ SuperviseStep(c, "cleanup", "deregister")
    /\ rows' = [rows EXCEPT ![slotOf[c]] = None]
    /\ UNCHANGED <<timer, vms>>

\* Mutant: updateIdleLocked is not called.
SuperviseDeregisterOnly(c) ==
    /\ SuperviseStep(c, "deregister", "close")
    /\ vms' = [vms EXCEPT ![slotOf[c]] = None]
    /\ UNCHANGED <<timer, rows>>

\* delete(s.vms, mvm.slot), whatever VM is registered under the slot.
SuperviseDeregister(c) ==
    LET m == [vms EXCEPT ![slotOf[c]] = None] IN
    /\ SuperviseStep(c, "deregister", "close")
    /\ vms' = m
    /\ updateIdleLocked(m, inflight)
    /\ UNCHANGED rows

SuperviseClose(c) ==
    /\ SuperviseStep(c, "close", "done")
    /\ UNCHANGED <<timer, vms, rows>>

-----------------------------------------------------------------------------
(* stop-vm, shutdown and the termination signal *)

\* Mutant: the VM is taken out of the map as soon as it is asked to stop.
DispatchStopForgets(c) ==
    /\ At(c, "reading")
    /\ "stop-vm" \in MayCall[c]
    /\ method' = [method EXCEPT ![c] = "stop-vm"]
    /\ \E s \in Slots :
          /\ vms[s] # None
          /\ cur' = [cur EXCEPT ![c] = vms[s]]
          /\ vms' = [vms EXCEPT ![s] = None]
    /\ Goto(c, "signal")
    /\ UNCHANGED <<runVars, inflight, idleVars, rows, slotOf, qemu, sup,
                   startVars, todo, killed, reply>>

DispatchStop(c) ==
    /\ At(c, "reading")
    /\ "stop-vm" \in MayCall[c]
    /\ method' = [method EXCEPT ![c] = "stop-vm"]
    /\ \E s \in Slots :
          /\ vms[s] # None
          /\ cur' = [cur EXCEPT ![c] = vms[s]]
    /\ Goto(c, "signal")
    /\ UNCHANGED <<runVars, inflight, idleVars, vmVars, startVars, todo, killed,
                   reply>>

\* A slot without an entry in s.vms (the client may send any number), or bad
\* parameters.
StopUnknownVM(c) ==
    /\ At(c, "reading")
    /\ "stop-vm" \in MayCall[c]
    /\ method' = [method EXCEPT ![c] = "stop-vm"]
    /\ Respond(c, "error")
    /\ Goto(c, "finish")
    /\ UNCHANGED <<runVars, inflight, idleVars, vmVars, startVars, stopVars>>

Registered == {c \in Conns : \E s \in Slots : vms[s] = c}

\* stopAllVMs copies s.vms and stops the copies one after the other.
StopAll(a) ==
    /\ todo' = [todo EXCEPT ![a] = Registered]
    /\ Goto(a, "exit")
    /\ UNCHANGED <<runVars, inflight, idleVars, vmVars, startVars, cur, killed,
                   reply>>

DispatchShutdown(c) ==
    /\ At(c, "reading")
    /\ "shutdown" \in MayCall[c]
    /\ method' = [method EXCEPT ![c] = "shutdown"]
    /\ StopAll(c)

ReceiveSignal ==
    /\ At(Sig, "new")
    /\ StopAll(Sig)
    /\ UNCHANGED method

NextToStop(a) ==
    /\ At(a, "exit")
    /\ \E v \in todo[a] :
          /\ cur' = [cur EXCEPT ![a] = v]
          /\ todo' = [todo EXCEPT ![a] = @ \ {v}]
    /\ Goto(a, "signal")
    /\ UNCHANGED <<runVars, method, inflight, idleVars, vmVars, startVars,
                   killed, reply>>

\* A process that exited takes signals until QEMUCmd.Wait has reaped it.
Reaped(v) == sup[v] # "wait"

\* Shutdown: SIGTERM, unless the process is already gone.
ShutdownVM(a) ==
    /\ At(a, "signal")
    /\ Goto(a, IF Reaped(cur[a]) THEN "waitdone" ELSE "grace")
    /\ UNCHANGED <<runVars, method, inflight, idleVars, vmVars, startVars,
                   stopVars, reply>>

GraceSeesExit(a) ==
    /\ At(a, "grace")
    /\ Reaped(cur[a])
    /\ Goto(a, "waitdone")
    /\ UNCHANGED <<runVars, method, inflight, idleVars, vmVars, startVars,
                   stopVars, reply>>

\* shutdownGrace is over: SIGKILL.
GraceTimeout(a) ==
    /\ At(a, "grace")
    /\ killed' = killed \cup {cur[a]}
    /\ Goto(a, "waitdone")
    /\ UNCHANGED <<runVars, method, inflight, idleVars, vmVars, startVars, todo,
                   cur, reply>>

\* What follows stopManaged: the next VM of stopAllVMs, or stop-vm's frame.
\* The VM is kept in cur: it is what a stop-vm result speaks of.
AfterStop(a, r) ==
    /\ IF a # Sig /\ method[a] = "stop-vm"
         THEN /\ Respond(a, r)
              /\ Goto(a, "finish")
         ELSE /\ UNCHANGED reply
              /\ Goto(a, "exit")
    /\ UNCHANGED <<runVars, method, inflight, idleVars, vmVars, startVars,
                   stopVars>>

\* Mutant: QEMU's exit is taken for the end of supervise.
DoneWhenQEMUExits(a) ==
    /\ At(a, "waitdone")
    /\ qemu[cur[a]] = "down"
    /\ AfterStop(a, "result")

DoneClosed(a) ==
    /\ At(a, "waitdone")
    /\ sup[cur[a]] = "done"
    /\ AfterStop(a, "result")

\* shutdownWait is over.
StopTimeout(a) ==
    /\ At(a, "waitdone")
    /\ sup[cur[a]] # "done"
    /\ AfterStop(a, "error")

\* Mutant: the signal goroutine returns without triggerExit.
ExitOnlyOnRequest(a) ==
    /\ At(a, "exit")
    /\ todo[a] = {}
    /\ IF a = Sig
         THEN UNCHANGED <<listening, reply>> /\ Goto(a, "closed")
         ELSE triggerExit /\ Respond(a, "result") /\ Goto(a, "finish")
    /\ UNCHANGED <<run, method, inflight, idleVars, vmVars, startVars, stopVars>>

\* stopAllVMs returned: the shutdown result, then triggerExit.
ExitAfterStop(a) ==
    /\ At(a, "exit")
    /\ todo[a] = {}
    /\ triggerExit
    /\ IF a = Sig
         THEN UNCHANGED reply /\ Goto(a, "closed")
         ELSE Respond(a, "result") /\ Goto(a, "finish")
    /\ UNCHANGED <<run, method, inflight, idleVars, vmVars, startVars, stopVars>>

-----------------------------------------------------------------------------
(* The end of Run *)

AcceptFails ==
    /\ run = "serving"
    /\ ~listening
    /\ run' = "teardown"
    /\ UNCHANGED <<listening, pc, method, inflight, idleVars, vmVars, startVars,
                   stopVars, reply>>

\* The socket is removed, the lock released and main returns: every goroutine
\* ends where it stands and the children get their death signal.
ProcessExits ==
    /\ run = "teardown"
    /\ run' = "exited"
    /\ qemu' = [c \in Conns |-> IF qemu[c] = "up" THEN "down" ELSE qemu[c]]
    /\ UNCHANGED <<listening, pc, method, inflight, idleVars, vms, rows, slotOf,
                   sup, startVars, stopVars, reply>>

\* The daemon's process is gone; nothing happens any more.
Ended == run = "exited" /\ UNCHANGED vars

-----------------------------------------------------------------------------
Supervise(c) ==
    \/ SuperviseWait(c)
    \/ SuperviseCleanup(c)
    \/ SuperviseDeregister(c)
    \/ SuperviseClose(c)

StopSteps(a) ==
    \/ NextToStop(a)
    \/ ShutdownVM(a)
    \/ GraceSeesExit(a)
    \/ GraceTimeout(a)
    \/ DoneClosed(a)
    \/ StopTimeout(a)
    \/ ExitAfterStop(a)

ReadRequest(c) ==
    \/ ReadEOF(c)
    \/ DispatchQuery(c)
    \/ DispatchStart(c)
    \/ DispatchStop(c)
    \/ StopUnknownVM(c)
    \/ DispatchShutdown(c)

StartSteps(c) ==
    \/ NewVM(c)
    \/ NewVMFails(c)
    \/ StartVM(c)
    \/ StartVMFails(c)
    \/ Register(c)
    \/ StartResult(c)
    \/ UnlockStart(c)

Timers == TimerFires \/ onIdleFire \/ IdleExit
Teardown == AcceptFails \/ ProcessExits

Next ==
    \/ Timers \/ Teardown \/ Ended \/ ReceiveSignal
    \/ \E a \in Stoppers : StopSteps(a)
    \/ \E c \in Conns : \/ Connect(c) \/ Accept(c) \/ BeginConn(c) \/ EndConn(c)
                        \/ ReadRequest(c)
                        \/ LockStart(c) \/ StartSteps(c)
                        \/ QEMUExits(c)
                        \/ Supervise(c)

Spec == Init /\ [][Next]_vars

(***************************************************************************)
(* Fairness.  Runnable goroutines run; the idle timer fires; a build or    *)
(* boot ends, one way or the other; a client that connected sends its      *)
(* request or goes away; a mutex waiter gets the lock in the end (Go's     *)
(* sync.Mutex hands over in FIFO order once a waiter starves); and a QEMU  *)
(* that was sent SIGKILL dies.  A guest is not required to power off, a    *)
(* QEMU that got SIGTERM is not required to exit, and no client or signal  *)
(* is required to come.                                                    *)
(***************************************************************************)
Fairness ==
    /\ WF_vars(TimerFires) /\ WF_vars(onIdleFire) /\ WF_vars(IdleExit)
    /\ WF_vars(Teardown)
    /\ \A a \in Stoppers : WF_vars(StopSteps(a))
    /\ \A c \in Conns : /\ WF_vars(Accept(c))
                        /\ WF_vars(BeginConn(c) \/ ReadRequest(c) \/ EndConn(c))
                        /\ SF_vars(LockStart(c))
                        /\ WF_vars(StartSteps(c))
                        /\ WF_vars(Supervise(c))
                        /\ WF_vars(c \in killed /\ QEMUExits(c))

FairSpec == Spec /\ Fairness

-----------------------------------------------------------------------------
(* Properties *)

\* The count that keeps the daemon alive is the number of connections between
\* inflight++ and the deferred inflight--, on every path through handleConn.
InflightCounts ==
    inflight = Cardinality({c \in Conns : pc[c] \in Counted})

\* s.idleTimer is non-nil exactly while no VM is registered and no request is
\* in flight: no path that changes either forgets updateIdleLocked, and a
\* timer that fired while the daemon was busy is not left behind.
TimerTracksIdle == timer # "nil" <=> Idle

\* The process-global output writer is a client's only while that client's
\* start holds startMu, and the log's again whenever nobody holds it.
WriterRestored == childOutput \in {None, startMu}

\* A stop-vm result means the VM is gone: QEMU exited, its row released, its
\* supervise goroutine finished.
StopResultMeansGone ==
    \A c \in Conns :
        method[c] = "stop-vm" /\ reply[c] = "result" =>
            /\ qemu[cur[c]] = "down"
            /\ sup[cur[c]] = "done"
            /\ \A s \in Slots : rows[s] # cur[c]

\* Two VMs the daemon is running never share a slot, although the same slot
\* may be registered, released and taken again while supervise is at work.
SlotsNotShared ==
    \A c, d \in Conns :
        c # d /\ sup[c] = "wait" /\ sup[d] = "wait" => slotOf[c] # slotOf[d]

\* "Server is the central homura daemon: it owns every detached VM"
\* (server.go:44): a supervised VM is missing from s.vms only because the
\* supervise goroutine of an earlier VM in the same slot, which released the
\* row before it took s.mu, deregistered it.
LostOnlyToSlotReuse ==
    \A c \in Conns :
        sup[c] = "wait" /\ vms[slotOf[c]] # c =>
            \E d \in Conns : /\ d # c
                             /\ slotOf[d] = slotOf[c]
                             /\ sup[d] \in {"close", "done"}

\* A daemon whose VMs are gone for good exits.
ExitsWithoutVMs == <>[](\A s \in Slots : vms[s] = None) => <>(run = "exited")

\* Every accepted connection is answered and closed, or the daemon exits.
EveryRequestEnds ==
    \A c \in Conns : pc[c] = "accepted" ~> (pc[c] = "closed" \/ run = "exited")

\* A termination signal ends the daemon, even if a QEMU ignores SIGTERM.
SignalEndsDaemon == pc[Sig] = "exit" ~> run = "exited"

=============================================================================
