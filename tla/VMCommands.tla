------------------------------ MODULE VMCommands ------------------------------
(***************************************************************************)
(* `homura vm`, `vm run` and `vm stop` (internal/commands) beside the VMs, *)
(* their rows and the daemon.                                              *)
(*                                                                         *)
(* A command reads a row of the slot table and acts on it later: it        *)
(* connects to the slot's address, starts a VM because there was no row,   *)
(* asks the daemon to stop the VM of that slot number or signals a pid of  *)
(* the row.  The table (SlotTable) and the daemon (DaemonServer) are       *)
(* reduced to what the commands can tell: one query with the cleanup of    *)
(* stale rows is one step, and so are the ends of a VM and of the daemon.  *)
(***************************************************************************)
EXTENDS Integers

CONSTANTS
    Commands,   \* terminals in which commands run
    MaxVMs,     \* bounds the VMs ever started
    MaxDaemons, \* bounds the daemons ever spawned
    MaxVMSlots,
    Worktrees,
    None

ASSUME VMCommandsAssumption ==
    /\ MaxVMs \in Nat /\ MaxDaemons \in Nat /\ MaxVMSlots \in Nat
    /\ None \notin Worktrees

VMs   == 1..MaxVMs
Slots == 1..MaxVMSlots

VARIABLES
    vm,       \* the VMs, numbered as they are started
    daemon,   \* the daemon: down, up, or ending after a SIGTERM
    pid,      \* the pid of the last daemon, as a number
    command   \* what runs in each terminal

vmsVars == <<vm, daemon, pid, command>>

\* stage: "row", "qemu" (QEMU runs, nothing else is recorded or set up),
\* "console" (a daemon's VM with its console recorded), "served" (the daemon
\* has it in s.vms, or the foreground's Wait has its handler), "stopping" (it
\* has been told to end), "ended" (QEMU has exited), "dead" (its owner has
\* died, and it), "orphan" (its owner has died, QEMU runs on), "gone" (cleaned
\* up).  sole: no other start for the worktree has overlapped its own.
NoVM == [stage |-> "none", kind |-> None, pid |-> 0, dir |-> None, slot |-> 0,
         sole |-> FALSE]

\* sel: the VM that a start has made, or whose row a stop has read; slot, pid
\* and con: the slot of that row, its owner if that is a daemon (0 if not) and
\* that it had a console; target: the VM the daemon stops for it; hit: the VMs
\* it has told to end; late: its own had ended before.
NoCommand == [op |-> "none", step |-> "idle", dir |-> None, sel |-> 0,
              slot |-> 0, pid |-> 0, con |-> FALSE, target |-> 0,
              hit |-> {}, late |-> FALSE, sole |-> FALSE]

Started == {v \in VMs : vm[v].stage # "none"}
\* The rows that the next cleanup leaves.
HasRow  == {v \in Started : vm[v].slot # 0 /\ vm[v].stage \notin {"dead", "orphan"}}
Running == {v \in Started : vm[v].stage \in {"qemu", "console", "served", "stopping"}}
Booting == {v \in Started : vm[v].stage \in {"row", "qemu", "console"}}
OfDaemon == {v \in Started : vm[v].kind = "daemon" /\ vm[v].stage \notin {"dead", "gone"}}

\* What is left of a VM without a row.
NoRow(stage) == [NoVM EXCEPT !.stage = stage]

\* CleanupStaleSlots: the rows of dead owners go.
Reaped == [v \in VMs |-> IF v \in HasRow THEN vm[v] ELSE NoRow(vm[v].stage)]

At(c, op, step) == command[c].op = op /\ command[c].step = step
Goes(c, step)   == command' = [command EXCEPT ![c].step = step]
\* It has printed that the VM it chose has stopped.
Reports(c)      == command' = [command EXCEPT ![c] =
                     [NoCommand EXCEPT !.op = "stop", !.step = "stopped", !.sel = command[c].sel]]
Finishes(c)     == command' = [command EXCEPT ![c] = NoCommand]

\* The starts for a worktree that have not come to their row yet.
Starting(w) == {c \in Commands : command[c].op \in {"start", "fg"} /\ command[c].dir = w
                                 /\ command[c].step \in {"find", "call"}}

-----------------------------------------------------------------------------
(* VMs *)

Becomes(vs, stage) ==
    [v \in VMs |-> IF v \in vs THEN [vm[v] EXCEPT !.stage = stage] ELSE vm[v]]

Free == {s \in Slots : \A v \in HasRow : vm[v].slot # s}

\* The daemon runs one start at a time.
MayBoot(kind) == kind = "daemon" => Booting \cap OfDaemon = {}

\* NewVM up to AllocateVMSlot, for the start in terminal c.
NewVM(c, kind) ==
    /\ MayBoot(kind)
    /\ \E v \in VMs \ Started, s \in Free :
        /\ \A w \in VMs \ Started : v <= w
        /\ \A t \in Free : s <= t
        /\ vm' = [Reaped EXCEPT ![v] =
             [stage |-> "row", kind |-> kind,
              pid |-> IF kind = "daemon" THEN pid ELSE 0,
              dir |-> command[c].dir, slot |-> s, sole |-> command[c].sole]]
        /\ command' = [command EXCEPT ![c].step = "boot", ![c].sel = v]
    /\ UNCHANGED <<daemon, pid>>

\* QEMU is started; then its console is recorded; then the daemon registers
\* the VM, or Wait installs its handler.
NextStage(v) ==
    IF vm[v].stage = "row" THEN "qemu"
    ELSE IF vm[v].stage = "qemu" /\ vm[v].kind = "daemon" THEN "console"
    ELSE "served"

Boots(v) ==
    /\ v \in Booting
    /\ vm' = Becomes({v}, NextStage(v))
    /\ UNCHANGED <<daemon, pid, command>>

\* The start fails before QEMU runs, and is cleaned up.
BootFails(v) ==
    /\ vm[v].stage = "row"
    /\ vm' = [vm EXCEPT ![v] = NoRow("gone")]
    /\ UNCHANGED <<daemon, pid, command>>

QEMUExits(v) ==
    /\ vm[v].stage \in {"served", "stopping"}
    /\ vm' = Becomes({v}, "ended")
    /\ UNCHANGED <<daemon, pid, command>>

\* Wait returns, Cleanup releases the slot.
Cleanup(v) ==
    /\ vm[v].stage = "ended"
    /\ vm' = [vm EXCEPT ![v] = NoRow("gone")]
    /\ UNCHANGED <<daemon, pid, command>>

\* A foreground owner is killed; its QEMU, if any, is left behind.
Orphaned(v) == IF v \in Running THEN "orphan" ELSE "dead"

ForegroundDies(v) ==
    /\ vm[v].kind = "fg" /\ vm[v].stage \notin {"none", "orphan", "dead", "gone"}
    /\ vm' = Becomes({v}, Orphaned(v))
    /\ UNCHANGED <<daemon, pid, command>>

\* Its QEMU gets a parent-death signal if the daemon started it.
AllOfDaemonDie == Becomes(OfDaemon, "dead")

DaemonDies ==
    /\ daemon # "down"
    /\ daemon' = "down"
    /\ vm' = AllOfDaemonDie
    /\ UNCHANGED <<pid, command>>

\* stopAllVMs has ended the VMs that were registered; what else there is goes
\* with the process.
DaemonEnds ==
    /\ daemon = "ending"
    /\ {v \in OfDaemon : vm[v].stage \in {"stopping", "ended"}} = {}
    /\ daemon' = "down"
    /\ vm' = AllOfDaemonDie
    /\ UNCHANGED <<pid, command>>

-----------------------------------------------------------------------------
(* homura vm, homura vm run *)

\* A start begins: those for the same worktree overlap from now on.
Begin(c, op, w) ==
    /\ command[c].step = "idle"
    /\ command' = [d \in Commands |->
         IF d = c THEN [NoCommand EXCEPT !.op = op, !.dir = w,
                                         !.step = IF op = "start" THEN "find" ELSE "call",
                                         !.sole = Starting(w) = {}]
         ELSE IF d \in Starting(w) THEN [command[d] EXCEPT !.sole = FALSE]
         ELSE command[d]]
    /\ UNCHANGED <<vm, daemon, pid>>

\* Mutant: a VM without a console recorded is taken for none.
RunningWithConsole(w) ==
    {v \in HasRow : vm[v].dir = w /\ vm[v].stage \notin {"row", "qemu"}}

FindVMsByWorkDir(w) == {v \in HasRow : vm[v].dir = w}

\* An existing VM is connected to; without one EnsureDaemon is called.
FindOrEnsure(c) ==
    /\ At(c, "start", "find")
    /\ vm' = Reaped
    /\ IF FindVMsByWorkDir(command[c].dir) # {}
         THEN Finishes(c) /\ UNCHANGED <<daemon, pid>>
         ELSE /\ Goes(c, "call")
              /\ IF daemon # "down" THEN UNCHANGED <<daemon, pid>>
                 ELSE pid < MaxDaemons /\ daemon' = "up" /\ pid' = pid + 1

\* start-vm, and the foreground's own NewVM.
CallStartVM(c) ==
    \/ At(c, "start", "call") /\ daemon # "down" /\ NewVM(c, "daemon")
    \/ At(c, "fg", "call") /\ NewVM(c, "fg")

\* No slot, no daemon any more, or NewVM fails.
CallFails(c) ==
    /\ command[c].op \in {"start", "fg"} /\ command[c].step = "call"
    /\ Finishes(c)
    /\ UNCHANGED <<vm, daemon, pid>>

\* The result, and waitForSSH; or the end of the foreground VM.
StartEnds(c) ==
    /\ command[c].op \in {"start", "fg"} /\ command[c].step = "boot"
    /\ vm[command[c].sel].stage \notin {"row", "qemu", "console"}
    /\ command[c].op = "fg" => vm[command[c].sel].stage # "served"
    /\ Finishes(c)
    /\ UNCHANGED <<vm, daemon, pid>>

-----------------------------------------------------------------------------
(* homura vm stop *)

\* FindVMBySlot, or the VM chosen among those of the worktree.
Resolve(c, v) ==
    /\ command[c].step = "idle"
    /\ v \in HasRow
    /\ vm' = Reaped
    /\ command' = [command EXCEPT ![c] =
         [NoCommand EXCEPT !.op = "stop", !.step = "act", !.sel = v,
                           !.slot = vm[v].slot, !.pid = vm[v].pid,
                           !.con = vm[v].kind = "daemon"
                                     /\ vm[v].stage \notin {"row", "qemu"}]]
    /\ UNCHANGED <<daemon, pid>>

Ended(v) == vm[v].stage \in {"ended", "dead", "orphan", "gone"}

\* The stop tells vs to end, or kills it.
Hits(c, vs, step) ==
    command' = [command EXCEPT ![c].step = step, ![c].hit = vs,
                               ![c].late = Ended(command[c].sel)]

\* s.vms
Registered(n) ==
    {v \in OfDaemon : vm[v].slot = n /\ vm[v].stage \in {"served", "stopping", "ended"}}

\* A VM with a console is stopped by the daemon, by its slot number.
StopRPC(c) ==
    /\ At(c, "stop", "act") /\ command[c].con /\ daemon # "down"
    /\ IF Registered(command[c].slot) = {}
         THEN Finishes(c) /\ vm' = vm
         ELSE \E v \in Registered(command[c].slot) :
                /\ command' = [command EXCEPT ![c].step = "wait", ![c].target = v,
                                              ![c].hit = {v}, ![c].late = Ended(command[c].sel)]
                /\ vm' = IF vm[v].stage = "served" THEN Becomes({v}, "stopping") ELSE vm
    /\ UNCHANGED <<daemon, pid>>

\* Mutant: the daemon answers once it has sent the signal.
StopRPCReturnsEarly(c) ==
    /\ At(c, "stop", "wait")
    /\ Reports(c)
    /\ UNCHANGED <<vm, daemon, pid>>

\* The daemon answers when the VM has been cleaned up; if it dies first the
\* call fails.
StopRPCReturns(c) ==
    /\ At(c, "stop", "wait")
    /\ \/ vm[command[c].target].stage = "gone" /\ Reports(c)
       \/ vm[command[c].target].stage = "dead" /\ Finishes(c)
    /\ UNCHANGED <<vm, daemon, pid>>

\* The pid of the row's owner: the daemon, that stops all it has, or the
\* foreground command, that has a handler only once it waits.
SignalOwner(c) ==
    LET v == command[c].sel IN
    IF command[c].pid # 0
      THEN IF daemon # "down" /\ pid = command[c].pid
             THEN /\ daemon' = "ending"
                  /\ vm' = Becomes({x \in OfDaemon : vm[x].stage = "served"}, "stopping")
                  /\ Hits(c, {x \in OfDaemon : ~Ended(x)}, "poll")
             ELSE Hits(c, {}, "poll") /\ UNCHANGED <<vm, daemon>>
      ELSE /\ vm' = IF vm[v].stage = "served" THEN Becomes({v}, "stopping")
                    ELSE IF vm[v].stage \in {"row", "qemu"} THEN Becomes({v}, Orphaned(v))
                    ELSE vm
           /\ Hits(c, {v}, "poll")
           /\ daemon' = daemon

\* Mutant: a VM of the daemon is signalled like one of the foreground.
StopAlwaysSignals(c) ==
    /\ At(c, "stop", "act")
    /\ SignalOwner(c)
    /\ pid' = pid

\* Without a console in the row the owner's pid is signalled.  With one, the
\* daemon cannot be reached and QEMU is signalled, if it still runs.
StopSignals(c) ==
    /\ At(c, "stop", "act")
    /\ IF command[c].con
         THEN /\ daemon = "down"
              /\ Hits(c, {}, "poll")
              /\ UNCHANGED <<vm, daemon>>
         ELSE SignalOwner(c)
    /\ pid' = pid

\* FindVMBySlot until it finds none, which is reported as the VM's end.
Poll(c) ==
    /\ At(c, "stop", "poll")
    /\ {v \in HasRow : vm[v].slot = command[c].slot} = {}
    /\ vm' = Reaped
    /\ Reports(c)
    /\ UNCHANGED <<daemon, pid>>

\* 15 s have passed, by a VM that does not end or another in its slot.
PollTimesOut(c) ==
    /\ At(c, "stop", "poll")
    /\ Finishes(c)
    /\ vm' = Reaped
    /\ UNCHANGED <<daemon, pid>>

Finish(c) ==
    /\ command[c].step = "stopped"
    /\ Finishes(c)
    /\ UNCHANGED <<vm, daemon, pid>>

-----------------------------------------------------------------------------

CommandsInit ==
    /\ vm = [v \in VMs |-> NoVM]
    /\ daemon = "down" /\ pid = 0
    /\ command = [c \in Commands |-> NoCommand]

Run(c) ==
    \/ \E op \in {"start", "fg"}, w \in Worktrees : Begin(c, op, w)
    \/ FindOrEnsure(c) \/ CallStartVM(c) \/ CallFails(c) \/ StartEnds(c)
    \/ \E v \in VMs : Resolve(c, v)
    \/ StopRPC(c) \/ StopRPCReturns(c) \/ StopSignals(c) \/ Poll(c) \/ PollTimesOut(c)
    \/ Finish(c)

Lives(v) == Boots(v) \/ BootFails(v) \/ QEMUExits(v) \/ Cleanup(v) \/ ForegroundDies(v)

CommandsNext ==
    \/ \E c \in Commands : Run(c)
    \/ \E v \in VMs : Lives(v)
    \/ DaemonDies \/ DaemonEnds

CommandsSpec == CommandsInit /\ [][CommandsNext]_vmsVars

-----------------------------------------------------------------------------
(* Properties *)

\* A worktree gets a second VM only if two starts for it overlapped (or by
\* --fg, which does not look): a `homura vm` or `vm run` that no other start
\* overlaps connects to the VM there is, in whatever stage of its boot.
SecondOnlyByOverlap ==
    \A v, w \in HasRow :
        v < w /\ vm[w].kind = "daemon" /\ vm[w].sole => vm[v].dir # vm[w].dir

\* vm stop ends another VM than the one whose row it read only if that one had
\* ended by then and its slot was given away, or if it was a daemon's VM whose
\* console was not recorded when the row was read.
StopHitsItsVM ==
    \A c \in Commands :
        \/ command[c].hit \subseteq {command[c].sel}
        \/ command[c].late
        \/ command[c].pid # 0 /\ ~command[c].con

\* "Stopped VM slot n" is printed only when the QEMU of the VM whose row was
\* read has exited, or has lost its owner: a foreground command that is
\* signalled before it waits leaves it running, with no row.
StoppedHasEnded ==
    \A c \in Commands :
        command[c].step = "stopped" => command[c].sel \notin Running

\* "Daemon-owned VMs ... are stopped via the daemon's stop-vm RPC"
\* (commands/vm_stop.go:19), which stops one VM: a stop ends no other VM than
\* the one whose row it read while that one has not ended.
StopSparesOthers ==
    \A c \in Commands :
        command[c].hit \subseteq {command[c].sel} \/ command[c].late

=============================================================================
