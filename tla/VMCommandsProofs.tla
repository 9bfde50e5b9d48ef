--------------------------- MODULE VMCommandsProofs ---------------------------
(***************************************************************************)
(* Invariance proofs for VMCommands, for any number of terminals, VMs,     *)
(* daemons, slots and worktrees.                                           *)
(***************************************************************************)
EXTENDS VMCommands, TLAPS

LiveStages == {"row", "qemu", "console", "served", "stopping", "ended"}
Stages     == LiveStages \cup {"none", "dead", "orphan", "gone"}

VMRecords ==
    [stage: Stages, kind: {"daemon", "fg", None}, pid: Nat, dir: Worktrees \cup {None},
     slot: 0..MaxVMSlots, sole: BOOLEAN]

Steps == {"idle", "find", "call", "boot", "act", "wait", "poll", "stopped"}

CommandRecords ==
    [op: {"none", "start", "fg", "stop"}, step: Steps, dir: Worktrees \cup {None},
     sel: 0..MaxVMs, slot: 0..MaxVMSlots, pid: Nat, con: BOOLEAN, target: 0..MaxVMs,
     hit: SUBSET VMs, late: BOOLEAN, sole: BOOLEAN]

CommandsTypeOK ==
    /\ vm \in [VMs -> VMRecords]
    /\ command \in [Commands -> CommandRecords]
    /\ daemon \in {"down", "up", "ending"}
    /\ pid \in Nat

\* A VM whose owner lives has a slot, one that was cleaned up has none.
LiveHaveSlots ==
    \A v \in VMs : /\ vm[v].stage \in LiveStages => vm[v].slot # 0
                   /\ vm[v].stage = "gone" => vm[v].slot = 0

RowsDiffer == \A v, w \in HasRow : vm[v].slot = vm[w].slot => v = w

\* VMs are numbered in the order of their starts.
StartedInOrder == \A v, w \in VMs : w \in Started /\ v < w => v \in Started

\* What a stop knows of the VM it chose, as long as that has a row.
Knows(r) ==
    /\ r.op \in {"start", "fg"} => r.hit = {}
    /\ r.step \in {"act", "wait", "poll"} =>
         r.sel \in Started /\ (r.sel \in HasRow => vm[r.sel].slot = r.slot)
    /\ r.step = "wait" => r.target \in VMs /\ (r.target = r.sel \/ r.sel \notin HasRow)
    /\ r.step = "stopped" => r.sel \in Started /\ r.sel \notin HasRow

\* Whom a stop has told to end.
HitsItsVM(r) == r.hit \subseteq {r.sel} \/ r.late \/ (r.pid # 0 /\ ~r.con)

\* A start that no other overlapped is the only one for its worktree.
SoleIsAlone ==
    \A c, d \in Commands :
        /\ c \in Starting(command[c].dir) /\ d \in Starting(command[c].dir)
        /\ command[c].sole
        => c = d

\* It calls for a VM where there is none.
FoundNone(r) ==
    r.op = "start" /\ r.step = "call" /\ r.sole =>
        \A v \in HasRow : vm[v].dir # r.dir

CommandsInv ==
    /\ CommandsTypeOK
    /\ LiveHaveSlots
    /\ RowsDiffer
    /\ StartedInOrder
    /\ SoleIsAlone
    /\ \A c \in Commands : Knows(command[c]) /\ HitsItsVM(command[c]) /\ FoundNone(command[c])
    /\ SecondOnlyByOverlap

-----------------------------------------------------------------------------
(* VMs that age: no VM is started, no row is made or changes its contents *)

Ages ==
    /\ vm' \in [VMs -> VMRecords]
    /\ \A v \in VMs :
        /\ vm'[v].stage = "none" <=> vm[v].stage = "none"
        /\ vm'[v].stage = "gone" => vm'[v].slot = 0
        /\ vm'[v].stage \in LiveStages =>
             /\ vm[v].stage \in LiveStages
             /\ vm'[v].slot = vm[v].slot /\ vm'[v].dir = vm[v].dir
             /\ vm'[v].kind = vm[v].kind /\ vm'[v].sole = vm[v].sole

\* The VMs with rows are those of living owners that were not cleaned up.
LEMMA RowsAreLive ==
  ASSUME CommandsTypeOK, LiveHaveSlots
  PROVE  \A v \in VMs : v \in HasRow <=> vm[v].stage \in LiveStages
<1> TAKE v \in VMs
<1>1. vm[v] \in VMRecords
  BY DEF CommandsTypeOK
<1>2. vm[v].stage \in Stages
  BY <1>1 DEF VMRecords
<1> QED
  BY <1>2 DEF LiveHaveSlots, HasRow, Started, Stages, LiveStages

LEMMA RecordTypes ==
  ASSUME CommandsTypeOK
  PROVE  /\ \A v \in VMs :
              /\ vm[v] \in VMRecords
              /\ vm[v].stage \in Stages /\ vm[v].kind \in {"daemon", "fg", None}
              /\ vm[v].pid \in Nat /\ vm[v].dir \in Worktrees \cup {None}
              /\ vm[v].slot \in 0..MaxVMSlots /\ vm[v].sole \in BOOLEAN
         /\ \A c \in Commands :
              /\ command[c] \in CommandRecords
              /\ command[c].step \in Steps /\ command[c].sel \in 0..MaxVMs
              /\ command[c].op \in {"none", "start", "fg", "stop"}
              /\ command[c].dir \in Worktrees \cup {None}
              /\ command[c].slot \in 0..MaxVMSlots /\ command[c].pid \in Nat
              /\ command[c].con \in BOOLEAN /\ command[c].target \in 0..MaxVMs
              /\ command[c].hit \subseteq VMs /\ command[c].late \in BOOLEAN
              /\ command[c].sole \in BOOLEAN
BY DEF CommandsTypeOK, VMRecords, CommandRecords

\* A stage is set, but for live VMs only to one of a live VM.
LEMMA BecomesAges ==
  ASSUME CommandsTypeOK, LiveHaveSlots, NEW vs \in SUBSET VMs,
         NEW stage \in Stages \ {"none", "gone"},
         \A v \in vs : /\ vm[v].stage # "none"
                       /\ stage \in LiveStages => vm[v].stage \in LiveStages,
         vm' = Becomes(vs, stage)
  PROVE  Ages
<1>1. \A v \in VMs : vm[v] \in VMRecords
  BY RecordTypes
<1>2. \A v \in VMs : [vm[v] EXCEPT !.stage = stage] \in VMRecords
  BY <1>1 DEF VMRecords
<1>3. vm' \in [VMs -> VMRecords]
  BY <1>1, <1>2 DEF Becomes
<1>4. ASSUME NEW v \in VMs
      PROVE  /\ vm'[v].stage = (IF v \in vs THEN stage ELSE vm[v].stage)
             /\ vm'[v].slot = vm[v].slot /\ vm'[v].dir = vm[v].dir
             /\ vm'[v].kind = vm[v].kind /\ vm'[v].sole = vm[v].sole
  BY <1>1 DEF Becomes, VMRecords
<1> QED
  BY <1>3, <1>4 DEF Ages, LiveHaveSlots

LEMMA ReapedAges ==
  ASSUME CommandsTypeOK, LiveHaveSlots
  PROVE  /\ Reaped \in [VMs -> VMRecords]
         /\ \A v \in VMs : /\ Reaped[v].stage = vm[v].stage
                           /\ vm[v].stage \in LiveStages => Reaped[v] = vm[v]
                           /\ vm[v].stage \notin LiveStages => Reaped[v].slot = 0
<1>1. \A v \in VMs : vm[v] \in VMRecords /\ vm[v].stage \in Stages
  BY RecordTypes
<1>2. \A s \in Stages : NoRow(s) \in VMRecords /\ NoRow(s).stage = s /\ NoRow(s).slot = 0
  <2>1. NoVM \in VMRecords /\ NoVM.slot = 0
    BY VMCommandsAssumption DEF NoVM, VMRecords, Stages
  <2> QED
    BY <2>1 DEF NoRow, VMRecords
<1> QED
  BY <1>1, <1>2, RowsAreLive DEF Reaped

-----------------------------------------------------------------------------
(* Steps that change a command and let the VMs age *)

LEMMA AgesKeepRows ==
  ASSUME CommandsInv, Ages
  PROVE  /\ LiveHaveSlots' /\ RowsDiffer' /\ StartedInOrder' /\ SecondOnlyByOverlap'
         /\ Started' = Started
         /\ \A v \in VMs : v \in HasRow' =>
              /\ v \in HasRow
              /\ vm'[v].slot = vm[v].slot /\ vm'[v].dir = vm[v].dir
<1>1. /\ LiveHaveSlots /\ RowsDiffer /\ StartedInOrder /\ SecondOnlyByOverlap
      /\ CommandsTypeOK
  BY DEF CommandsInv
<1>2. Started' = Started
  BY DEF Ages, Started
<1>3. LiveHaveSlots'
  BY <1>1 DEF Ages, LiveHaveSlots
<1>4. ASSUME NEW v \in VMs, v \in HasRow'
      PROVE  /\ v \in HasRow
             /\ vm'[v].slot = vm[v].slot /\ vm'[v].dir = vm[v].dir
             /\ vm'[v].kind = vm[v].kind /\ vm'[v].sole = vm[v].sole
  <2>1. vm'[v] \in VMRecords
    BY DEF Ages
  <2>2. vm'[v].stage \in Stages
    BY <2>1 DEF VMRecords
  <2>3. /\ vm'[v].stage # "none" /\ vm'[v].slot # 0
        /\ vm'[v].stage # "dead" /\ vm'[v].stage # "orphan"
    BY <1>4 DEF HasRow, Started
  <2>4. vm'[v].stage \in LiveStages
    BY <2>2, <2>3 DEF Ages, Stages, LiveStages
  <2> QED
    BY <2>4, <1>1, RowsAreLive DEF Ages
<1>5. HasRow' \subseteq VMs
  BY DEF HasRow, Started
<1>6. RowsDiffer'
  BY <1>1, <1>4, <1>5 DEF RowsDiffer
<1>7. StartedInOrder'
  BY <1>1, <1>2 DEF StartedInOrder
<1>8. SecondOnlyByOverlap'
  BY <1>1, <1>4, <1>5 DEF SecondOnlyByOverlap
<1> QED
  BY <1>2, <1>3, <1>4, <1>6, <1>7, <1>8

\* A command goes on as r says, or ends.
LEMMA CommandStep ==
  ASSUME CommandsInv, Ages, daemon' \in {"down", "up", "ending"}, pid' \in Nat,
         NEW c \in Commands, NEW r \in CommandRecords,
         command' = [command EXCEPT ![c] = r],
         Knows(r)', HitsItsVM(r), FoundNone(r)',
         r.op \in {"start", "fg"} /\ r.step \in {"find", "call"} =>
            /\ r.dir = command[c].dir /\ r.sole = command[c].sole
            /\ command[c].op \in {"start", "fg"} /\ command[c].step \in {"find", "call"}
  PROVE  CommandsInv'
<1> USE DEF CommandsInv
<1>1. command \in [Commands -> CommandRecords]
  BY DEF CommandsTypeOK
<1>2. CommandsTypeOK'
  BY <1>1 DEF CommandsTypeOK, Ages
<1>3. \A d \in Commands : command'[d] = IF d = c THEN r ELSE command[d]
  BY <1>1
<1>4. ASSUME NEW d \in Commands
      PROVE  Knows(command[d])' /\ HitsItsVM(command[d])' /\ FoundNone(command[d])'
  <2>1. CASE d = c
    <3>1. command'[d] = r
      BY <2>1, <1>3
    <3>2. Knows(command[d])'
      BY <3>1 DEF Knows
    <3>3. HitsItsVM(command[d])'
      BY <3>1 DEF HitsItsVM
    <3>4. FoundNone(command[d])'
      BY <3>1 DEF FoundNone
    <3> QED
      BY <3>2, <3>3, <3>4
  <2>2. CASE d # c
    <3>1. command'[d] = command[d] /\ Knows(command[d]) /\ HitsItsVM(command[d])
          /\ FoundNone(command[d])
      BY <2>2, <1>3
    <3>2. HasRow' \subseteq VMs /\ Started \subseteq VMs
      BY DEF HasRow, Started
    <3>3. Knows(command[d])'
      BY <3>1, <3>2, AgesKeepRows DEF Knows
    <3>4. FoundNone(command[d])'
      BY <3>1, <3>2, AgesKeepRows DEF FoundNone
    <3>5. HitsItsVM(command[d])'
      BY <3>1 DEF HitsItsVM
    <3> QED
      BY <3>3, <3>4, <3>5
  <2> QED
    BY <2>1, <2>2
<1>5. SoleIsAlone'
  BY <1>3 DEF SoleIsAlone, Starting
<1> QED
  BY <1>2, <1>4, <1>5, AgesKeepRows

LEMMA NoCommandFits ==
  /\ NoCommand \in CommandRecords
  /\ NoCommand.op = "none" /\ NoCommand.step = "idle" /\ NoCommand.hit = {}
BY VMCommandsAssumption DEF NoCommand, CommandRecords, Steps

\* Every command may end.
LEMMA FinishStep ==
  ASSUME CommandsInv, Ages, daemon' \in {"down", "up", "ending"}, pid' \in Nat,
         NEW c \in Commands, Finishes(c)
  PROVE  CommandsInv'
<1>1. Knows(NoCommand)' /\ HitsItsVM(NoCommand) /\ FoundNone(NoCommand)'
  BY NoCommandFits DEF Knows, HitsItsVM, FoundNone
<1> QED
  BY <1>1, NoCommandFits, CommandStep DEF Finishes

\* Only VMs or the daemon change.
LEMMA VMStep ==
  ASSUME CommandsInv, Ages, daemon' \in {"down", "up", "ending"}, pid' \in Nat,
         UNCHANGED command
  PROVE  CommandsInv'
<1> USE DEF CommandsInv
<1>1. CommandsTypeOK'
  BY DEF CommandsTypeOK, Ages
<1>2. HasRow' \subseteq VMs /\ Started \subseteq VMs
  BY DEF HasRow, Started
<1>3. SoleIsAlone'
  BY DEF SoleIsAlone, Starting
<1>4. ASSUME NEW d \in Commands
      PROVE  Knows(command[d])' /\ HitsItsVM(command[d])' /\ FoundNone(command[d])'
  <2>1. Knows(command[d])'
    BY <1>2, AgesKeepRows DEF Knows
  <2>2. FoundNone(command[d])'
    BY <1>2, AgesKeepRows DEF FoundNone
  <2>3. HitsItsVM(command[d])'
    BY DEF HitsItsVM
  <2> QED
    BY <2>1, <2>2, <2>3
<1> QED
  BY <1>1, <1>3, <1>4, AgesKeepRows

LEMMA UnchangedAges ==
  ASSUME CommandsInv, UNCHANGED vm
  PROVE  Ages
BY DEF CommandsInv, CommandsTypeOK, LiveHaveSlots, Ages

-----------------------------------------------------------------------------
-----------------------------------------------------------------------------
(* The actions of VMs and the daemon *)

LEMMA GoneAges ==
  ASSUME CommandsInv, NEW v \in VMs, vm[v].stage # "none",
         vm' = [vm EXCEPT ![v] = NoRow("gone")]
  PROVE  Ages
<1>1. \A s \in Stages : NoRow(s) \in VMRecords /\ NoRow(s).stage = s /\ NoRow(s).slot = 0
  <2>1. NoVM \in VMRecords /\ NoVM.slot = 0
    BY VMCommandsAssumption DEF NoVM, VMRecords, Stages
  <2> QED
    BY <2>1 DEF NoRow, VMRecords
<1>2. NoRow("gone") \in VMRecords /\ NoRow("gone").stage = "gone" /\ NoRow("gone").slot = 0
  BY <1>1 DEF Stages
<1>3. vm \in [VMs -> VMRecords] /\ LiveHaveSlots
  BY DEF CommandsInv, CommandsTypeOK
<1>4. \A w \in VMs : vm'[w] = IF w = v THEN NoRow("gone") ELSE vm[w]
  BY <1>3
<1> QED
  BY <1>2, <1>3, <1>4 DEF Ages, LiveHaveSlots, LiveStages

LEMMA LivesStep ==
  ASSUME CommandsInv, NEW v \in VMs, Lives(v)
  PROVE  CommandsInv'
<1>1. CommandsTypeOK /\ LiveHaveSlots
  BY DEF CommandsInv
<1>2. daemon' \in {"down", "up", "ending"} /\ pid' \in Nat /\ UNCHANGED command
  BY <1>1 DEF Lives, Boots, BootFails, QEMUExits, Cleanup, ForegroundDies, CommandsTypeOK
<1>3. vm[v].stage \in Stages
  BY <1>1, RecordTypes
<1>4. CASE Boots(v)
  <2>1. /\ NextStage(v) \in Stages \ {"none", "gone"}
        /\ vm[v].stage # "none" /\ vm[v].stage \in LiveStages
    BY <1>4 DEF Boots, Booting, Started, NextStage, Stages, LiveStages
  <2>2. vm' = Becomes({v}, NextStage(v))
    BY <1>4 DEF Boots
  <2>3. \A s \in Stages \ {"none", "gone"} : vm' = Becomes({v}, s) => Ages
    BY <1>1, <2>1, BecomesAges
  <2> QED
    BY <1>2, <2>1, <2>2, <2>3, VMStep
<1>5. CASE BootFails(v) \/ Cleanup(v)
  BY <1>2, <1>5, GoneAges, VMStep DEF BootFails, Cleanup
<1>6. CASE QEMUExits(v)
  BY <1>1, <1>2, <1>6, BecomesAges, VMStep DEF QEMUExits, Stages, LiveStages
<1>7. CASE ForegroundDies(v)
  <2>1. Orphaned(v) \in {"dead", "orphan"} /\ vm' = Becomes({v}, Orphaned(v))
    BY <1>7 DEF ForegroundDies, Orphaned
  <2>2. vm[v].stage # "none"
    BY <1>7 DEF ForegroundDies
  <2>3. \A s \in {"dead", "orphan"} : vm' = Becomes({v}, s) => Ages
    BY <1>1, <2>2, BecomesAges DEF Stages, LiveStages
  <2> QED
    BY <1>2, <2>1, <2>3, VMStep
<1> QED
  BY <1>4, <1>5, <1>6, <1>7 DEF Lives

LEMMA DaemonStep ==
  ASSUME CommandsInv, DaemonDies \/ DaemonEnds
  PROVE  CommandsInv'
<1>1. CommandsTypeOK /\ LiveHaveSlots
  BY DEF CommandsInv
<1>2. /\ daemon' \in {"down", "up", "ending"} /\ pid' \in Nat /\ UNCHANGED command
      /\ vm' = Becomes(OfDaemon, "dead")
  BY <1>1 DEF DaemonDies, DaemonEnds, AllOfDaemonDie, CommandsTypeOK
<1>3. OfDaemon \in SUBSET VMs /\ \A v \in OfDaemon : vm[v].stage # "none"
  BY DEF OfDaemon, Started
<1>4. Ages
  BY <1>1, <1>2, <1>3, BecomesAges DEF Stages, LiveStages
<1> QED
  BY <1>2, <1>4, VMStep

-----------------------------------------------------------------------------
(* The actions of commands, but for the beginning of a start and its VM *)

LEMMA ReapStep ==
  ASSUME CommandsInv, vm' = Reaped
  PROVE  /\ Ages
         /\ HasRow' = HasRow
         /\ \A v \in HasRow : vm'[v] = vm[v]
<1>1. CommandsTypeOK /\ LiveHaveSlots
  BY DEF CommandsInv
<1>2. Ages
  <2>1. ASSUME NEW v \in VMs
        PROVE  /\ vm'[v].stage = vm[v].stage
               /\ vm[v].stage \in LiveStages => vm'[v] = vm[v]
               /\ vm[v].stage \notin LiveStages => vm'[v].slot = 0
    BY <1>1, ReapedAges
  <2>2. vm' \in [VMs -> VMRecords]
    BY <1>1, ReapedAges
  <2>3. "gone" \notin LiveStages
    BY DEF LiveStages
  <2> QED
    BY <2>1, <2>2, <2>3 DEF Ages
<1>3. HasRow \subseteq VMs /\ HasRow' \subseteq VMs
  BY DEF HasRow, Started
<1>4. \A v \in HasRow : vm'[v] = vm[v]
  BY <1>1, <1>3, RowsAreLive, ReapedAges
<1>5. HasRow \subseteq HasRow'
  BY <1>3, <1>4 DEF HasRow, Started
<1>6. HasRow' \subseteq HasRow
  BY <1>2, <1>3, AgesKeepRows
<1> QED
  BY <1>2, <1>4, <1>5, <1>6

LEMMA FindOrEnsureStep ==
  ASSUME CommandsInv, NEW c \in Commands, FindOrEnsure(c)
  PROVE  CommandsInv'
<1>1. CommandsTypeOK /\ command[c] \in CommandRecords
  BY RecordTypes DEF CommandsInv
<1>2. vm' = Reaped /\ command[c].op = "start" /\ command[c].step = "find"
  BY DEF FindOrEnsure, At
<1>3. daemon' \in {"down", "up", "ending"} /\ pid' \in Nat
  BY <1>1 DEF FindOrEnsure, CommandsTypeOK
<1>4. CASE FindVMsByWorkDir(command[c].dir) # {}
  BY <1>2, <1>3, <1>4, ReapStep, FinishStep DEF FindOrEnsure
<1>5. CASE FindVMsByWorkDir(command[c].dir) = {}
  <2>1. PICK r : r = [command[c] EXCEPT !.step = "call"]
    OBVIOUS
  <2>2. r \in CommandRecords
    BY <1>1, <2>1 DEF CommandRecords, Steps
  <2>3. /\ r.op = "start" /\ r.step = "call" /\ r.dir = command[c].dir
        /\ r.sole = command[c].sole /\ r.hit = command[c].hit /\ r.sel = command[c].sel
        /\ r.late = command[c].late /\ r.pid = command[c].pid /\ r.con = command[c].con
    BY <1>1, <1>2, <2>1 DEF CommandRecords
  <2>4. command' = [command EXCEPT ![c] = r]
    BY <1>5, <2>1 DEF FindOrEnsure, Goes
  <2>5. HitsItsVM(r)
    BY <2>3 DEF CommandsInv, HitsItsVM
  <2>6. Knows(r)'
    BY <1>2, <2>3 DEF CommandsInv, Knows
  <2>7. FoundNone(r)'
    BY <1>2, <1>5, <2>3, ReapStep DEF FoundNone, FindVMsByWorkDir
  <2> QED
    BY <1>2, <1>3, <2>2, <2>3, <2>4, <2>5, <2>6, <2>7, ReapStep, CommandStep
<1> QED
  BY <1>4, <1>5

LEMMA ResolveStep ==
  ASSUME CommandsInv, NEW c \in Commands, NEW v \in VMs, Resolve(c, v)
  PROVE  CommandsInv'
<1>1. CommandsTypeOK
  BY DEF CommandsInv
<1>2. /\ vm' = Reaped /\ v \in HasRow
      /\ daemon' \in {"down", "up", "ending"} /\ pid' \in Nat
  BY <1>1 DEF Resolve, CommandsTypeOK
<1>3. PICK r : r = [NoCommand EXCEPT !.op = "stop", !.step = "act", !.sel = v,
                      !.slot = vm[v].slot, !.pid = vm[v].pid,
                      !.con = vm[v].kind = "daemon"
                                /\ vm[v].stage \notin {"row", "qemu"}]
  OBVIOUS
<1>4. command' = [command EXCEPT ![c] = r]
  BY <1>3 DEF Resolve
<1>5. v \in 0..MaxVMs /\ vm[v].slot \in 0..MaxVMSlots /\ vm[v].pid \in Nat
  BY <1>1, RecordTypes, VMCommandsAssumption DEF VMs
<1>6. r \in CommandRecords
  BY <1>3, <1>5, NoCommandFits DEF CommandRecords, Steps
<1>7. /\ r.op = "stop" /\ r.step = "act" /\ r.sel = v /\ r.slot = vm[v].slot
      /\ r.hit = {}
  BY <1>3, NoCommandFits DEF CommandRecords
<1>8. Knows(r)'
  BY <1>2, <1>7, ReapStep DEF Knows, HasRow
<1>9. HitsItsVM(r) /\ FoundNone(r)'
  BY <1>7 DEF HitsItsVM, FoundNone
<1> QED
  BY <1>2, <1>4, <1>6, <1>7, <1>8, <1>9, ReapStep, CommandStep

\* What a stop goes on with once it has told vs to end.
LEMMA HitStep ==
  ASSUME CommandsInv, Ages, daemon' \in {"down", "up", "ending"}, UNCHANGED pid,
         NEW c \in Commands, At(c, "stop", "act"), NEW vs \in SUBSET VMs,
         Hits(c, vs, "poll"),
         vs \subseteq {command[c].sel} \/ (command[c].pid # 0 /\ ~command[c].con)
  PROVE  CommandsInv'
<1>1. CommandsTypeOK /\ command[c] \in CommandRecords /\ pid' \in Nat
  BY RecordTypes DEF CommandsInv, CommandsTypeOK
<1>2. PICK l \in BOOLEAN : l = Ended(command[c].sel)
  <2>1. Ended(command[c].sel) \in BOOLEAN
    BY SMT DEF Ended
  <2> QED
    BY <2>1, Zenon
<1>10. PICK r : r = [command[c] EXCEPT !.step = "poll", !.hit = vs, !.late = l]
  OBVIOUS
<1>3. command' = [command EXCEPT ![c] = r]
  BY <1>2, <1>10 DEF Hits
<1>4. r \in CommandRecords
  BY <1>1, <1>10 DEF CommandRecords, Steps
<1>5. /\ r.op = "stop" /\ r.step = "poll" /\ r.hit = vs /\ r.sel = command[c].sel
      /\ r.slot = command[c].slot /\ r.pid = command[c].pid /\ r.con = command[c].con
  BY <1>1, <1>10 DEF CommandRecords, At
<1>6. Knows(command[c]) /\ command[c].step = "act"
  BY DEF CommandsInv, At
<1>7. Started \subseteq VMs
  BY DEF Started
<1>8. Knows(r)'
  BY <1>5, <1>6, <1>7, AgesKeepRows DEF Knows
<1>9. HitsItsVM(r) /\ FoundNone(r)'
  BY <1>5 DEF HitsItsVM, FoundNone
<1> QED
  BY <1>1, <1>3, <1>4, <1>5, <1>8, <1>9, CommandStep

LEMMA StopSignalsStep ==
  ASSUME CommandsInv, NEW c \in Commands, StopSignals(c)
  PROVE  CommandsInv'
<1>1. CommandsTypeOK /\ LiveHaveSlots
  BY DEF CommandsInv
<1>2. At(c, "stop", "act") /\ UNCHANGED pid
  BY DEF StopSignals
<1>3. CASE command[c].con \/ (command[c].pid # 0 /\ ~(daemon # "down" /\ pid = command[c].pid))
  <2>1. Hits(c, {}, "poll") /\ UNCHANGED <<vm, daemon>>
    BY <1>3 DEF StopSignals, SignalOwner
  <2>2. Ages /\ daemon' \in {"down", "up", "ending"}
    BY <1>1, <2>1, UnchangedAges DEF CommandsTypeOK
  <2> QED
    BY <1>2, <2>1, <2>2, HitStep
<1>4. CASE ~command[c].con /\ command[c].pid # 0 /\ daemon # "down" /\ pid = command[c].pid
  <2>1. /\ daemon' = "ending"
        /\ vm' = Becomes({x \in OfDaemon : vm[x].stage = "served"}, "stopping")
        /\ Hits(c, {x \in OfDaemon : ~Ended(x)}, "poll")
    BY <1>4 DEF StopSignals, SignalOwner
  <2>2. OfDaemon \subseteq VMs
    BY DEF OfDaemon, Started
  <2>3. Ages
    BY <1>1, <2>1, <2>2, BecomesAges DEF Stages, LiveStages
  <2> QED
    BY <1>2, <1>4, <2>1, <2>2, <2>3, HitStep
<1>5. CASE ~command[c].con /\ command[c].pid = 0
  <2> DEFINE v == command[c].sel
  <2>1. /\ UNCHANGED daemon /\ Hits(c, {v}, "poll")
        /\ vm' = IF vm[v].stage = "served" THEN Becomes({v}, "stopping")
                 ELSE IF vm[v].stage \in {"row", "qemu"} THEN Becomes({v}, Orphaned(v))
                 ELSE vm
    BY <1>5 DEF StopSignals, SignalOwner
  <2>2. v \in VMs
    BY <1>2 DEF CommandsInv, Knows, At, Started
  <2>3. Ages
    <3>1. CASE vm[v].stage = "served"
      BY <1>1, <2>1, <2>2, <3>1, BecomesAges DEF Stages, LiveStages
    <3>2. CASE vm[v].stage \in {"row", "qemu"}
      <4>1. Orphaned(v) \in {"dead", "orphan"} /\ vm' = Becomes({v}, Orphaned(v))
        BY <2>1, <3>2 DEF Orphaned
      <4>2. \A s \in {"dead", "orphan"} : vm' = Becomes({v}, s) => Ages
        BY <1>1, <2>2, <3>2, BecomesAges DEF Stages, LiveStages
      <4> QED
        BY <4>1, <4>2
    <3>3. CASE vm[v].stage \notin {"served", "row", "qemu"}
      BY <2>1, <3>3, UnchangedAges
    <3> QED
      BY <3>1, <3>2, <3>3
  <2>4. daemon' \in {"down", "up", "ending"}
    BY <1>1, <2>1 DEF CommandsTypeOK
  <2> QED
    BY <1>2, <2>1, <2>2, <2>3, <2>4, HitStep
<1>6. command[c].con \in BOOLEAN
  BY <1>1, RecordTypes
<1> QED
  BY <1>3, <1>4, <1>5, <1>6

\* The VM that the daemon has under the number of the row's slot.
LEMMA StopRPCStep ==
  ASSUME CommandsInv, NEW c \in Commands, StopRPC(c)
  PROVE  CommandsInv'
<1>1. /\ CommandsTypeOK /\ LiveHaveSlots /\ RowsDiffer /\ command[c] \in CommandRecords
      /\ daemon' \in {"down", "up", "ending"} /\ pid' \in Nat
  BY RecordTypes DEF CommandsInv, CommandsTypeOK, StopRPC
<1>2. command[c].step = "act" /\ Knows(command[c])
  BY DEF CommandsInv, StopRPC, At
<1>3. CASE Registered(command[c].slot) = {}
  BY <1>1, <1>3, UnchangedAges, FinishStep DEF StopRPC
<1>4. CASE Registered(command[c].slot) # {}
  <2>1. PICK v \in Registered(command[c].slot) :
          /\ command' = [command EXCEPT ![c].step = "wait", ![c].target = v,
                                        ![c].hit = {v}, ![c].late = Ended(command[c].sel)]
          /\ vm' = IF vm[v].stage = "served" THEN Becomes({v}, "stopping") ELSE vm
    BY <1>4 DEF StopRPC
  <2>2. /\ v \in VMs /\ vm[v].slot = command[c].slot
        /\ vm[v].stage \in {"served", "stopping", "ended"}
    BY <2>1 DEF Registered, OfDaemon, Started
  <2>3. v \in HasRow
    BY <1>1, <2>2, RowsAreLive DEF LiveStages
  <2>4. command[c].sel \in VMs
    BY <1>2 DEF Knows, Started
  <2>5. v = command[c].sel \/ command[c].sel \notin HasRow
    BY <1>1, <1>2, <2>2, <2>3, <2>4 DEF Knows, RowsDiffer
  <2>6. v = command[c].sel \/ Ended(command[c].sel)
    <3>1. CASE command[c].sel \notin HasRow
      <4>1. vm[command[c].sel].stage \notin LiveStages /\ vm[command[c].sel].stage \in Stages
        BY <1>1, <2>4, <3>1, RowsAreLive, RecordTypes
      <4>2. vm[command[c].sel].stage # "none"
        BY <1>2 DEF Knows, Started
      <4> QED
        BY <4>1, <4>2 DEF Stages, LiveStages, Ended
    <3> QED
      BY <2>5, <3>1
  <2>7. Ages
    <3>1. CASE vm[v].stage = "served"
      BY <1>1, <2>1, <2>2, <3>1, BecomesAges DEF Stages, LiveStages
    <3>2. CASE vm[v].stage # "served"
      BY <2>1, <3>2, UnchangedAges
    <3> QED
      BY <3>1, <3>2
  <2>8. PICK l \in BOOLEAN : l = Ended(command[c].sel)
    <3>1. Ended(command[c].sel) \in BOOLEAN
      BY SMT DEF Ended
    <3> QED
      BY <3>1, Zenon
  <2>9. PICK r : r = [command[c] EXCEPT !.step = "wait", !.target = v, !.hit = {v}, !.late = l]
    OBVIOUS
  <2>10. command' = [command EXCEPT ![c] = r]
    BY <2>1, <2>8, <2>9
  <2>11. v \in 0..MaxVMs
    BY <2>2, VMCommandsAssumption DEF VMs
  <2>12. r \in CommandRecords
    BY <1>1, <2>2, <2>9, <2>11 DEF CommandRecords, Steps
  <2>13. /\ r.op = "stop" /\ r.step = "wait" /\ r.target = v /\ r.hit = {v} /\ r.late = l
         /\ r.sel = command[c].sel /\ r.slot = command[c].slot
    BY <1>1, <2>9 DEF CommandRecords, StopRPC, At
  <2>14. HasRow' \subseteq VMs
    BY DEF HasRow, Started
  <2>15. Knows(r)'
    BY <1>2, <2>2, <2>5, <2>7, <2>13, <2>14, AgesKeepRows DEF Knows
  <2>16. HitsItsVM(r)
    BY <2>6, <2>8, <2>13 DEF HitsItsVM
  <2>17. FoundNone(r)'
    BY <2>13 DEF FoundNone
  <2> QED
    BY <1>1, <2>7, <2>10, <2>12, <2>13, <2>15, <2>16, <2>17, CommandStep
<1> QED
  BY <1>3, <1>4

\* A stop reports the end of a VM that has no row any more.
LEMMA ReportStep ==
  ASSUME CommandsInv, Ages, daemon' \in {"down", "up", "ending"}, pid' \in Nat,
         NEW c \in Commands, Reports(c),
         command[c].sel \in Started, command[c].sel \notin HasRow
  PROVE  CommandsInv'
<1>1. command[c].sel \in 0..MaxVMs /\ command[c].sel \in VMs
  BY RecordTypes DEF CommandsInv, Started
<1>2. PICK r : r = [NoCommand EXCEPT !.op = "stop", !.step = "stopped", !.sel = command[c].sel]
  OBVIOUS
<1>3. command' = [command EXCEPT ![c] = r]
  BY <1>2 DEF Reports
<1>4. r \in CommandRecords
  BY <1>1, <1>2, NoCommandFits DEF CommandRecords, Steps
<1>5. r.op = "stop" /\ r.step = "stopped" /\ r.sel = command[c].sel /\ r.hit = {}
  BY <1>2, NoCommandFits DEF CommandRecords
<1>6. Knows(r)'
  BY <1>1, <1>5, AgesKeepRows DEF Knows
<1>7. HitsItsVM(r) /\ FoundNone(r)'
  BY <1>5 DEF HitsItsVM, FoundNone
<1> QED
  BY <1>3, <1>4, <1>5, <1>6, <1>7, CommandStep

LEMMA StopRPCReturnsStep ==
  ASSUME CommandsInv, NEW c \in Commands, StopRPCReturns(c)
  PROVE  CommandsInv'
<1>1. /\ CommandsTypeOK /\ LiveHaveSlots
      /\ daemon' \in {"down", "up", "ending"} /\ pid' \in Nat /\ UNCHANGED vm
  BY DEF CommandsInv, CommandsTypeOK, StopRPCReturns
<1>2. Knows(command[c]) /\ command[c].step = "wait"
  BY DEF CommandsInv, StopRPCReturns, At
<1>3. CASE vm[command[c].target].stage = "gone" /\ Reports(c)
  <2>1. /\ command[c].target \in VMs
        /\ command[c].target = command[c].sel \/ command[c].sel \notin HasRow
    BY <1>2 DEF Knows
  <2>2. command[c].target \notin HasRow
    BY <1>1, <1>3, <2>1, RowsAreLive DEF LiveStages
  <2>3. command[c].sel \in Started
    BY <1>2 DEF Knows
  <2> QED
    BY <1>1, <1>3, <2>1, <2>2, <2>3, UnchangedAges, ReportStep
<1>4. CASE Finishes(c)
  BY <1>1, <1>4, UnchangedAges, FinishStep
<1> QED
  BY <1>3, <1>4 DEF StopRPCReturns

LEMMA PollStep ==
  ASSUME CommandsInv, NEW c \in Commands, Poll(c)
  PROVE  CommandsInv'
<1>1. /\ daemon' \in {"down", "up", "ending"} /\ pid' \in Nat
      /\ vm' = Reaped /\ Reports(c)
      /\ \A v \in HasRow : vm[v].slot # command[c].slot
  BY DEF CommandsInv, CommandsTypeOK, Poll
<1>2. Knows(command[c]) /\ command[c].step = "poll"
  BY DEF CommandsInv, Poll, At
<1>3. command[c].sel \in Started /\ command[c].sel \notin HasRow
  BY <1>1, <1>2 DEF Knows
<1> QED
  BY <1>1, <1>3, ReapStep, ReportStep

\* A start gets its VM.
LEMMA NewVMStep ==
  ASSUME CommandsInv, NEW c \in Commands, NEW kind \in {"daemon", "fg"}, NewVM(c, kind),
         command[c].step = "call", command[c].op = IF kind = "daemon" THEN "start" ELSE "fg"
  PROVE  CommandsInv'
<1>1. /\ CommandsTypeOK /\ LiveHaveSlots /\ RowsDiffer /\ StartedInOrder /\ SoleIsAlone
      /\ SecondOnlyByOverlap /\ command[c] \in CommandRecords
      /\ daemon' \in {"down", "up", "ending"} /\ pid' \in Nat
  BY RecordTypes DEF CommandsInv, CommandsTypeOK, NewVM
<1>2. PICK v \in VMs \ Started, s \in Free :
        /\ \A w \in VMs \ Started : v <= w
        /\ vm' = [Reaped EXCEPT ![v] =
             [stage |-> "row", kind |-> kind,
              pid |-> IF kind = "daemon" THEN pid ELSE 0,
              dir |-> command[c].dir, slot |-> s, sole |-> command[c].sole]]
        /\ command' = [command EXCEPT ![c].step = "boot", ![c].sel = v]
  BY DEF NewVM
<1>3. PICK r : r = [stage |-> "row", kind |-> kind,
                    pid |-> IF kind = "daemon" THEN pid ELSE 0,
                    dir |-> command[c].dir, slot |-> s, sole |-> command[c].sole]
  OBVIOUS
<1>4. s \in 0..MaxVMSlots /\ s # 0 /\ \A w \in HasRow : vm[w].slot # s
  BY VMCommandsAssumption DEF Free, Slots
<1>5. /\ r \in VMRecords
      /\ r.stage = "row" /\ r.kind = kind /\ r.slot = s /\ r.dir = command[c].dir
      /\ r.sole = command[c].sole
  <2>1. (IF kind = "daemon" THEN pid ELSE 0) \in Nat
    BY <1>1 DEF CommandsTypeOK
  <2>2. command[c].dir \in Worktrees \cup {None} /\ command[c].sole \in BOOLEAN
    BY <1>1, RecordTypes
  <2> QED
    BY <1>3, <1>4, <2>1, <2>2 DEF VMRecords, Stages, LiveStages
<1>6. /\ vm' \in [VMs -> VMRecords]
      /\ vm'[v] = r
      /\ \A w \in VMs \ {v} : vm'[w] = Reaped[w]
  BY <1>1, <1>2, <1>3, <1>5, ReapedAges
<1>7. /\ HasRow \subseteq VMs /\ Started \subseteq VMs /\ Started' \subseteq VMs
      /\ HasRow' \subseteq VMs /\ v \notin HasRow
  BY <1>2 DEF HasRow, Started
<1>8. \A w \in HasRow : vm'[w] = vm[w]
  BY <1>1, <1>6, <1>7, ReapedAges, RowsAreLive
<1>9. Started' = Started \cup {v}
  <2>1. \A w \in VMs \ {v} : vm'[w].stage = vm[w].stage
    BY <1>1, <1>6, ReapedAges
  <2>2. vm'[v].stage = "row"
    BY <1>5, <1>6
  <2> QED
    BY <1>2, <2>1, <2>2 DEF Started
<1>10. LiveHaveSlots'
  <2>1. \A w \in VMs \ {v} : /\ vm'[w].stage \in LiveStages => vm'[w].slot # 0
                             /\ vm'[w].stage = "gone" => vm'[w].slot = 0
    BY <1>1, <1>6, ReapedAges DEF LiveHaveSlots, LiveStages
  <2>2. vm'[v].slot # 0 /\ vm'[v].stage # "gone"
    BY <1>4, <1>5, <1>6
  <2> QED
    BY <2>1, <2>2 DEF LiveHaveSlots
<1>11. HasRow' = HasRow \cup {v}
  <2>1. v \in HasRow'
    BY <1>4, <1>5, <1>6, <1>9 DEF HasRow
  <2>2. \A w \in HasRow : w \in HasRow'
    BY <1>8, <1>9 DEF HasRow
  <2>3. \A w \in VMs \ {v} : w \in HasRow' => w \in HasRow
    <3> SUFFICES ASSUME NEW w \in VMs \ {v}, w \in HasRow' PROVE w \in HasRow
      OBVIOUS
    <3>1. /\ vm'[w].slot # 0 /\ vm'[w].stage \notin {"dead", "orphan"} /\ w \in Started'
      BY DEF HasRow
    <3>2. w \in Started
      BY <1>9, <3>1
    <3>3. vm'[w] = Reaped[w]
      BY <1>6
    <3>4. vm[w].stage \in LiveStages
      BY <1>1, <3>1, <3>3, ReapedAges
    <3> QED
      BY <1>1, <3>4, RowsAreLive
  <2> QED
    BY <1>7, <2>1, <2>2, <2>3
<1>12. RowsDiffer'
  BY <1>1, <1>4, <1>5, <1>6, <1>8, <1>11 DEF RowsDiffer
<1>13. StartedInOrder'
  BY <1>1, <1>2, <1>9 DEF StartedInOrder, VMs
<1>14. PICK q : q = [command[c] EXCEPT !.step = "boot", !.sel = v]
  OBVIOUS
<1>15. v \in 0..MaxVMs
  BY VMCommandsAssumption DEF VMs
<1>16. /\ q \in CommandRecords
       /\ q.step = "boot" /\ q.sel = v /\ q.hit = command[c].hit /\ q.late = command[c].late
       /\ q.pid = command[c].pid /\ q.con = command[c].con /\ q.dir = command[c].dir
  BY <1>1, <1>14, <1>15 DEF CommandRecords, Steps
<1>17. command' = [command EXCEPT ![c] = q]
  BY <1>2, <1>14
<1>18. command' \in [Commands -> CommandRecords]
       /\ \A d \in Commands : command'[d] = IF d = c THEN q ELSE command[d]
  BY <1>1, <1>16, <1>17 DEF CommandsTypeOK
<1>19. CommandsTypeOK'
  BY <1>1, <1>6, <1>18 DEF CommandsTypeOK
<1>20. SoleIsAlone'
  BY <1>1, <1>16, <1>18 DEF SoleIsAlone, Starting
<1>21. ASSUME NEW d \in Commands
       PROVE  Knows(command[d])' /\ HitsItsVM(command[d])' /\ FoundNone(command[d])'
  <2>0. Knows(command[d]) /\ HitsItsVM(command[d]) /\ FoundNone(command[d])
    BY DEF CommandsInv
  <2>1. CASE d = c
    <3>1. command'[d] = q /\ q.hit = {}
      BY <1>16, <1>18, <2>0, <2>1 DEF Knows
    <3>2. Knows(command[d])'
      BY <1>16, <3>1 DEF Knows
    <3>3. HitsItsVM(command[d])'
      BY <3>1 DEF HitsItsVM
    <3>4. FoundNone(command[d])'
      BY <1>16, <3>1 DEF FoundNone
    <3> QED
      BY <3>2, <3>3, <3>4
  <2>2. CASE d # c
    <3>1. command'[d] = command[d]
      BY <1>18, <2>2
    <3>2. Knows(command[d])'
      <4>1. \A u \in Started : u \in Started' /\ u # v /\ (u \in HasRow' <=> u \in HasRow)
        BY <1>2, <1>9, <1>11
      <4> QED
        BY <1>8, <2>0, <3>1, <4>1 DEF Knows
    <3>3. HitsItsVM(command[d])'
      BY <2>0, <3>1 DEF HitsItsVM
    <3>4. FoundNone(command[d])'
      <4> SUFFICES ASSUME command[d].op = "start", command[d].step = "call", command[d].sole
                   PROVE  \A w \in HasRow' : vm'[w].dir # command[d].dir
        BY <3>1 DEF FoundNone
      <4>1. command[d].dir # command[c].dir
        BY <1>1, <2>2 DEF SoleIsAlone, Starting
      <4> QED
        BY <1>5, <1>6, <1>8, <1>11, <2>0, <4>1 DEF FoundNone
    <3> QED
      BY <3>2, <3>3, <3>4
  <2> QED
    BY <2>1, <2>2
<1>22. SecondOnlyByOverlap'
  <2> SUFFICES ASSUME NEW u \in HasRow', NEW w \in HasRow', u < w,
                      vm'[w].kind = "daemon", vm'[w].sole
               PROVE  vm'[u].dir # vm'[w].dir
    BY DEF SecondOnlyByOverlap
  <2>1. CASE w = v
    <3>1. u \in HasRow /\ vm'[u] = vm[u]
      BY <1>7, <1>8, <1>11, <2>1 DEF VMs
    <3>2. FoundNone(command[c])
      BY DEF CommandsInv
    <3>3. kind = "daemon" /\ command[c].sole /\ vm'[w].dir = command[c].dir
      BY <1>5, <1>6, <2>1
    <3> QED
      BY <3>1, <3>2, <3>3 DEF FoundNone
  <2>2. CASE u = v
    <3>1. w \in Started
      BY <1>2, <1>7, <1>11, <2>2 DEF VMs, HasRow
    <3> QED
      BY <1>1, <1>2, <1>7, <2>2, <3>1 DEF StartedInOrder
  <2>3. CASE u # v /\ w # v
    BY <1>1, <1>8, <1>11, <2>3 DEF SecondOnlyByOverlap
  <2> QED
    BY <2>1, <2>2, <2>3
<1> QED
  BY <1>10, <1>12, <1>13, <1>19, <1>20, <1>21, <1>22 DEF CommandsInv

LEMMA BeginStep ==
  ASSUME CommandsInv, NEW c \in Commands, NEW op \in {"start", "fg"},
         NEW w \in Worktrees, Begin(c, op, w)
  PROVE  CommandsInv'
<1>1. /\ CommandsTypeOK /\ SoleIsAlone
      /\ UNCHANGED <<vm, daemon, pid>> /\ command[c].step = "idle"
  BY DEF CommandsInv, Begin
<1>2. PICK r : r = [NoCommand EXCEPT !.op = op, !.dir = w,
                                     !.step = IF op = "start" THEN "find" ELSE "call",
                                     !.sole = Starting(w) = {}]
  OBVIOUS
<1>3. PICK l \in BOOLEAN : l = (Starting(w) = {})
  OBVIOUS
<1>4. r = [NoCommand EXCEPT !.op = op, !.dir = w,
                            !.step = IF op = "start" THEN "find" ELSE "call", !.sole = l]
  BY <1>2, <1>3
<1>5. /\ r \in CommandRecords
      /\ r.op = op /\ r.dir = w /\ r.step = IF op = "start" THEN "find" ELSE "call"
      /\ r.sole = l /\ r.hit = {}
  BY <1>4, NoCommandFits DEF CommandRecords, Steps
<1>6. command' = [d \in Commands |->
                    IF d = c THEN r
                    ELSE IF d \in Starting(w) THEN [command[d] EXCEPT !.sole = FALSE]
                    ELSE command[d]]
  BY <1>2 DEF Begin
<1>7. \A d \in Commands : command[d] \in CommandRecords
  BY <1>1, RecordTypes
<1>8. ASSUME NEW d \in Commands, d # c
      PROVE  /\ command'[d] \in CommandRecords
             /\ command'[d].op = command[d].op /\ command'[d].step = command[d].step
             /\ command'[d].dir = command[d].dir /\ command'[d].sel = command[d].sel
             /\ command'[d].slot = command[d].slot /\ command'[d].pid = command[d].pid
             /\ command'[d].con = command[d].con /\ command'[d].target = command[d].target
             /\ command'[d].hit = command[d].hit /\ command'[d].late = command[d].late
             /\ command'[d].sole = IF d \in Starting(w) THEN FALSE ELSE command[d].sole
  <2>1. CASE d \in Starting(w)
    <3>1. command'[d] = [command[d] EXCEPT !.sole = FALSE]
      BY <1>6, <1>8, <2>1
    <3> QED
      BY <1>7, <2>1, <3>1 DEF CommandRecords
  <2>2. CASE d \notin Starting(w)
    BY <1>6, <1>7, <1>8, <2>2
  <2> QED
    BY <2>1, <2>2
<1>9. command'[c] = r
  BY <1>6
<1>10. CommandsTypeOK'
  <2>1. command' \in [Commands -> CommandRecords]
    BY <1>5, <1>6, <1>8, <1>9
  <2> QED
    BY <1>1, <2>1 DEF CommandsTypeOK
<1>11. ASSUME NEW d \in Commands
       PROVE  Knows(command[d])' /\ HitsItsVM(command[d])' /\ FoundNone(command[d])'
  <2>0. Knows(command[d]) /\ HitsItsVM(command[d]) /\ FoundNone(command[d])
    BY DEF CommandsInv
  <2>1. CASE d # c
    <3>1. Knows(command[d])'
      BY <1>1, <1>8, <2>0, <2>1 DEF Knows, HasRow, Started
    <3>2. HitsItsVM(command[d])'
      BY <1>8, <2>0, <2>1 DEF HitsItsVM
    <3>3. FoundNone(command[d])'
      <4>1. HasRow' = HasRow /\ vm' = vm
        BY <1>1 DEF HasRow, Started
      <4>2. ASSUME command'[d].op = "start", command'[d].step = "call", command'[d].sole
            PROVE  /\ command[d].op = "start" /\ command[d].step = "call" /\ command[d].sole
                   /\ command'[d].dir = command[d].dir
        BY <1>8, <2>1, <4>2
      <4> QED
        BY <2>0, <4>1, <4>2 DEF FoundNone
    <3> QED
      BY <3>1, <3>2, <3>3
  <2>2. CASE d = c
    <3>1. Knows(command[d])'
      BY <1>5, <1>9, <2>2 DEF Knows
    <3>2. HitsItsVM(command[d])'
      BY <1>5, <1>9, <2>2 DEF HitsItsVM
    <3>3. FoundNone(command[d])'
      BY <1>5, <1>9, <2>2 DEF FoundNone
    <3> QED
      BY <3>1, <3>2, <3>3
  <2> QED
    BY <2>1, <2>2
<1>12. SoleIsAlone'
  <2> SUFFICES ASSUME NEW d \in Commands, NEW e \in Commands, d # e,
                      command'[d].sole, command'[d].dir = command'[e].dir,
                      command'[d].op \in {"start", "fg"}, command'[d].step \in {"find", "call"},
                      command'[e].op \in {"start", "fg"}, command'[e].step \in {"find", "call"}
               PROVE  FALSE
    BY DEF SoleIsAlone, Starting
  <2>1. CASE d = c
    <3>1. e \in Starting(w)
      BY <1>5, <1>8, <1>9, <2>1 DEF Starting
    <3>2. l
      BY <1>5, <1>9, <2>1
    <3> QED
      BY <1>3, <3>1, <3>2
  <2>2. CASE e = c
    <3>1. command'[d].dir = w
      BY <1>5, <1>9, <2>2
    <3>2. d \in Starting(w)
      BY <1>8, <2>2, <3>1 DEF Starting
    <3> QED
      BY <1>8, <2>2, <3>2
  <2>3. CASE d # c /\ e # c
    <3>1. d \in Starting(command[d].dir) /\ e \in Starting(command[d].dir)
      BY <1>8, <2>3 DEF Starting
    <3>2. command[d].sole
      BY <1>8, <2>3
    <3> QED
      BY <1>1, <3>1, <3>2 DEF SoleIsAlone
  <2> QED
    BY <2>1, <2>2, <2>3
<1>13. /\ LiveHaveSlots' /\ RowsDiffer' /\ StartedInOrder' /\ SecondOnlyByOverlap'
  BY <1>1 DEF CommandsInv, LiveHaveSlots, RowsDiffer, StartedInOrder, SecondOnlyByOverlap,
              HasRow, Started
<1> QED
  BY <1>10, <1>11, <1>12, <1>13 DEF CommandsInv

-----------------------------------------------------------------------------
(* The theorems *)

LEMMA CommandsInitially == CommandsInit => CommandsInv
<1> SUFFICES ASSUME CommandsInit PROVE CommandsInv
  OBVIOUS
<1>1. NoVM \in VMRecords /\ NoVM.stage = "none"
  BY VMCommandsAssumption DEF NoVM, VMRecords, Stages
<1>2. CommandsTypeOK
  BY <1>1, NoCommandFits DEF CommandsInit, CommandsTypeOK
<1>3. \A v \in VMs : vm[v].stage = "none"
  BY <1>1 DEF CommandsInit
<1>4. Started = {} /\ HasRow = {}
  BY <1>3 DEF Started, HasRow
<1>5. LiveHaveSlots /\ RowsDiffer /\ StartedInOrder /\ SecondOnlyByOverlap
  BY <1>3, <1>4 DEF LiveHaveSlots, LiveStages, RowsDiffer, StartedInOrder, SecondOnlyByOverlap
<1>6. \A c \in Commands : command[c] = NoCommand
  BY DEF CommandsInit
<1>7. SoleIsAlone
  BY <1>6, NoCommandFits DEF SoleIsAlone, Starting
<1>8. \A c \in Commands : Knows(command[c]) /\ HitsItsVM(command[c]) /\ FoundNone(command[c])
  BY <1>6, NoCommandFits DEF Knows, HitsItsVM, FoundNone
<1> QED
  BY <1>2, <1>5, <1>7, <1>8 DEF CommandsInv

LEMMA CommandsInductive == CommandsInv /\ [CommandsNext]_vmsVars => CommandsInv'
<1> SUFFICES ASSUME CommandsInv, [CommandsNext]_vmsVars PROVE CommandsInv'
  OBVIOUS
<1>1. CommandsTypeOK
  BY DEF CommandsInv
<1>2. CASE UNCHANGED vmsVars
  BY <1>1, <1>2, UnchangedAges, VMStep DEF vmsVars, CommandsTypeOK
<1>3. ASSUME NEW c \in Commands, Run(c) PROVE CommandsInv'
  <2>1. CASE \E op \in {"start", "fg"}, w \in Worktrees : Begin(c, op, w)
    BY <2>1, BeginStep
  <2>2. CASE FindOrEnsure(c)
    BY <2>2, FindOrEnsureStep
  <2>3. CASE CallStartVM(c)
    BY <2>3, NewVMStep DEF CallStartVM, At
  <2>4. CASE CallFails(c) \/ StartEnds(c) \/ Finish(c)
    <3>1. UNCHANGED <<vm, daemon, pid>> /\ Finishes(c)
      BY <2>4 DEF CallFails, StartEnds, Finish
    <3> QED
      BY <1>1, <3>1, UnchangedAges, FinishStep DEF CommandsTypeOK
  <2>5. CASE \E v \in VMs : Resolve(c, v)
    BY <2>5, ResolveStep
  <2>6. CASE StopRPC(c)
    BY <2>6, StopRPCStep
  <2>7. CASE StopRPCReturns(c)
    BY <2>7, StopRPCReturnsStep
  <2>8. CASE StopSignals(c)
    BY <2>8, StopSignalsStep
  <2>9. CASE Poll(c)
    BY <2>9, PollStep
  <2>10. CASE PollTimesOut(c)
    BY <1>1, <2>10, ReapStep, FinishStep DEF PollTimesOut, CommandsTypeOK
  <2> QED
    BY <1>3, <2>1, <2>2, <2>3, <2>4, <2>5, <2>6, <2>7, <2>8, <2>9, <2>10 DEF Run
<1> QED
  BY <1>2, <1>3, LivesStep, DaemonStep DEF CommandsNext

\* Every reachable state is well typed and keeps the books of rows, starts and
\* stops that the theorems below rest on.
THEOREM CommandsAreConsistent == CommandsSpec => []CommandsInv
<1> QED
  BY CommandsInitially, CommandsInductive, PTL DEF CommandsSpec

\* vm.go:223: a worktree gets a second VM of the daemon only if two starts for
\* it overlapped, however VMs, commands and daemons come and go.
THEOREM SecondVMNeedsOverlap == CommandsSpec => []SecondOnlyByOverlap
<1>1. CommandsInv => SecondOnlyByOverlap
  BY DEF CommandsInv
<1> QED
  BY <1>1, CommandsAreConsistent, PTL

\* vm_stop.go:46-77: a stop tells no VM to end but the one whose row it read,
\* unless that one had ended, or was a daemon's VM without a console.
THEOREM StopsHitTheirVM == CommandsSpec => []StopHitsItsVM
<1>1. CommandsInv => StopHitsItsVM
  BY DEF CommandsInv, HitsItsVM, StopHitsItsVM
<1> QED
  BY <1>1, CommandsAreConsistent, PTL

\* vm_stop.go:55 and :84: what is reported as stopped has ended or has lost
\* its owner.
THEOREM StoppedVMsHaveEnded == CommandsSpec => []StoppedHasEnded
<1>1. CommandsInv => StoppedHasEnded
  <2> SUFFICES ASSUME CommandsInv, NEW c \in Commands, command[c].step = "stopped"
               PROVE  command[c].sel \notin Running
    BY DEF StoppedHasEnded
  <2>1. command[c].sel \in VMs /\ command[c].sel \notin HasRow
    BY DEF CommandsInv, Knows, Started
  <2>2. vm[command[c].sel].stage \notin LiveStages
    BY <2>1, RowsAreLive DEF CommandsInv
  <2> QED
    BY <2>2 DEF Running, LiveStages
<1> QED
  BY <1>1, CommandsAreConsistent, PTL

=============================================================================
