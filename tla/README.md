# TLA+ models of homura

homura runs coding agents in disposable QEMU virtual machines: a command line
(`homura`), a per-user daemon that owns detached VMs, a machine-wide table of VM
slots in SQLite, a 9P server that shows a VM selected host paths, and a FUSE
client inside the guest. These modules model the parts in which several
processes or goroutines share state, the configurations check them with TLC on
small instances, and the `*Proofs` modules prove every invariant
the runs check, for every instance, with TLAPS. `PROJECT.json` maps every definition to the lines it models
and lists runs, mutants, findings, hazards and theorems.

## Inventory

| Component | State | Operations | Talks to | Hard behaviour |
|---|---|---|---|---|
| Slot table (`internal/vm/globalstate.go`) | rows of `vm_slots` | cleanup, peek, allocate, update, release, find/list | every homura process, through one SQLite file | several statements per operation, owners that die, pid reuse |
| VM lifecycle (`internal/vm/vm.go`, `virtiofsd.go`, `passt.go`) | state directory, share daemon, token file, passt, QEMU | `NewVM`, `Start`, `Wait`, `Shutdown`, `Cleanup` | slot table, child processes | an error or a kill between any two steps |
| Daemon server (`internal/daemon/server.go`) | `vms`, `inflight`, `idleTimer`, `startMu`, global output writer | one goroutine per request, per VM, per timer, for signals | VM lifecycle, clients | decisions under `s.mu` acted on after the unlock; slot reuse |
| Daemon spawn (`internal/daemon/client.go`, `Run`) | lock file, socket path | `Dial`, `EnsureDaemon`, `Run`, teardown | file system | concurrent spawns, teardown against spawn, killed daemons |
| VM commands (`internal/commands`) | none of their own | `vm`, `vm stop`, `vm run`, `vm attach` | slot table, daemon | check, then act, on another process's state |
| Event stream (`connWriter`, `eventWriter`, `CallStream`) | frames on a connection | log events, one terminating frame | daemon, clients | output of children that arrives late |
| Path registry (`9passthrough/pathregistry.go`) | map of exposed paths, trie | `AddPath`, `RemovePath`, `CheckPath`, `IsReadOnly`, `GetExposedChildren` | control server, virtual file system | overlapping paths added and removed in any order |
| Request queue and control server (`9passthrough/requests.go`, `control.go`) | pending guest requests | request, approve, deny, close | registry, guest tool | an answer given before the approved action ran |
| Virtual file system (`9passthrough/virtualfs.go`) | open handles | the 9P operations | registry, host files | checks and uses of a path that changes in between |
| mmap registry (`9passthrough/mmapregistry.go`, guest `mmap.go`) | mapped regions, watchers | register, write, unregister, notify | guest, host files | a watcher racing writes and unregistration |
| Guest client (`guest/9pfuse`) | attribute cache, fids | FUSE operations, invalidation | 9P server | replies that arrive after an invalidation |
| Snapshots, worktree copies | files, git branches | create, prune; clone, rm | file system, git | interrupted half way |
| Image building (`internal/vm/build.go`) | image cache, container engine | downloads, builds, keys, export | every process that starts a VM | several builders without a lock, killed builds, files that stay |
| QEMU arguments, Lua configuration, guest request tool, test tools | - | - | - | input and output only |

What makes each of them correct:

* **Slot table.** A live VM keeps its row, address and ports; nothing of a live VM
  is removed; what a dead owner left is found and freed.
* **Lifecycle.** Whatever step fails, what was created by then is undone.
* **Daemon.** Its books (VMs, requests, timer, writer) agree with what runs; it
  ends when idle and only then; a stop that succeeded left nothing.
* **Spawn.** At most one daemon listens, it can be reached, and a client gets one.
* **Registry.** A path is visible, read-only and listed exactly as the exposed
  paths call for.
* **Control servers.** Nothing becomes visible without the user; a guest is
  answered what was decided, once.
* **Virtual file system.** No operation acts on a path that it never had the right
  to; a fid follows its file through renames.
* **Guest client.** Every fid is closed once; what a request changes does not
  outlive it in the cache.
* **Commands.** They start no second VM and stop the VM they were asked to.
* **Images.** What has its final name is whole and is what the configuration asks
  for; a killed build stops no later one.

## Modules

| Module | Models | Checked by | Proved in |
|---|---|---|---|
| `SlotTable` | slot table and VM lifecycle, any number of processes | `slot_*` | `VMProofs` |
| `SlotAllocator` | what the table promises: who holds which slot | implemented by `SlotTable`, `slot_safety` | `VMProofs` |
| `DaemonServer` | one daemon from listening to its exit | `daemon_serving` | `DaemonServerProofs` |
| `DaemonSpawn` | `EnsureDaemon` against the flock and the socket path | `spawn_*` | `DaemonSpawnProofs` |
| `VMCommands` | `vm`, `vm run`, `vm stop` over a reduced table and daemon | `vm_commands`, `stop_spares` | `VMCommandsProofs` |
| `PathRegistry` | the registry's map and trie, and its queries | `share_control`, `vfs_requests` | `PathRegistryProofs` |
| `PathSharing` | what the user is promised: what is shared, what was decided, what was answered | implemented by `ControlServer`, `share_control` | `ControlServerProofs` |
| `ControlServer` | both control servers, the request queue and the shutdown of 9passthrough, over `PathRegistry` | `share_control` | `ControlServerProofs` |
| `VirtualFS` | the 9P files of 9passthrough, over `PathRegistry` and the host | `vfs_requests` | `VirtualFSProofs` |
| `GuestFS` | the guest's FUSE requests, 9P fids and attribute cache | `guest_files` | `GuestFSProofs` |
| `ImageBuild` | the image cache, the container engine and the builders that share them | `images_build` | `VMProofs` |

The modules whose names begin with `MC` give the constants their values. Operators
whose comment begins with "Mutant" are not part
of the models: each is a plausible bug that, put in place of the definition that
follows it, makes TLC refute a property.

### SlotTable

A VM is one call of `NewVM`; a row is identified with the VM that inserted it, so
that its `vm_pid` is `Owner[v]` and its directory is the one `v` made. `pc[v]` is
where the VM stands in `NewVM`, `Start`, `Wait` and `Cleanup`; `res[v]` what it
has on the host (directory, share daemon, token file, passt, QEMU). Every SQL
statement outside a transaction and every transaction is one step.
`CleanupStaleSlots`, which each operation calls first, is three steps (scan,
remove directories, delete rows) with `found[a]` what the scan saw; an actor is a
VM being created or a further command (`Readers`). `ProcessDies` ends an owner at
any point and takes a daemon's children with it (`Pdeathsig`).

`Faults` enables failing `os.RemoveAll`, failing SQL and pid reuse. `Serialised`
is a *hypothesis*, not the code: with it a scan starts only when no other cleanup
holds stale rows. It separates what holds always from what holds only without
overlapping cleanups; `slot_theft` shows what happens otherwise.

`Allocator` maps the table to `SlotAllocator`: the holder of a slot is the VM whose
row is there, whatever the cleanups have found; a cleanup's deletion is its
`Reclaim`, the end of an owner its `OwnerEnds`, and everything else stutters. Rows
of dead owners may stay for any time, and a VM takes the lowest free slot.
`NewPasstManager` never returns an error, so the branch of `NewVM` behind it is
not a step. Disk contents, IP formatting and the working directory are left out.

### DaemonServer

One variable per field of `Server`, one program counter per goroutine; a section
under `s.mu` is a step, and so is what follows it. A connection names the VM it
starts. `timer` is `nil`, `armed`, or `expired`: after it fired `s.idleTimer`
stays non-nil, which is why a timer that fired while a request was coming in must
be replaced. `fires` counts `onIdleFire` goroutines that have not yet taken the
lock, `decided` that one of them found the daemon idle and has not called
`triggerExit` yet. `Cleanup` is the step that releases the row; the directory is
`SlotTable`'s concern. Log frames are left out, the terminating frame is `reply`.
ping, list-vms, unknown methods and bad requests change nothing and are one
action.

### DaemonSpawn

The lock is held by an open file (`lock`), the socket path names a listener
(`path`); closing a Go `UnixListener` unlinks the path it bound. A connect succeeds
iff the path names a listener that is open. A daemon of `Daemons` is spawned at
most once, so the set bounds the number of spawns. The five seconds of
`EnsureDaemon` are abstracted to "no daemon is on its way and none answers" and
the idle timeout (60 s) is taken to be longer than a poll interval (50 ms) when
`MayCutPoll` is FALSE. Both abstractions make the timeout rarer than in the code,
so a timeout in the model is one in the code.

### PathRegistry

A cleaned path is the sequence of its components, a trie node its path, and a flag
of the nodes a set of paths. `RemovePath` states the result of the walk back up: the
nodes on the way that lead to nothing exposed are deleted, the first other one gets
its flag recomputed. `nodeHasExposedDescendants` counts the node itself, so an
exposed node may keep `hasExposedDescendants` with nothing below it; `CheckPath`
asks for `isExposed` first, so no answer depends on it. Paths that do not exist on
the host are rejected by `AddPath` and are simply not in `Exposable`. `IsReadOnly`
answers for the nearest exposed path at or above the one asked for.

### ControlServer

`ControlServer` extends `PathRegistry` and calls its actions. A call is one step of
the server that received it: `unix` may do everything, `tcp`, with or without the
token, what `authenticateRequest` lets pass. A guest's request is one of `Requests`,
and what it asks for `Wanted`; the queue gives out ids in order, which nothing depends
on, so a request is its own id. `status` is `PathRequest.Status`, `result` its channel
of capacity one, `handler` the point at which the guest's call stands: waiting for the
result, about to call `AddPath`, done. `host` is what `os.Stat` finds; a path of
`Fleeting` may come and go. `Shutdown` is the signal goroutine; between it and `Exit`
the control servers still answer. `caller` records whose call changed the registry
or decided a request last; no guard reads it. A request is never removed
from the queue, and one that was decided keeps its status, as in the code.

`Sharing` maps the servers to `PathSharing`, which has no sockets, channels, handlers
or trie: the user shares, withdraws and decides, the shutdown denies the rest once, and
each decided request is answered once, an approved one by its own path in its own mode.
Reading a result from the channel is invisible there, `ExposeApproved` is its `Serve`.

### GuestFS

A request of the kernel is a process of `Procs` that goes through the stages
`invalidate`, `walk`, `call`, `fetch`, `return`; the code holds no lock across them,
so other requests, the host and the clock may come between any two. A path is the
sequence of its names and its attributes are the inode and a version that every
change renews, which is all the properties tell apart. `holds[q]` are the fids a
request has walked to and will close, `files` those that an open or a create handed
to a file; a file's fid and its 9P fid are one here. `want` and `flight` are the
attributes still to be looked up and the fetches under way, `slots` the semaphore of
`prefetchAttrs`; a single `GetAttr` is the case of one path. The walk, the call and
the close of a fetch are one step (`Answer` or `FetchFails`), for its fid never leaves
the function. Truncate, chmod, chown and utimens of one `Setattr` are one call.
`Invalidate` drops all the paths of a request in one step, where the code drops them
one by one with nothing between them that depends on the order, and once, where
`fuse.go` and `client.go` both do. The entries of the cache carry no expiry time:
`Expire` may happen at any point. Whether an open is one for writing, and so
invalidates, is left open. `alone[q]` records that a
request met no other and no change on the host; no guard reads it. The kernel's
table of nodes, and with it the path of a node whose directory was renamed, is left
out: each request names its path anew, and names a new entry only after a look-up
that found nothing.

### VirtualFS

A fid is a `VirtualFile`: its path and what it has open. `request[h]` is what the 9P
server's goroutine for fid `h` is about. Every query of the registry takes and
releases the registry's lock, and the system call follows the last one, so `Query`
is a step per query (`Checks` lists them in the code's order) and the call another;
`Edit`, a change of the registry by the user or an approved request, may come
between any two. `Walk` asks about one name at a time, `Open` follows the path three
times (`CheckPath`, `Lstat`, `OpenFile`), `Readdir` of a virtual directory takes the
names in one query and looks at each child in another. What a fid's operations do to
the host is a map from paths to inodes. From the 9P library the model takes that a
rename runs alone, that a fid whose name is gone is served no longer and that
`Renamed` is called for the fids of what moved (`Ready`, `Renamed`); from the kernel,
what rename, unlink and rmdir do. The host starts as a tree (`IsTree`: what lies below
something lies below directories). `MaxDepth` bounds its paths: a rename that would
take a file, or the path of a fid in use, further down is left out (the last two
conjuncts of `CanMove`). Contents, offsets, symbolic links' targets and
the paging of `Readdir` are left out. `pending`, `steady`, `fresh` and `unlinked` are
history: no guard of an operation reads `pending`, `steady` or `fresh`.

### VMCommands

The command line's view of VMs, rows and daemon. Each command reads rows in one step
and acts in later ones: `vm` and `vm run` start a VM because there was no row, `vm
stop` keeps the slot number, pid and console of a row and then calls the daemon or
signals a pid. The table and the daemon are reduced: a query is one step with the
cleanup before it, `supervise`'s release and deregistration are one step, pids are
not reused and SQL does not fail; `SlotTable` and `DaemonServer` have these. A VM has
the stages of its boot that a command can tell apart: `row`, `qemu` (no console
recorded yet), `console`, `served`. `sole` says that no other start for the worktree
overlapped a VM's own, `hit` whom a stop has told to end; no guard reads them. `vm
attach` and the ssh session after a start change nothing and are left out.

### ImageBuild

A start of a VM runs `EnsureImages` in a builder: it stats each file of the cache,
makes the missing ones under `<name>.tmp` and renames them, makes the SSH host keys,
and then the root file system from a container that is named after its image. `job[p]`
is where builder `p` is, `final` and `tmp` the cache, `base`, `custom` and `box` the
container engine's images and containers. A builder keeps the inode it writes when
another one renames or truncates the file: `open` says under which name the inode is
now, `last` that nobody has truncated it since. `spoilt` marks a file whose making
another builder had a hand in, `alone` the builders beside which nothing has run;
both are history. A builder may fail at any step (`Fault`) or be killed (`Die`), where
the script that makes the root file system may live on (`dead`). `ssh-keygen` is one
step, which leaves out the partial key of a killed one. The contents of the
Dockerfiles and images are model values, the hash of `hashCustomImage` (six hex
digits) is taken to be free of collisions, and the names of the files to be different
(`NamesAssumption`: no download is an initramfs or a root file system).

## Runs

| Run | Instance | Shows |
|---|---|---|
| `slot_safety` | daemon with 2 VMs, foreground process with 1, one more command, 2 slots, kills and pid reuse, cleanups not overlapping | a live VM keeps slot, ports and columns; an ended VM leaves nothing behind (`EndedVMLeavesNothing`); a dead owner's directory has its row (`StaleDirHasRow`); the table implements `SlotAllocator` (`IsAllocator`) |
| `slot_races` | 2 owners with 1 VM each, one more command, 2 slots, all faults, cleanups free, fair | what a cleanup found belongs to the dead; no directory of a live VM is removed; a dead owner's row is freed in the end |
| `slot_theft` | violation | an overlapping cleanup deletes a live VM's row |
| `daemon_serving` | 1 client starting a VM, 1 sending anything, 1 slot, signal, fair | the daemon's books: in-flight count, timer, writer, stop results, slots, lost VMs; it exits when idle, answers, ends on a signal |
| `spawn_safety` | 3 clients, 3 daemons, crashes and failing setups | one listener, reachable |
| `spawn_race` | violation | `EnsureDaemon` times out although nothing failed |
| `share_control` | 5 overlapping paths of up to 3 components, 2 guest requests, one path that comes and goes, shutdown, fair | trie and map agree (`CheckPathExact`, `ChildrenLeadSomewhere`); one result per request, the answer is the decision; nothing is exposed without the user; the servers implement `PathSharing` (`IsPathSharing`); what was decided is answered |
| `vfs_requests` | 2 fids, each with one request of any kind, a directory and its file, 2 changes of the registry | no operation acts without a right it had since it came in, removals apart (`ChecksSuffice`); walks and listings show what is exposed; an open file is found under its fid's path |
| `guest_files` | 2 concurrent requests of any of 12 kinds on a directory, its file and a second name, one open file by choice, one change, semaphore of 1 | every fid and every slot is accounted for on every way out; a request that met no other leaves nothing outdated in the cache of what it named (`OwnChangeSeen`) |
| `vm_commands` | 2 terminals, 3 VMs, 2 daemons, 2 slots, 2 worktrees, kills of daemon and foreground owners | a second VM of a worktree needs overlapping starts; a stop ends its own VM, with the exceptions the property names; what is reported as stopped has ended |
| `stop_spares` | violation, same instance | a stop ends other VMs |
| `images_build` | 2 builders, 3 starts, one custom Dockerfile, 2 base images, one download besides the module image, one key, kills, faults, prune | what has its final name is whole unless builders met; nothing a killed builder leaves stops one that runs alone; the root file system is what the configuration asks for |

Why the bounds are enough: a slot is contended by three VMs on two slots, or two
VMs on one; a cleanup races a second cleanup and an allocation with two owners and
one more command; slot reuse in the daemon needs two VMs and one slot; a spawn race
needs an old daemon, a loser and a client left behind; the trie's walk back has a
case for a node with a sibling, a child, a parent and none of them, all of which
a chain of three and two siblings have; two requests for a path and its parent, one of
which may vanish, meet every order of decision, exposure, removal and shutdown; two
requests of the guest are enough for every race between an answer, an invalidation
and a change, a directory of one file for a rename that moves a child, and a
semaphore of one for a fetch that finds it taken; `MaxOpen` bounds open files (new
files come on top) and `MaxChanges` the versions. The two requests are symmetric,
which is sound as the run checks invariants only; so are the fids of `vfs_requests`,
the terminals and worktrees of `vm_commands` and the builders of `images_build`. Two
fids are enough for a walk, a rename or an open against any other operation, and two
changes of the registry for a path that is exposed and removed within one request;
three VMs on two slots for a slot that is given away between the steps of a stop, and
two daemons for a pid that is gone; two builders for every meeting of two, three
starts for a build after a meeting, and two base images for one replaced after a
prune. The port arithmetic is the code's (10000, 10 per
slot); the number of slots, 254 in the code, is a constant and the proofs hold for
any. `spawn_*`, `images_build`, `vm_commands` and `stop_spares` turn deadlock checking
off: when every client has its answer and no daemon is left, or the bounded starts and
VMs are used up, nothing happens any more. `daemon_serving` stutters explicitly once the
process is gone.

### Fairness

* `SlotTable!FairSpec` (`slot_races`): commands that clean up keep being run, each
  finishes, and the database does not fail every one of them (strong fairness of the
  deleting transaction, which a failure may precede any number of times). Nothing in homura sweeps the table by itself, so this is an
  assumption about use.
* `DaemonServer!FairSpec`: runnable goroutines run, the idle timer fires, a start
  ends one way or the other, a client that connected sends a request or goes away,
  SIGKILL kills. `startMu.Lock` gets strong fairness because Go's mutex hands over
  in FIFO order once a waiter starves. No guest is required to power off, no QEMU to
  obey SIGTERM, no client or signal to come.
* `ControlServer!ControlFairSpec`: the goroutine that waits for a decided request
  runs. Nobody has to decide one: the code waits without a deadline, so a request
  nobody answers stays, and no property says otherwise.

## Findings

1. `slot_theft`: `CleanupStaleSlots` deletes by slot number what an earlier scan
   called stale. Two commands that scan the same dead row, the first of which
   deletes it and allocates, make the second delete the row of the live VM.
2. `spawn_race`: a daemon that has closed its listener still holds the flock; a
   daemon spawned in that window exits, and nobody spawns another.
3. `stop_spares`: a VM of the daemon has no console recorded until
   `UpdateSlotConsole`; `vm stop` takes it for a foreground VM and sends SIGTERM to
   its owner, the daemon, which stops all its VMs.

Seen while modelling, without a run of their own:

* The directory of a stale row whose removal failed is not removed by the next
  cleanup as the comment says (`globalstate.go:180`), for its row is dropped all the
  same: `StaleDirHasRow` fails with the fault `removeall`.
* `supervise` releases the slot in `Cleanup` before `delete(s.vms, mvm.slot)`
  (`server.go:368`); a VM registered under the slot in between is dropped from
  `s.vms`. `LostOnlyToSlotReuse`, proved, says that this is the only way to lose one.
* `onIdleFire` decides under the lock and exits after it (`server.go:211`): a
  request that comes in between is cut off.
* `AddPath("/")` marks no trie node (`pathregistry.go:86`), so `CheckPath` finds
  nothing below "/" exposed although `IsReadOnly` looks it up.
* `IsReadOnly` follows the nearest exposed path although its comment says "a path or
  any of its ancestors".
* `req-approve` answers "Request approved and path exposed" (`control.go:562`) when
  it has only passed the approval on; if `AddPath` then fails, only the guest learns
  of it, and a path removed meanwhile is exposed again.
* Of a 9P operation, `CheckPath` and `IsReadOnly` see two states of the registry: when
  the exposure of a path is removed in between, `IsReadOnly` answers false, and the
  operation changes a read-only path. `ChecksSuffice` excepts just this. Handles that
  are open keep writing after their path is made read-only or removed.
* `Readdir` lists a child whose exposure was removed meanwhile as a virtual directory.
* The guest's `Rename` invalidates "all affected cache entries" (`client.go:454`), but
  the four paths it names only: what is cached of a child of a renamed directory stays
  until its 100 ms are over. `Symlink` and `Link` do not invalidate the directory they
  add an entry to.
* Two `homura vm` calls for one worktree that overlap start two VMs (`vm.go:223` counts
  on finding the first one); `SecondOnlyByOverlap` says nothing else does.
* A foreground command that `vm stop` signals before `Wait` has its handler dies at
  once; QEMU runs on without a row, and "Stopped" is printed.
* A slot that is given to another VM while `vm stop` polls makes it report a time-out.
* The rename of a finished image protects against crashes, not against a second
  builder: both write the same `.tmp`, each removes the other's containers, and what
  was spoilt this way is never built again. A changed SSH key rebuilds nothing.
* When the base image is missing, a cached plain root file system is used although
  `vm.lua` asks for a custom one (`build.go:505`, `:516`); `RootfsMatchesConfig`
  excepts this.

## Proofs

All theorems hold for every value of the constants that satisfies the `ASSUME` of
the module, which TLC evaluates in every run. Every invariant of a passing run is
stated by one of them, with the inductive invariant named here.

**VMProofs, `SlotTable`.** (The table and the images are both of package `vm`; their
proofs share a module and nothing else.) `TypeCorrect` by induction over the actions. `LiveDirIsKept`
holds without the serialisation hypothesis; its invariant adds `FoundRowsAreDead`:
what a pending cleanup holds belongs to a process that was dead when scanned, and a
pid that comes back is another process. `SlotIsHeld` assumes `Serialised`; its
invariant adds `FoundRowsStillThere`: at most one cleanup holds rows, and each of
them is still in its slot, because an allocation only takes free slots and only an
owner releases. `ColumnsAreOwn` and `PortsAreExclusive` follow: a column is only
written through a slot whose row is the writer's, and two VMs that hold different
slots have disjoint port ranges (`PortRanges`, arithmetic). `FoundRowsAreOfTheDead`
states the part that needs no hypothesis. `TableIsAllocator` is the refinement: who
holds a slot is the owner of the row in it, the initial table holds nothing, and each
action takes a free slot, gives one back, frees a dead owner's or leaves the holders
alone; it assumes `Serialised`, for an overlapping cleanup frees a live one's slot.
`StaleDirsAreFound` also assumes that no directory's removal fails, and
`EndedVMsLeaveNothing` that no statement does either; what they need beyond the
properties is what a VM has created by each stage.

**VMProofs, `ImageBuild`.** `BuildInv` is one invariant for the types and for
`PublishedFilesAreWhole`, because a builder's step counter alone does not say what it
writes to. `Orderly` says at which file each step is, what has been chosen for the root
file system and which files are in the cache by then; `Opened` says what a builder
knows of the file it has open: one that another builder has truncated since is marked
spoilt, one that it has written to the end is complete. A builder that renames what it
no longer writes to therefore publishes a spoilt file, which `FinalIsWhole` excepts, and
one that renames its own publishes a complete one. `LeftoversStopNothing` adds `DeadInv`
(a killed builder's script is at the root file system, so its builder is never counted
as alone) and `AloneInv`: a builder that runs alone finds the container engine and its
temporary file as it left them (`Undisturbed`), whatever killed builders left before,
and if it fails all the same, it met a fault or a spoilt download that nobody makes any
more (`Settled`), which stays. `RootfsIsOfItsConfig` rests on `ContentInv`: each image,
container and file goes with the tag or name it is kept under, and so does the image a
builder has read (`ReadSuits`), as no other builder ever puts a different content under
the same tag.

**DaemonServerProofs.** `InflightIsExact` needs the cardinality of the set of
counted connections, which every step leaves alone, grows by one or shrinks by one
(`CountedGrows`, `CountedShrinks`); `TypeCorrect` rests on it (`inflight` never goes
below zero) and on `StopTarget`: a stopper that signals or waits has a target.
`TimerIsExact` follows from one lemma on `updateIdleLocked`. `WriterIsRestored` uses
`WriterInv`: who holds `startMu` is the one connection past the lock, and the writer
it saved is the log. `SlotsAreNotShared` uses `RowInv`: a VM between `NewVM` and
`Cleanup` has its row. `StoppedVMIsGone` uses `ReplyInv`: the target of a stop that
succeeded was supervised to the end, and stays so. `OnlySlotReuseLosesVMs` rests on
`RowInv`.

**DaemonSpawnProofs.** `LockInv`: the flock belongs to the one daemon between `Lock`
and `Exit`. Whoever touches the socket path holds the lock, so the listener keeps its
path (`ListenerIsReachable`) and is unique (`ListenerIsUnique`).

**ControlServerProofs.** `QueueInv` joins the typing of the queue, `StagesAgree` (the
handler's stage, the status and the channel of a request fit each other),
`OneResult` and `AnswerIsDecision`, none of which is inductive alone: that a handler
that read an approval belongs to an approved request needs to know what the channel
held. `GuestsNeedApproval` is a step property on top of it: the only change of the
registry that is not a call on the unix socket is `ExposeApproved`, and its request is
approved. `SharedTrieIsExact` and `SharedListsAreExact` carry the registry's theorems
over: every step of the servers is a step of the registry or leaves it alone
(`RegistryMoves`). `ServersSharePaths` is the refinement of `PathSharing` and needs both:
that an exposed path's mode is what was last asked for rests on the registry's typing (no
mode is kept of a path that is not exposed), and that no request is answered twice or
against its decision on `QueueInv`.

**PathRegistryProofs.** `RegistryInv` is what `AddPath` and `RemovePath` keep: the
exposed nodes are the exposed paths below "/" (`MarksAreExposed`), the nodes are
exactly the paths that lead to one (`NodesLead`), and a node with an exposed one
further down says so (`FlagsAreSet`; the converse does not hold and is not needed).
For `RemovePath` the point is that what the walk back deletes leads nowhere, so no
exposed node goes with it. Below are lemmas on paths as sequences: `Above` is an
order, the walk along a path meets what is above it (`AlongIsAbove`), and a path one
longer is the path with one more name (`OneLonger`); of two paths above a third one is
above the other (`AboveComparable`).

**VirtualFSProofs.** `QueriesSuffice` states that the checks of `Checks`, one query at
a time, are enough for the system call. `VFSInv` says that what a request still lacks
is not granted now (`NotYet`) and is among the queries it has left, after one for
seeing the path unless that is visible (`AsksFirst`; `OpensFirst` for the stages of
an open). A query that passes grants what it asks for, so it cannot be lacking any
more (`QueryPasses`); a change of the registry can only take visibility from a path
by a removal, which `pending` excepts. `FidsAreKept` is there because the path of a
fid must not change under a request: a walk's new fid is nobody else's, and a rename
runs alone. It rests on `RegistryInv`.

`VFSTypeCorrect` proves types together with the shape of the host (`TypesInv`,
`GhostsOK`): that a path stays within the model's depth, and that a fid's does, needs
that the host is a tree before and after each operation, a rename of a directory above
all (the `Moved` and `Tree` lemmas: a move carries what is below, and two different
paths never arrive at one). `OpenFilesKeepTheirNames` is inductive on top of that. Its
core is the rename, which must take the path of each fid along with its file, replaced
targets and their fids apart. `FidsStayInSight` says when a fid's path is
visible: nothing was removed since its walk. `WalkedInv` joins it with what it needs of
requests: what a request relies on has stayed visible or is still asked for
(`StillSeen`), and a walk that nothing disturbed has reached its end (`WalksSeen`).
`QuietListingsAreExact` is by the stages of `Readdir` (`ListOK`): which names it took,
which it has looked at, and that they are the names that lead to something exposed.

**VMCommandsProofs.** `CommandsInv` holds that live VMs have a row each of their own
(`LiveHaveSlots`, `RowsDiffer`), numbers VMs in the order of their starts
(`StartedInOrder`, so that of two the second is the later), and says what a stop knows:
the slot it remembers is its VM's as long as that has a row (`Knows`). Without the last
a stop that polls the slot could report another VM's end (`StoppedVMsHaveEnded`) and
`StopsHitTheirVM` would not follow from the RPC by slot. `SecondVMNeedsOverlap` needs
that a start without overlap is alone for its worktree (`SoleIsAlone`) and found none
(`FoundNone`), which survives because no other step makes a row. Most steps only end
VMs; `Ages` says so once, and one lemma keeps the invariant under it.

**GuestFSProofs.** `FidInv` adds to `FidsAccounted` how many fids a request holds at
each stage (`StageFids`): a create that keeps its fid must hold that one only. One
lemma per way of ending a call (`Closing`, `Keeping`, `Walking`) then covers every
request. `SlotInv` joins types and semaphore, because the count is typed only if a
slot that is given back was taken: `Flying`, the set of a request's fetches, is finite
and has as many members as slots are taken, what is still wanted is not in it, and
outside the stage of fetching both are empty (`SlotTaken`, `SlotGivenBack`).
`OwnChangesAreSeen` adds `OwnInv`: a request that met no other is the only one under
way; until its call is made nothing is cached of what it names, except what it is still
about to invalidate, and what it fetches after the call is what the host has, for a
change of the host would end its being alone.

Only model-checked, because they are liveness, which is outside the prover's reach:
`StaleRowReclaimed`, `ExitsWithoutVMs`, `EveryRequestEnds`, `SignalEndsDaemon` and
`DecidedIsAnswered`. The three violations are TLC's counterexamples.

## Plan

Done: the modules above, with proofs of all their invariants. What is left, in this
order:

1. Proofs: action properties that say what a step may never do where an invariant only
   says what never holds (who may clear a row, a file of the cache, a fid), an abstract
   specification of the daemon, and the serialisation hypothesis of `SlotTable` reduced
   to the weakest that suffices.
2. `EventStream`: the frames of a start, refined to "log events, then one terminating
   frame"; the child output writer that outlives the result frame.
3. `MmapRegistry`: the watcher, client writes and unregistration.
4. `Snapshot` (retention limit, once a day) and worktree copies, which are killed
   half way.
5. The nodes of the guest's kernel, which keep their path through a rename.

Not modelled, for good: QEMU's command line, Lua and JSON configuration, ssh, the
guest's request tool (its other end is `ControlServer`), the test tools (input and
output without shared state), and SQLite, the kernel and the container engine, whose
atomicity, locks and naming are assumed.
