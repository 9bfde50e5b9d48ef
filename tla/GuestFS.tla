------------------------------ MODULE GuestFS ------------------------------
(***************************************************************************)
(* The FUSE file system of the guest (guest/9pfuse: fuse.go, client.go)    *)
(* and its attribute cache (attrcache.go).                                 *)
(*                                                                         *)
(* The kernel sends requests concurrently.  A request invalidates cached   *)
(* attributes, walks to 9P fids, makes its call on the host and closes the *)
(* fids it does not keep; attributes are looked up in the cache first and  *)
(* put into it when they had to be fetched.  Nothing is held across these  *)
(* steps.  The host's files are a tree of inodes; an inode's version       *)
(* stands for the attributes, of which every change makes new ones.  What  *)
(* the server refuses, or fails at, is a failing step here.                *)
(***************************************************************************)
EXTENDS Integers, SequencesExt

CONSTANTS
    Procs,         \* requests of the kernel that may be under way at once
    Jobs,          \* the requests that are made: kind, path and second path
    Paths,         \* paths of the host's tree, the root directory included
    Inodes,        \* inodes of the host
    FirstTree,     \* the tree at the mount
    Fids,          \* 9P fids besides the root's
    NoInode, NoFid,
    MaxOpen,       \* open files, as far as new opens are concerned
    MaxChanges,    \* changes on the host that are looked at
    maxConcurrent  \* attribute fetches of one Readdir: 8 in the code

Kinds == {"stat", "readdir", "look", "open", "write", "setattr", "create",
          "mkdir", "symlink", "link", "unlink", "rename"}
Request == [kind : Kinds, path : Paths, to : Paths]

ASSUME GuestAssumption ==
    /\ Jobs \subseteq Request
    /\ << >> \in Paths
    /\ \A p \in Paths \ {<< >>} : Front(p) \in Paths
    /\ NoInode \notin Inodes /\ NoFid \notin Fids
    /\ FirstTree \in [Paths -> Inodes \cup {NoInode}]
    /\ MaxOpen \in Nat /\ MaxChanges \in Nat
    /\ maxConcurrent \in Nat \ {0}

Attrs  == [ino : Inodes, ver : 0..MaxChanges]
NoAttr == [ino |-> NoInode, ver |-> 0]
Asked  == [ino |-> NoInode, ver |-> 1]   \* a fetch without an answer yet
Idle   == [kind |-> "idle"]

VARIABLES
    tree,    \* the host: path -> inode or NoInode
    ver,     \* the host: the version of each inode's attributes
    clock,   \* changes made on the host so far
    cache,   \* AttrCache.entries that have not expired: path -> attributes
    pc,      \* where each request stands
    job,     \* the request
    via,     \* the fid a write goes through
    want,    \* paths whose attributes it still has to look up
    flight,  \* its fetches: path -> Asked, or the answer
    slots,   \* semaphore of prefetchAttrs: fetches under way
    holds,   \* fids it walked to and has to close
    files,   \* P9Client.files: open fid -> path it was opened by and inode
    open,    \* fids the server knows
    alone    \* no other request nor a change on the host met this one

hostVars   == <<tree, ver, clock>>
fetchVars  == <<want, flight, slots>>
fidVars    == <<holds, files, open>>
vars == <<hostVars, cache, pc, job, via, fetchVars, fidVars, alone>>

NoFetch == [p \in Paths |-> NoAttr]

GuestTypeOK ==
    /\ tree \in [Paths -> Inodes \cup {NoInode}]
    /\ ver \in [Inodes -> 0..MaxChanges] /\ clock \in 0..MaxChanges
    /\ cache \in [Paths -> Attrs \cup {NoAttr}]
    /\ pc \in [Procs -> {"idle", "invalidate", "walk", "call", "fetch", "return"}]
    /\ job \in [Procs -> Request \cup {Idle}]
    /\ via \in [Procs -> Fids \cup {NoFid}]
    /\ want \in [Procs -> SUBSET Paths]
    /\ flight \in [Procs -> [Paths -> Attrs \cup {NoAttr, Asked}]]
    /\ slots \in [Procs -> 0..maxConcurrent]
    /\ holds \in [Procs -> SUBSET Fids]
    /\ DOMAIN files \subseteq Fids
    /\ \A f \in DOMAIN files : files[f] \in [path : Paths, ino : Inodes]
    /\ open \subseteq Fids
    /\ alone \in [Procs -> BOOLEAN]

Init ==
    /\ tree = FirstTree
    /\ ver = [i \in Inodes |-> 0] /\ clock = 0
    /\ cache = [p \in Paths |-> NoAttr]
    /\ pc = [q \in Procs |-> "idle"]
    /\ job = [q \in Procs |-> Idle]
    /\ via = [q \in Procs |-> NoFid]
    /\ want = [q \in Procs |-> {}]
    /\ flight = [q \in Procs |-> NoFetch]
    /\ slots = [q \in Procs |-> 0]
    /\ holds = [q \in Procs |-> {}]
    /\ files = << >>
    /\ open = {}
    /\ alone = [q \in Procs |-> FALSE]

Exists(p)  == tree[p] # NoInode
Current(p) == IF Exists(p) THEN [ino |-> tree[p], ver |-> ver[tree[p]]] ELSE NoAttr
Cached(p)  == cache[p] # NoAttr
Dir(p)     == IF p = << >> THEN p ELSE Front(p)
Children(p) == {c \in Paths \ {<< >>} : Dir(c) = p /\ Exists(c)}
Goto(q, l) == pc' = [pc EXCEPT ![q] = l]

-----------------------------------------------------------------------------
(* Requests begin *)

New  == {"create", "mkdir", "symlink", "link"}
Invalidating == {"open", "write", "setattr", "create", "mkdir", "unlink", "rename"}

Begin(q, j, f) ==
    /\ pc[q] = "idle"
    /\ job' = [job EXCEPT ![q] = j]
    /\ via' = [via EXCEPT ![q] = f]
    /\ alone' = [r \in Procs |-> r = q /\ \A s \in Procs : pc[s] = "idle"]

\* Lookup and Getattr of a path: the cache first.
BeginStat(q, j) ==
    /\ j.kind = "stat"
    /\ Begin(q, j, NoFid)
    /\ Goto(q, "fetch")
    /\ want' = [want EXCEPT ![q] = {j.path}]
    /\ UNCHANGED <<hostVars, cache, flight, slots, fidVars>>

\* The kernel has looked the new name up before, and there was nothing.
KernelSawNothing(p) == ~Cached(p) /\ ~Exists(p)

\* An open invalidates only if it is one for writing.
BeginRequest(q, j) ==
    /\ j.kind \notin {"stat", "write"}
    /\ j.kind \in New => KernelSawNothing(j.path)
    /\ j.kind = "open" => Cardinality(DOMAIN files) < MaxOpen
    /\ Begin(q, j, NoFid)
    /\ \/ j.kind \in Invalidating /\ Goto(q, "invalidate")
       \/ j.kind \notin Invalidating \ {"open"} /\ Goto(q, "walk")
    /\ UNCHANGED <<hostVars, cache, fetchVars, fidVars>>

\* A write goes to the file, the invalidation to the path it was opened by.
BeginWrite(q, f) ==
    /\ f \in DOMAIN files
    /\ Begin(q, [kind |-> "write", path |-> files[f].path, to |-> << >>], f)
    /\ Goto(q, "invalidate")
    /\ UNCHANGED <<hostVars, cache, fetchVars, fidVars>>

\* Mutant: the directory whose entries change is forgotten.
InvalidatesEntry(j) == IF j.kind = "rename" THEN {j.path, j.to} ELSE {j.path}

\* The paths whose attributes a request drops from the cache first.
Invalidates(j) ==
    CASE j.kind \in {"open", "write", "setattr"} -> {j.path}
      [] j.kind \in {"create", "mkdir"}          -> {Dir(j.path)}
      [] j.kind = "unlink"                       -> {j.path, Dir(j.path)}
      [] j.kind = "rename" -> {j.path, j.to, Dir(j.path), Dir(j.to)}

Invalidate(q) ==
    /\ pc[q] = "invalidate"
    /\ cache' = [p \in Paths |-> IF p \in Invalidates(job[q]) THEN NoAttr ELSE cache[p]]
    /\ Goto(q, IF job[q].kind = "write" THEN "call" ELSE "walk")
    /\ UNCHANGED <<hostVars, job, via, fetchVars, fidVars, alone>>

-----------------------------------------------------------------------------
(* Fids *)

\* What a request walks to, in this order.
Walks(j) ==
    CASE j.kind \in {"create", "mkdir", "symlink", "unlink"} -> <<Dir(j.path)>>
      [] j.kind \in {"open", "setattr", "readdir", "look"}   -> <<j.path>>
      [] j.kind = "rename" -> <<Dir(j.path), Dir(j.to)>>
      [] j.kind = "link"   -> <<Dir(j.path), j.to>>

FreshFid == CHOOSE f \in Fids : f \notin open

Walk(q) ==
    LET n == Cardinality(holds[q]) + 1
    IN  /\ pc[q] = "walk"
        /\ open # Fids
        /\ Exists(Walks(job[q])[n])
        /\ open' = open \cup {FreshFid}
        /\ holds' = [holds EXCEPT ![q] = @ \cup {FreshFid}]
        /\ Goto(q, IF n < Len(Walks(job[q])) THEN "walk" ELSE "call")
        /\ UNCHANGED <<hostVars, cache, job, via, fetchVars, files, alone>>

\* The deferred file.Close of every function that does not keep its fid.
CloseWalked(q) ==
    /\ open' = open \ holds[q]
    /\ holds' = [holds EXCEPT ![q] = {}]
    /\ UNCHANGED files

\* A walk finds nothing: what was walked to before is closed.
WalkFails(q) ==
    /\ pc[q] = "walk"
    /\ CloseWalked(q)
    /\ Goto(q, "return")
    /\ UNCHANGED <<hostVars, cache, job, via, fetchVars, alone>>

\* Mutant: a file that cannot be opened is not closed.
CallFailsOpen(q) ==
    /\ pc[q] = "call"
    /\ holds' = [holds EXCEPT ![q] = {}]
    /\ open' = IF job[q].kind = "open" THEN open ELSE open \ holds[q]
    /\ Goto(q, "return")
    /\ UNCHANGED <<hostVars, cache, job, via, fetchVars, files, alone>>

\* Open and Create close their fid when the call fails, the others always.
CallFails(q) ==
    /\ pc[q] = "call"
    /\ CloseWalked(q)
    /\ Goto(q, "return")
    /\ UNCHANGED <<hostVars, cache, job, via, fetchVars, alone>>

\* The fid stays with the file, and closing the file is left to Release.
KeepFid(q, p, i) ==
    \E f \in holds[q] :
        /\ files' = [g \in DOMAIN files \cup {f} |->
                        IF g = f THEN [path |-> p, ino |-> i] ELSE files[g]]
        /\ holds' = [holds EXCEPT ![q] = {}]
        /\ UNCHANGED open

Release(f) ==
    /\ f \in DOMAIN files
    /\ \A q \in Procs : via[q] # f
    /\ files' = [g \in DOMAIN files \ {f} |-> files[g]]
    /\ open' = open \ {f}
    /\ UNCHANGED <<hostVars, cache, pc, job, via, fetchVars, holds, alone>>

-----------------------------------------------------------------------------
(* Calls on the host *)

Call(q, kind) == pc[q] = "call" /\ job[q].kind = kind

\* The attributes of these inodes are no longer what they were.
Change(S) ==
    /\ clock < MaxChanges
    /\ clock' = clock + 1
    /\ ver' = [i \in Inodes |-> IF i \in S THEN clock + 1 ELSE ver[i]]

Unused(i) == /\ \A p \in Paths : tree[p] # i
             /\ \A f \in DOMAIN files : files[f].ino # i

Done(q) ==
    /\ CloseWalked(q)
    /\ Goto(q, "return")
    /\ UNCHANGED <<cache, job, via, fetchVars, alone>>

\* Readlink, Statfs, Fsync and the reads: nothing but the fid.
Look(q) == Call(q, "look") /\ Done(q) /\ UNCHANGED hostVars

Open(q) ==
    /\ Call(q, "open")
    /\ Exists(job[q].path)
    /\ KeepFid(q, job[q].path, tree[job[q].path])
    /\ Goto(q, "return")
    /\ UNCHANGED <<hostVars, cache, job, via, fetchVars, alone>>

Write(q) ==
    /\ Call(q, "write")
    /\ Change({files[via[q]].ino})
    /\ Done(q)
    /\ UNCHANGED tree

AddEntry(p, i) ==
    /\ ~Exists(p) /\ Exists(Dir(p))
    /\ tree' = [tree EXCEPT ![p] = i]
    /\ Change({i, tree[Dir(p)]})

\* The directory's fid becomes the file's.
Create(q) ==
    \E i \in Inodes :
        /\ Call(q, "create")
        /\ Unused(i)
        /\ AddEntry(job[q].path, i)
        /\ KeepFid(q, job[q].path, i)
        /\ Goto(q, "return")
        /\ UNCHANGED <<cache, job, via, fetchVars, alone>>

\* Mkdir and Symlink.
Make(q) ==
    \E i \in Inodes :
        /\ Call(q, "mkdir") \/ Call(q, "symlink")
        /\ Unused(i)
        /\ AddEntry(job[q].path, i)
        /\ Done(q)

Unlink(q) ==
    LET p == job[q].path
    IN  /\ Call(q, "unlink")
        /\ Exists(p) /\ Children(p) = {}
        /\ tree' = [tree EXCEPT ![p] = NoInode]
        /\ Change({tree[p], tree[Dir(p)]})
        /\ Done(q)

\* The path that x had before p was renamed to t, x being below t.
Before(x, p, t) == p \o SubSeq(x, Len(t) + 1, Len(x))

Rename(q) ==
    LET p == job[q].path
        t == job[q].to
    IN  /\ Call(q, "rename")
        /\ Exists(p) /\ Exists(Dir(t)) /\ Children(t) = {}
        /\ ~IsPrefix(p, t)
        /\ tree' = [x \in Paths |->
                IF ~IsPrefix(t, x)
                  THEN IF IsPrefix(p, x) THEN NoInode ELSE tree[x]
                  ELSE IF Before(x, p, t) \in Paths
                         THEN tree[Before(x, p, t)] ELSE NoInode]
        /\ Change({tree[p], tree[Dir(p)], tree[Dir(t)]})
        /\ Done(q)

\* Afterwards the attributes of S are looked up, in the cache first.
ThenFetch(q, S) ==
    /\ want' = [want EXCEPT ![q] = S]
    /\ Goto(q, "fetch")
    /\ UNCHANGED <<cache, job, via, flight, slots, alone>>

\* Truncate, Chmod, Chown and Utimens; a failure of the latter two is ignored.
Setattr(q) ==
    /\ Call(q, "setattr")
    /\ Exists(job[q].path)
    /\ Change({tree[job[q].path]})
    /\ CloseWalked(q)
    /\ ThenFetch(q, {job[q].path})
    /\ UNCHANGED tree

SetattrIgnoresFailure(q) ==
    /\ Call(q, "setattr")
    /\ CloseWalked(q)
    /\ ThenFetch(q, {job[q].path})
    /\ UNCHANGED hostVars

Link(q) ==
    /\ Call(q, "link")
    /\ Exists(job[q].to)
    /\ AddEntry(job[q].path, tree[job[q].to])
    /\ CloseWalked(q)
    /\ ThenFetch(q, {job[q].to})

\* The directory stays open while its entries' attributes are fetched.
Readdir(q) ==
    /\ Call(q, "readdir")
    /\ ThenFetch(q, Children(job[q].path))
    /\ UNCHANGED <<hostVars, fidVars>>

-----------------------------------------------------------------------------
(* Attributes *)

CacheHit(q, p) ==
    /\ p \in want[q] /\ Cached(p)
    /\ want' = [want EXCEPT ![q] = @ \ {p}]
    /\ UNCHANGED <<hostVars, cache, pc, job, via, flight, slots, fidVars, alone>>

CacheMiss(q, p) ==
    /\ p \in want[q] /\ ~Cached(p)
    /\ slots[q] < maxConcurrent
    /\ want' = [want EXCEPT ![q] = @ \ {p}]
    /\ flight' = [flight EXCEPT ![q][p] = Asked]
    /\ slots' = [slots EXCEPT ![q] = @ + 1]
    /\ UNCHANGED <<hostVars, cache, pc, job, via, fidVars, alone>>

\* The host answers with the attributes of this moment.
Answer(q, p) ==
    /\ flight[q][p] = Asked
    /\ Exists(p)
    /\ flight' = [flight EXCEPT ![q][p] = Current(p)]
    /\ UNCHANGED <<hostVars, cache, pc, job, via, want, slots, fidVars, alone>>

EndFetch(q, p) ==
    /\ flight' = [flight EXCEPT ![q][p] = NoAttr]
    /\ slots' = [slots EXCEPT ![q] = @ - 1]
    /\ UNCHANGED <<hostVars, pc, job, via, want, fidVars, alone>>

\* Put, some time after the host has answered.
Put(q, p) ==
    /\ flight[q][p] \in Attrs
    /\ cache' = [cache EXCEPT ![p] = flight[q][p]]
    /\ EndFetch(q, p)

\* Mutant: the slot is given back only after a successful fetch.
FetchFailsKeepsSlot(q, p) ==
    /\ flight[q][p] = Asked
    /\ flight' = [flight EXCEPT ![q][p] = NoAttr]
    /\ UNCHANGED <<hostVars, cache, pc, job, via, want, slots, fidVars, alone>>

FetchFails(q, p) ==
    /\ flight[q][p] = Asked
    /\ EndFetch(q, p)
    /\ UNCHANGED cache

FetchDone(q) ==
    /\ pc[q] = "fetch"
    /\ want[q] = {} /\ flight[q] = NoFetch
    /\ CloseWalked(q)
    /\ Goto(q, "return")
    /\ UNCHANGED <<hostVars, cache, job, via, fetchVars, alone>>

\* The time to live is over; Get removes the entry when it comes across it.
Expire(p) ==
    /\ Cached(p)
    /\ cache' = [cache EXCEPT ![p] = NoAttr]
    /\ UNCHANGED <<hostVars, pc, job, via, fetchVars, fidVars, alone>>

Return(q) ==
    /\ pc[q] = "return"
    /\ Goto(q, "idle")
    /\ job' = [job EXCEPT ![q] = Idle]
    /\ via' = [via EXCEPT ![q] = NoFid]
    /\ alone' = [alone EXCEPT ![q] = FALSE]
    /\ UNCHANGED <<hostVars, cache, fetchVars, fidVars>>

\* Another process of the host changes a file.
HostChange(p) ==
    /\ Exists(p)
    /\ Change({tree[p]})
    /\ alone' = [q \in Procs |-> FALSE]
    /\ UNCHANGED <<tree, cache, pc, job, via, fetchVars, fidVars>>

-----------------------------------------------------------------------------
CallStep(q) ==
    \/ Look(q) \/ Open(q) \/ Write(q) \/ Create(q) \/ Make(q) \/ Unlink(q)
    \/ Rename(q) \/ Setattr(q) \/ SetattrIgnoresFailure(q) \/ Link(q)
    \/ Readdir(q) \/ CallFails(q)

FetchStep(q) ==
    \/ \E p \in Paths : \/ CacheHit(q, p) \/ CacheMiss(q, p) \/ Answer(q, p)
                        \/ Put(q, p) \/ FetchFails(q, p)
    \/ FetchDone(q)

Step(q) == \/ Invalidate(q) \/ Walk(q) \/ WalkFails(q) \/ CallStep(q)
           \/ FetchStep(q) \/ Return(q)

Next ==
    \/ \E q \in Procs, j \in Jobs : BeginStat(q, j) \/ BeginRequest(q, j)
    \/ \E q \in Procs, f \in Fids : BeginWrite(q, f)
    \/ \E q \in Procs : Step(q)
    \/ \E f \in Fids : Release(f)
    \/ \E p \in Paths : Expire(p) \/ HostChange(p)

Spec == Init /\ [][Next]_vars

-----------------------------------------------------------------------------
(* Properties *)

\* Every 9P fid is an open file's or that of one request, which has closed it
\* when it returns, whichever of its calls failed.
FidsAccounted ==
    /\ open = DOMAIN files \cup UNION {holds[q] : q \in Procs}
    /\ \A q \in Procs : /\ holds[q] \cap DOMAIN files = {}
                        /\ \A r \in Procs \ {q} : holds[q] \cap holds[r] = {}
                        /\ pc[q] \in {"idle", "return"} => holds[q] = {}

\* The paths a changing request names, and their directories if an entry was
\* added or removed.  Symlink and Link leave the directory's attributes to the
\* time to live.
Named(j) ==
    CASE j.kind \in {"write", "setattr", "symlink", "link"} -> {j.path}
      [] j.kind \in {"create", "mkdir", "unlink"} -> {j.path, Dir(j.path)}
      [] j.kind = "rename" -> {j.path, j.to, Dir(j.path), Dir(j.to)}
      [] OTHER -> {}

\* The guest sees its own changes: when a request that met no other returns,
\* what is cached of the paths it named is what they are on the host.
OwnChangeSeen ==
    \A q \in Procs :
        pc[q] = "return" /\ alone[q] =>
            \A p \in Named(job[q]) : Cached(p) => cache[p] = Current(p)

\* What a request has asked for and not yet got holds a slot of the semaphore,
\* and nothing else does: whichever fetches fail, in whichever order, a Readdir
\* never waits for a slot that nobody gives back.
SlotsAccounted ==
    \A q \in Procs :
        /\ slots[q] = Cardinality({p \in Paths : flight[q][p] # NoAttr})
        /\ pc[q] # "fetch" => slots[q] = 0

=============================================================================
