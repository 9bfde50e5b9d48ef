------------------------------ MODULE ImageBuild ------------------------------
(***************************************************************************)
(* The images a VM boots from (EnsureImages, vm/build.go).                 *)
(*                                                                         *)
(* Every start of a VM goes through EnsureImages.  The daemon serialises   *)
(* its own starts; a foreground VM builds in its own process, so there may *)
(* be several builders.  They share the image cache, the container         *)
(* engine's images and its containers, and hold no lock on any of them.    *)
(* What they build stays, and any of them may be killed at any step.       *)
(***************************************************************************)
EXTENDS Integers, Sequences, FiniteSets

CONSTANTS
    Builders,   \* the processes that start VMs
    Orig, Modloop, \* the downloaded initramfs and the modules
    Initramfs,  \* what is built of them
    Downloads,  \* the components downloaded, in order
    KeyTypes,   \* the number of SSH host keys
    Contents,   \* the custom Dockerfiles that vm.lua may give
    None,       \* no custom Dockerfile; no file; no container
    MaxBase,    \* bounds the builds of the base image
    MaxStarts   \* bounds the starts of VMs

Bases     == 1..MaxBase
Plain     == <<None, 0>>
Tags      == {Plain} \cup (Contents \X Bases)
Early     == Downloads \o <<Initramfs>>
Files     == {Early[n] : n \in 1..Len(Early)} \cup Tags

ASSUME ImageBuildAssumption ==
    /\ Downloads \in Seq({Downloads[n] : n \in DOMAIN Downloads})
    /\ \E n \in 1..Len(Downloads) : Downloads[n] = Modloop
    /\ None \notin Contents
    /\ KeyTypes \in Nat /\ MaxBase \in Nat /\ MaxStarts \in Nat

VARIABLES
    final,   \* the files of the cache
    tmp,     \* their temporary files
    keys,    \* SSH host keys made so far, a prefix of the list
    base,    \* the image under the base tag, 0 if there is none
    bases,   \* base images built so far
    custom,  \* the custom images by their tag, None if there is none
    box,     \* the export containers, named after an image
    job,     \* what each builder does
    starts,  \* the starts of VMs so far
    alone,   \* the builders beside which nothing has run or been pruned
    faulty   \* the builders to which something outside has failed

cache    == <<final, tmp, keys>>
engine   == <<base, bases, custom, box>>
ghosts   == <<alone, faulty>>
imageVars == <<cache, engine, job, starts, ghosts>>

-----------------------------------------------------------------------------

\* A file: it has been written to its end; it may be spoilt, as another builder
\* had the file, its name or its container while it was made, or as something
\* it was made from may be; the image in it.
Image == [content: Contents \cup {None}, base: 0..MaxBase, alone: BOOLEAN]
NoImage == [content |-> None, base |-> 0, alone |-> TRUE]
File  == [done: BOOLEAN, spoilt: BOOLEAN, image: Image]

\* Different files have different names, and None is none of the values it
\* stands beside.
ASSUME NamesAssumption ==
    /\ None \notin File /\ None \notin Image /\ None \notin Tags
    /\ {Orig, Modloop} \cap ({Initramfs} \cup Tags) = {}
    /\ \A n \in 1..Len(Early) : Early[n] \notin Tags

Whole(f) == f.done /\ ~f.spoilt

\* The inode a builder writes to is under the temporary name, under the final
\* one or has none (open); no other builder has truncated it since (last); the
\* container it removes in the end (own); it was killed and its script has not
\* noticed (dead).
Idle == [step |-> "idle", n |-> 0, key |-> 0, content |-> None, seen |-> 0,
         path |-> Plain, spoilt |-> FALSE, image |-> NoImage,
         open |-> "no", last |-> FALSE, own |-> None, dead |-> FALSE]

Step(p, s) == job[p].step = s
Active == {p \in Builders : job[p].step \notin {"idle", "done", "failed"}}

\* The file a builder is at: the rootfs comes after the others.
The(p) == IF job[p].n <= Len(Early) THEN Early[job[p].n] ELSE job[p].path
AtRootfs(p) == job[p].n > Len(Early)
Tag(p) == IF job[p].content = None THEN Plain ELSE <<job[p].content, job[p].seen>>

To(p, s) == job' = [job EXCEPT ![p].step = s]

\* The step after the file n.
After(n) == IF n > Len(Early) THEN "done" ELSE IF n = Len(Early) THEN "key" ELSE "stat"

\* Builders that have the temporary file of f open.
Writers(f) == {p \in Builders : job[p].open = "tmp" /\ The(p) = f}

\* The inodes under the temporary name of f get another name, or lose it.
Renamed(f, to) ==
    [p \in Builders |->
        IF job[p].open = "no" \/ The(p) # f THEN job[p]
        ELSE IF job[p].open = "tmp" THEN [job[p] EXCEPT !.open = to]
        ELSE IF to = "final" THEN [job[p] EXCEPT !.open = "gone"]
        ELSE job[p]]

\* The deferred removal of the container, by its name.
Unboxed(p) == IF job[p].own = None THEN box ELSE [box EXCEPT ![job[p].own] = None]

\* The script removes what has the temporary name even if it never got there.
RemovesTmp(p) == job[p].open # "no" \/ (AtRootfs(p) /\ Step(p, "create"))

\* The job gives up: its temporary file is removed, by name, and its container.
Fails(p) ==
    /\ ~job[p].dead
    /\ LET f == The(p) IN
       IF RemovesTmp(p)
         THEN /\ tmp' = [tmp EXCEPT ![f] = None]
              /\ job' = [Renamed(f, "gone") EXCEPT ![p] = [Idle EXCEPT !.step = "failed"]]
         ELSE /\ tmp' = tmp
              /\ job' = [job EXCEPT ![p] = [Idle EXCEPT !.step = "failed"]]
    /\ box' = Unboxed(p)
    /\ UNCHANGED <<final, keys, base, bases, custom, alone>>

-----------------------------------------------------------------------------
(* Files: the temporary file is written, then renamed *)

\* A file that exists is taken as it is.
Stat(p) ==
    LET n == job[p].n IN
    /\ Step(p, "stat")
    /\ IF final[The(p)] # None
         THEN job' = [job EXCEPT ![p].step = After(n),
                                 ![p].n = IF n > Len(Early) THEN n ELSE n + 1]
         ELSE To(p, IF n > Len(Early) THEN "base"
                    ELSE IF n > Len(Downloads) THEN "read" ELSE "create")
    /\ UNCHANGED <<cache, engine, ghosts>>

Inputs(p) == IF AtRootfs(p) THEN {Modloop} ELSE Files \cap {Orig, Modloop}
SpoiltInput(p) == \E f \in Inputs(p) : final[f] = None \/ ~Whole(final[f])

\* buildInitramfs unpacks the downloaded initramfs and modloop.
Read(p) ==
    /\ Step(p, "read")
    /\ job' = [job EXCEPT ![p].step = "create", ![p].spoilt = SpoiltInput(p)]
    /\ UNCHANGED <<cache, engine, ghosts>>

\* os.Create truncates the file that a killed builder has left, or that
\* another one is writing; truncate and mke2fs fill it anew.  If the container
\* has gone since, the end of its export may be missing without an error.
Create(p) ==
    LET f == The(p)
        lost == AtRootfs(p) /\ box[job[p].own] = None
    IN
    /\ Step(p, "create")
    /\ tmp' = [tmp EXCEPT ![f] =
         [done |-> FALSE, spoilt |-> Writers(f) # {} \/ lost \/ job[p].spoilt,
          image |-> job[p].image]]
    /\ job' = [q \in Builders |->
         IF q = p THEN [job[p] EXCEPT !.step = "write", !.open = "tmp", !.last = TRUE]
         ELSE IF q \in Writers(f) THEN [job[q] EXCEPT !.last = FALSE] ELSE job[q]]
    /\ UNCHANGED <<final, keys, engine, ghosts>>

\* Where the inode is that p has written to the end.
Written(p) ==
    LET f == The(p) IN
    /\ final' = IF job[p].open = "final" /\ job[p].last
                  THEN [final EXCEPT ![f].done = TRUE] ELSE final
    /\ tmp' = IF job[p].open = "tmp" /\ job[p].last
                  THEN [tmp EXCEPT ![f].done = TRUE] ELSE tmp

\* Mutant: the error of the copy is not looked at.
WriteErrorLost(p) ==
    /\ Step(p, "write")
    /\ To(p, "publish")
    /\ UNCHANGED <<cache, engine, ghosts>>

Write(p) ==
    /\ Step(p, "write")
    /\ Written(p)
    /\ To(p, "publish")
    /\ UNCHANGED <<keys, engine, ghosts>>

\* The download breaks off, cpio or the script fails.
WriteFails(p) ==
    /\ Step(p, "write")
    /\ Fails(p)
    /\ faulty' = faulty \cup {p}

\* The rename takes whatever has the temporary name by now; it fails when
\* another builder has taken that away.
Publish(p) ==
    LET f == The(p) IN
    /\ Step(p, "publish") /\ ~job[p].dead
    /\ tmp[f] # None
    /\ final' = [final EXCEPT ![f] =
         [tmp[f] EXCEPT !.spoilt = @ \/ job[p].open # "tmp" \/ Writers(f) # {p}]]
    /\ tmp' = [tmp EXCEPT ![f] = None]
    /\ job' = [Renamed(f, "final") EXCEPT
         ![p] = [job[p] EXCEPT !.step = After(job[p].n),
                   !.n = IF AtRootfs(p) THEN @ ELSE @ + 1,
                   !.spoilt = FALSE, !.image = NoImage,
                   !.open = "no", !.last = FALSE, !.own = None]]
    /\ box' = Unboxed(p)
    /\ UNCHANGED <<keys, base, bases, custom, ghosts>>

PublishFails(p) ==
    /\ Step(p, "publish")
    /\ tmp[The(p)] = None
    /\ Fails(p)
    /\ UNCHANGED faulty

-----------------------------------------------------------------------------
(* SSH host keys *)

StatKey(p) ==
    /\ Step(p, "key")
    /\ IF keys = KeyTypes THEN To(p, "cleanup")
       ELSE job' = [job EXCEPT ![p].step = "keygen", ![p].key = keys + 1]
    /\ UNCHANGED <<cache, engine, ghosts>>

\* ssh-keygen does not overwrite a key.
Keygen(p) ==
    /\ Step(p, "keygen")
    /\ IF keys < job[p].key
         THEN /\ keys' = job[p].key
              /\ job' = [job EXCEPT ![p].step = "key", ![p].key = 0]
              /\ UNCHANGED <<final, tmp, engine, alone>>
         ELSE Fails(p)
    /\ UNCHANGED faulty

-----------------------------------------------------------------------------
(* The root file system *)

\* Mutant: containers of killed builders are left.
NoCleanup(p) ==
    /\ Step(p, "cleanup")
    /\ To(p, "inspect")
    /\ UNCHANGED <<cache, engine, ghosts>>

\* All export containers go, those of other builders among them.
CleanupStaleContainers(p) ==
    /\ Step(p, "cleanup")
    /\ To(p, "inspect")
    /\ box' = [t \in Tags |-> None]
    /\ UNCHANGED <<cache, base, bases, custom, ghosts>>

\* Mutant: the name of the file has no hash of the Dockerfile and the base.
PathPlain(c, b) == Plain

\* The name of the rootfs: the hash of the Dockerfile and the base image, if
\* there are both.
RootfsPath(c, b) == IF c = None \/ b = 0 THEN Plain ELSE <<c, b>>

\* The base image is looked up and vm.lua loaded.
Inspect(p, c) ==
    /\ Step(p, "inspect")
    /\ job' = [job EXCEPT ![p].step = "stat", ![p].content = c, ![p].seen = base,
                          ![p].path = RootfsPath(c, base)]
    /\ UNCHANGED <<cache, engine, ghosts>>

\* docker build, unless the base image was there; from its layers it may get
\* the image that is there by now.
BuildBase(p) ==
    /\ Step(p, "base")
    /\ IF job[p].seen # 0
         THEN To(p, "custom") /\ UNCHANGED <<base, bases>>
         ELSE \E b \in ({base} \ {0}) \cup ({bases + 1} \cap Bases) :
                /\ base' = b
                /\ bases' = IF b > bases THEN b ELSE bases
                /\ job' = [job EXCEPT ![p].step = "custom", ![p].seen = b,
                                      ![p].path = RootfsPath(job[p].content, b)]
    /\ UNCHANGED <<cache, custom, box, ghosts>>

\* The custom image is made from what the base tag names now.
BuildCustom(p) ==
    /\ Step(p, "custom")
    /\ \/ /\ Tag(p) = Plain \/ custom[Tag(p)] # None
          /\ custom' = custom
       \/ /\ Tag(p) # Plain /\ custom[Tag(p)] = None
          /\ base # 0
          /\ custom' = [custom EXCEPT ![Tag(p)] = 
               [content |-> job[p].content, base |-> base, alone |-> p \in alone]]
    /\ To(p, "box")
    /\ UNCHANGED <<cache, base, bases, box, ghosts>>

ImageOf(t) ==
    IF t # Plain THEN custom[t]
    ELSE IF base # 0 THEN [content |-> None, base |-> base, alone |-> TRUE] ELSE None

\* The container is named after the image: one of that name must not exist.
CreateBox(p) ==
    /\ Step(p, "box")
    /\ ImageOf(Tag(p)) # None /\ box[Tag(p)] = None
    /\ box' = [box EXCEPT ![Tag(p)] = ImageOf(Tag(p))]
    /\ job' = [job EXCEPT ![p].step = "export", ![p].own = Tag(p)]
    /\ UNCHANGED <<cache, base, bases, custom, ghosts>>

\* Modules are taken from modloop, what is missing is not; then the script
\* starts to read the export of whatever container has the name.
Export(p) ==
    /\ Step(p, "export")
    /\ box[job[p].own] # None
    /\ job' = [job EXCEPT ![p].step = "create", ![p].spoilt = SpoiltInput(p),
                          ![p].image = box[job[p].own]]
    /\ UNCHANGED <<cache, engine, ghosts>>

\* What the build needs is incomplete or gone, or a container in the way.
BuildFails(p) ==
    /\ \/ Step(p, "read") /\ SpoiltInput(p)
       \/ Step(p, "create") /\ AtRootfs(p) /\ box[job[p].own] = None
       \/ Step(p, "custom") /\ base = 0 /\ Tag(p) # Plain /\ custom[Tag(p)] = None
       \/ Step(p, "box") /\ (ImageOf(Tag(p)) = None \/ box[Tag(p)] # None)
       \/ Step(p, "export") /\ box[job[p].own] = None
    /\ Fails(p)
    /\ UNCHANGED faulty

-----------------------------------------------------------------------------

Start(p) ==
    /\ Step(p, "idle")
    /\ starts < MaxStarts
    /\ starts' = starts + 1
    /\ job' = [job EXCEPT ![p] = [Idle EXCEPT !.step = "stat", !.n = 1]]
    /\ alone' = IF Active = {} THEN alone \cup {p} ELSE alone \ Active
    /\ faulty' = faulty \ {p}
    /\ UNCHANGED <<cache, engine>>

Return(p) ==
    /\ job[p].step \in {"done", "failed"}
    /\ job' = [job EXCEPT ![p] = Idle]
    /\ alone' = alone \ {p}
    /\ faulty' = faulty \ {p}
    /\ UNCHANGED <<cache, engine>>

\* A tool is missing, the network or a build fails, the disk is full.
Fault(p) ==
    /\ job[p].step \in {"create", "read", "keygen", "cleanup", "inspect", "base", "custom",
                      "box", "export"}
    /\ Fails(p)
    /\ faulty' = faulty \cup {p}

\* The process is killed.  The script that makes the rootfs may live on.
Die(p) ==
    /\ p \in Active /\ ~job[p].dead
    /\ \/ job' = [job EXCEPT ![p] = Idle]
       \/ /\ AtRootfs(p) /\ job[p].step \in {"create", "write"}
          /\ job' = [job EXCEPT ![p].dead = TRUE]
    /\ alone' = alone \ {p}
    /\ UNCHANGED <<cache, engine, faulty>>

\* The script ends, or is ended.
ScriptEnds(p) ==
    /\ job[p].dead
    /\ job' = [job EXCEPT ![p] = Idle]
    /\ UNCHANGED <<cache, engine, ghosts>>

\* The user prunes the engine's images.
PruneImages ==
    /\ base # 0
    /\ base' = 0
    /\ \E kept \in SUBSET Tags :
         custom' = [t \in Tags |-> IF t \in kept THEN custom[t] ELSE None]
    /\ alone' = {}
    /\ UNCHANGED <<cache, bases, box, job, faulty>>

ImageInit ==
    /\ final = [f \in Files |-> None] /\ tmp = [f \in Files |-> None]
    /\ starts = 0 /\ keys = 0 /\ base = 0 /\ bases = 0
    /\ custom = [t \in Tags |-> None] /\ box = [t \in Tags |-> None]
    /\ job = [p \in Builders |-> Idle]
    /\ alone = {} /\ faulty = {}

Build(p) ==
    \/ Stat(p) \/ Read(p) \/ Create(p) \/ Write(p) \/ WriteFails(p)
    \/ Publish(p) \/ PublishFails(p) \/ StatKey(p) \/ Keygen(p)
    \/ CleanupStaleContainers(p) \/ BuildBase(p) \/ BuildCustom(p)
    \/ CreateBox(p) \/ Export(p) \/ BuildFails(p) \/ Fault(p)
    \/ Return(p) \/ Die(p) \/ ScriptEnds(p)
    \/ \E c \in Contents \cup {None} : Inspect(p, c)

ImageNext ==
    \/ \E p \in Builders : Start(p)
    \/ (PruneImages \/ \E p \in Builders : Build(p)) /\ UNCHANGED starts

ImageSpec == ImageInit /\ [][ImageNext]_imageVars

-----------------------------------------------------------------------------
(* Properties *)

ImageTypeOK ==
    /\ final \in [Files -> File \cup {None}]
    /\ tmp \in [Files -> File \cup {None}]
    /\ keys \in 0..KeyTypes /\ base \in 0..MaxBase /\ bases \in base..MaxBase
    /\ custom \in [Tags -> Image \cup {None}]
    /\ box \in [Tags -> Image \cup {None}]
    /\ alone \subseteq Builders /\ faulty \subseteq Builders

\* A file has its final name only after it has been written to its end,
\* whatever was killed or has failed at any step, unless another builder had
\* the same temporary file, or removed the container it was read from: the
\* rename is enough against crashes, and only against them.
FinalIsWhole ==
    \A f \in Files : final[f] # None => final[f].done \/ final[f].spoilt

\* Nothing that builders killed at any step leave behind (temporary files,
\* containers, images, keys) stops a builder that runs alone; only something
\* that fails outside does, or a file that two builders have damaged, for what
\* has its final name is never made again.
OnlyFaultsStopABuild ==
    \A p \in alone : Step(p, "failed") =>
        p \in faulty \/ \E f \in Files : final[f] # None /\ final[f].spoilt

\* A builder that runs alone returns a root file system with the custom layer
\* vm.lua gives it and, if there is one, made from the base image of that
\* moment, whatever the cache holds; but it returns the plain one that is in
\* the cache if it found no base image.
RootfsMatchesConfig ==
    \A p \in alone : Step(p, "done") =>
        LET image == final[job[p].path].image IN
        \/ job[p].seen = 0 /\ image.content = None
        \/ /\ image.content = job[p].content
           /\ job[p].content # None /\ image.alone => image.base = job[p].seen

=============================================================================
