------------------------------ MODULE VirtualFS ------------------------------
(***************************************************************************)
(* The 9P files of 9passthrough (9passthrough/virtualfs.go) over the       *)
(* registry of exposed paths and the file system of the host.              *)
(*                                                                         *)
(* A fid names a VirtualFile.  A request works on the fid it names; the 9P *)
(* server runs one goroutine per request.  Every query of the registry     *)
(* takes and releases the registry's lock, and the system call follows the *)
(* last query with nothing held, so each query and the system call are     *)
(* steps of their own, between which the registry may change.              *)
(***************************************************************************)
EXTENDS PathRegistry, FiniteSets

CONSTANTS
    Fids,        \* the fids of the connected guests
    Inodes,      \* the files other than directories, those yet to be made included
    Dir, Absent, \* what a host path may lead to beside a file
    NoFile,      \* realFile = nil
    Host0,       \* the host's files in the beginning
    Steps,       \* the sequences of names a walk may be asked for
    Asks,        \* the other requests made
    MaxBusy,     \* bounds the requests at a time
    MaxEdits     \* bounds the changes of the registry

\* What is above something on the host is a directory.
IsTree(tree) == \A p, q \in Paths :
    Above(p, q) /\ p # q /\ tree[q] # Absent => tree[p] = Dir

ASSUME VirtualFSAssumption ==
    /\ NoFile \notin Inodes /\ Dir \notin Inodes /\ Absent \notin Inodes
    /\ Dir # Absent
    /\ Host0 \in [Paths -> Inodes \cup {Dir, Absent}] /\ IsTree(Host0)
    /\ Steps \subseteq Seq(Names \cup {".."})
    /\ MaxEdits \in Nat /\ MaxBusy \in Nat

VARIABLES
    host,      \* what each path of the host leads to
    file,      \* the VirtualFile of a fid, NoFile if the fid is not in use
    request,   \* the request a fid's goroutine works on
    edits,     \* changes of the registry so far
    pending,   \* the rights a request relies on that it has not had yet
    steady,    \* the walks and listings during which nothing has changed
    fresh,     \* the fids since whose walk no path was removed
    unlinked   \* the fids whose name has been removed or replaced

hostVars     == <<host, file>>
ghostVars    == <<pending, steady, fresh, unlinked>>
registryVars == <<exposed, readOnly, nodes, isExposed, hasExposedDescendants, edits>>
vfsVars      == <<registryVars, hostVars, request, ghostVars>>

-----------------------------------------------------------------------------
(* Rights *)

\* Inside an exposed path, the nearest of which is not read-only.
Visible(p)  == \E q \in exposed : Above(q, p)
Writable(p) == Visible(p) /\ ~IsReadOnly(p)

\* A right is a path and whether the request is to change what is there.
Rights == Paths \X {"see", "change"}
Granted(r) == IF r[2] = "see" THEN Visible(r[1]) ELSE Writable(r[1])

-----------------------------------------------------------------------------
(* Requests *)

Parent(p)  == SubSeq(p, 1, Len(p) - 1)
Join(p, x) == IF x # ".." THEN Append(p, x) ELSE IF p = Root THEN Root ELSE Parent(p)

NoRequest == [op |-> "none"]

\* GetAttr, StatFS, Readlink and the reads of extended attributes look;
\* SetAttr, SetXattr and RemoveXattr alter.
OnSelf  == {"look", "alter"}
OnEntry == {"create", "mkdir", "symlink", "mknod", "unlink"}
Moves   == {"rename", "renameat"}

\* Requests that ask the registry about their paths and then act, with the
\* names they may have.  A rename names the file by its fid, a renameat by its
\* directory and its old name.
Checked ==
    [op: OnSelf] \cup [op: OnEntry \cup {"link", "rename"}, name: Names]
    \cup [op: {"renameat"}, name: Names, old: Names]

ASSUME AsksAssumption == Asks \subseteq Checked

See(p)    == <<p, "see">>
Change(p) == <<p, "change">>

\* Mutant: the target directory of a rename is not asked for its flag.
ChecksTargetVisible(op, p, d) ==
    << See(p) >>
    \o (IF op = "look" THEN << >> ELSE << Change(p) >>)
    \o (IF op \in Moves \cup {"link"} THEN << See(d) >> ELSE << >>)

\* What a request asks about its fid's path p and the other fid's path d, one
\* query after the other.
Checks(op, p, d) ==
    << See(p) >>
    \o (IF op = "look" THEN << >> ELSE << Change(p) >>)
    \o (IF op \in Moves \cup {"link"} THEN << See(d) >> ELSE << >>)
    \o (IF op \in Moves THEN << Change(d) >> ELSE << >>)

\* The answer of a query: CheckPath for what is seen, IsReadOnly for what is
\* changed.
Passes(c) == IF c[2] = "see" THEN CheckPath(c[1]) = "Exposed" ELSE ~IsReadOnly(c[1])

\* The rights a request relies on: the last right it asks for on each path.
Needs(op, p, d) ==
    IF op = "look" THEN {See(p)}
    ELSE {Change(p)}
         \cup (IF op = "link" THEN {See(d)} ELSE {})
         \cup (IF op \in Moves THEN {Change(d)} ELSE {})

InUse == {h \in Fids : file[h] # NoFile}
Busy  == {h \in Fids : request[h] # NoRequest}

\* A fid that a walk under way will set is taken.
Taken == InUse \cup {request[h].to : h \in {g \in Busy : request[g].op = "walk"}}

\* The 9P server lets a rename run alone, and serves a fid whose name is gone
\* no longer.
Ready(h) ==
    /\ h \in InUse \ (Busy \cup unlinked)
    /\ Cardinality(Busy) < MaxBusy
    /\ \A g \in Busy : request[g].op \notin Moves

\* A request of fid h starts; it relies on the rights of need.
Begins(h, req, need) ==
    /\ request' = [request EXCEPT ![h] = req]
    /\ pending' = [pending EXCEPT ![h] = {r \in need : ~Granted(r)}]
    /\ steady' = IF req.op \in {"walk", "readdir"} THEN steady \cup {h} ELSE steady
    /\ UNCHANGED <<registryVars, hostVars, fresh, unlinked>>

Continues(h, req) ==
    /\ request' = [request EXCEPT ![h] = req]
    /\ UNCHANGED <<registryVars, hostVars, ghostVars>>

Ends(h) ==
    /\ request' = [request EXCEPT ![h] = NoRequest]
    /\ pending' = [pending EXCEPT ![h] = {}]

\* It ends with an answer or an error and leaves the fids and the host alone.
EndsWith(h) ==
    /\ Ends(h)
    /\ steady' = steady \ {h}
    /\ UNCHANGED <<registryVars, hostVars, fresh, unlinked>>

\* with is the path of the other fid, whose VirtualFile the request keeps.
Begin(h, ask, other) ==
    LET p == file[h].path
        d == file[other].path
    IN
    /\ Ready(h)
    /\ other \in InUse \ unlinked
    /\ ask.op \notin Moves \cup {"link"} => other = h
    /\ ask.op \in Moves => Busy = {}
    /\ Begins(h, [op |-> ask.op, ask |-> ask, with |-> d, todo |-> Checks(ask.op, p, d)],
              Needs(ask.op, p, d))

\* Requests that have been asked to do what ops names and have asked all.
May(h, ops) == request[h].op \in ops /\ request[h].todo = << >>

Query(h) ==
    /\ request[h] # NoRequest
    /\ request[h].op \notin {"walk", "open", "readdir"}
    /\ request[h].todo # << >>
    /\ IF Passes(Head(request[h].todo))
         THEN Continues(h, [request[h] EXCEPT !.todo = Tail(@)])
         ELSE EndsWith(h)

-----------------------------------------------------------------------------
(* What the system calls do *)

NewFile(p) == [path |-> p, real |-> NoFile]

Unused == Inodes \ ({host[p] : p \in Paths} \cup {file[h].real : h \in InUse})

Entry(h) == Append(file[h].path, request[h].ask.name)

\* Bounds the depth of the host's directories.
Fits(p) == Len(p) <= MaxDepth

CanMake(h) ==
    /\ Fits(Entry(h))
    /\ host[file[h].path] = Dir
    /\ host[Entry(h)] = Absent

Below(p) == {q \in Paths : Above(p, q)}
Removable(p) == host[p] # Absent /\ \A q \in Below(p) \ {p} : host[q] = Absent

\* A request other than a walk changed the host.
Changes(h) == Ends(h) /\ steady' = {} /\ UNCHANGED <<registryVars, fresh>>

\* A call on the fid's own path: nothing the model keeps changes.
Acts(h) == May(h, OnSelf) /\ EndsWith(h)

\* O_EXCL: the entry must be new.  The fid becomes the new file's.
Create(h) ==
    /\ May(h, {"create"})
    /\ CanMake(h)
    /\ \E i \in Unused :
        /\ host' = [host EXCEPT ![Entry(h)] = i]
        /\ file' = [file EXCEPT ![h] = [path |-> Entry(h), real |-> i]]
    /\ unlinked' = unlinked \ {h}
    /\ Changes(h)

Mkdir(h) ==
    /\ May(h, {"mkdir"})
    /\ CanMake(h)
    /\ host' = [host EXCEPT ![Entry(h)] = Dir]
    /\ UNCHANGED <<file, unlinked>>
    /\ Changes(h)

Symlink(h) ==
    /\ May(h, {"symlink"})
    /\ CanMake(h)
    /\ \E i \in Unused : host' = [host EXCEPT ![Entry(h)] = i]
    /\ UNCHANGED <<file, unlinked>>
    /\ Changes(h)

Mknod(h) ==
    /\ May(h, {"mknod"})
    /\ CanMake(h)
    /\ \E i \in Unused : host' = [host EXCEPT ![Entry(h)] = i]
    /\ UNCHANGED <<file, unlinked>>
    /\ Changes(h)

Link(h) ==
    /\ May(h, {"link"})
    /\ CanMake(h)
    /\ host[request[h].with] \in Inodes
    /\ host' = [host EXCEPT ![Entry(h)] = host[request[h].with]]
    /\ UNCHANGED <<file, unlinked>>
    /\ Changes(h)

UnlinkAt(h) ==
    /\ May(h, {"unlink"})
    /\ Fits(Entry(h))
    /\ Removable(Entry(h))
    /\ host' = [host EXCEPT ![Entry(h)] = Absent]
    /\ unlinked' = unlinked \cup {g \in InUse : Above(Entry(h), file[g].path)}
    /\ UNCHANGED file
    /\ Changes(h)

\* The call fails: the entry exists or does not, the parent is gone, or the
\* system refuses.  A file that was made but cannot be looked at is removed.
CallFails(h) ==
    /\ May(h, OnEntry \cup Moves \cup {"link"})
    /\ EndsWith(h)

-----------------------------------------------------------------------------
(* Renames *)

Source(h) == IF request[h].op = "rename" THEN file[h].path
             ELSE Append(file[h].path, request[h].ask.old)
Target(h) == Append(request[h].with, request[h].ask.name)

\* The path of p after the path old became new.
Moved(p, old, new) == new \o SubSeq(p, Len(old) + 1, Len(p))

CanMove(old, new) ==
    /\ Fits(old) /\ Fits(new)
    /\ old # Root /\ host[old] # Absent
    /\ host[Parent(new)] = Dir
    /\ ~Above(old, new) /\ ~Above(new, old)
    /\ \/ host[new] = Absent
       \/ host[new] \in Inodes /\ host[old] \in Inodes
       \/ host[new] = Dir /\ host[old] = Dir /\ Removable(new)
    /\ \A p \in Below(old) : host[p] # Absent => Fits(Moved(p, old, new))
    /\ \A g \in InUse \ unlinked :
          Above(old, file[g].path) => Fits(Moved(file[g].path, old, new))

\* Two names of one file: the system does nothing.
AfterMove(old, new) ==
    IF host[old] \in Inodes /\ host[old] = host[new] THEN host
    ELSE [p \in Paths |->
            IF Above(new, p)
              THEN LET q == Moved(p, new, old) IN IF Fits(q) THEN host[q] ELSE Absent
            ELSE IF Above(old, p) THEN Absent
            ELSE host[p]]

\* Mutant: Renamed does nothing, as Removed.
RenamedIgnored(g, old, new) == file[g]

\* The server calls Renamed for the fids of the file and of what is below it.
Renamed(g, old, new) ==
    IF g \in InUse \ unlinked /\ Above(old, file[g].path)
      THEN [file[g] EXCEPT !.path = Moved(@, old, new)]
      ELSE file[g]

Rename(h) ==
    LET old == Source(h) new == Target(h) IN
    /\ May(h, Moves)
    /\ CanMove(old, new)
    /\ host' = AfterMove(old, new)
    /\ file' = [g \in Fids |-> Renamed(g, old, new)]
    /\ unlinked' = unlinked \cup {g \in InUse : Above(new, file[g].path)}
    /\ Changes(h)

-----------------------------------------------------------------------------
(* Fids *)

Attach(h) ==
    /\ h \notin Taken
    /\ file' = [file EXCEPT ![h] = NewFile(Root)]
    /\ fresh' = fresh \cup {h}
    /\ unlinked' = unlinked \ {h}
    /\ UNCHANGED <<registryVars, host, request, pending, steady>>

\* Close, when the last request on the fid is done.
Clunk(h) ==
    /\ h \in InUse \ Busy
    /\ file' = [file EXCEPT ![h] = NoFile]
    /\ UNCHANGED <<registryVars, host, request, ghostVars>>

\* sure: a walk of no name is as good as the walk that led to its fid.
Walk(h, to, names) ==
    /\ Ready(h)
    /\ to \notin Taken
    /\ Begins(h, [op |-> "walk", to |-> to, at |-> file[h].path, names |-> names,
                  sure |-> names # << >> \/ h \in fresh], {})

\* Mutant: a walk only asks whether the host has the path.
WalkStepUnchecked(h) ==
    LET r  == request[h]
        at == Join(r.at, Head(r.names))
    IN
    /\ r.op = "walk" /\ r.names # << >>
    /\ IF Fits(at) /\ host[at] # Absent
         THEN Continues(h, [r EXCEPT !.at = at, !.names = Tail(@)])
         ELSE EndsWith(h)

\* What CheckPath calls exposed must exist on the host.
Found(p) ==
    \/ CheckPath(p) = "Exposed" /\ host[p] # Absent
    \/ CheckPath(p) = "VirtualAncestor"

WalkStep(h) ==
    LET r  == request[h]
        at == Join(r.at, Head(r.names))
    IN
    /\ r.op = "walk" /\ r.names # << >>
    /\ IF Fits(at) /\ Found(at)
         THEN Continues(h, [r EXCEPT !.at = at, !.names = Tail(@)])
         ELSE EndsWith(h)

\* WalkGetAttr looks once more at where the walk has led.
WalkGetAttrFails(h) ==
    /\ request[h].op = "walk" /\ request[h].names = << >>
    /\ ~Found(request[h].at)
    /\ EndsWith(h)

WalkEnds(h) ==
    LET r == request[h] IN
    /\ r.op = "walk" /\ r.names = << >>
    /\ Ends(h)
    /\ file' = [file EXCEPT ![r.to] = NewFile(r.at)]
    /\ fresh' = IF h \in steady /\ r.sure THEN fresh \cup {r.to} ELSE fresh \ {r.to}
    /\ unlinked' = IF h \in unlinked THEN unlinked \cup {r.to} ELSE unlinked \ {r.to}
    /\ steady' = steady \ {h}
    /\ UNCHANGED <<registryVars, host>>

-----------------------------------------------------------------------------
(* Open *)

Open(h, mode) ==
    /\ Ready(h) /\ file[h].real = NoFile
    /\ Begins(h, [op |-> "open", mode |-> mode, stage |-> "check"],
              {IF mode = "write" THEN Change(file[h].path) ELSE See(file[h].path)})

OpenAt(h, stage) == request[h].op = "open" /\ request[h].stage = stage

\* A virtual directory is opened, for reading, without a file of the host.
OpenCheck(h) ==
    /\ OpenAt(h, "check")
    /\ IF CheckPath(file[h].path) = "Exposed"
         THEN Continues(h, [request[h] EXCEPT !.stage = "look"])
         ELSE EndsWith(h)

\* Lstat and IsReadOnly.  A directory of the host is opened without a file.
OpenLook(h) ==
    /\ OpenAt(h, "look")
    /\ IF /\ host[file[h].path] \in Inodes
          /\ request[h].mode = "write" => ~IsReadOnly(file[h].path)
         THEN Continues(h, [request[h] EXCEPT !.stage = "file"])
         ELSE EndsWith(h)

\* os.OpenFile follows the path once more.
OpenFile(h) ==
    /\ OpenAt(h, "file")
    /\ host[file[h].path] \in Inodes
    /\ file' = [file EXCEPT ![h].real = host[file[h].path]]
    /\ Ends(h)
    /\ steady' = steady \ {h}
    /\ UNCHANGED <<registryVars, host, fresh, unlinked>>

OpenFails(h) == OpenAt(h, "file") /\ EndsWith(h)

-----------------------------------------------------------------------------
(* Readdir of a virtual directory; that of a directory of the host is one   *)
(* read of it after CheckPath.  An answer holds all entries: the offset and *)
(* the count of a request are left out.                                     *)

Readdir(h) ==
    /\ Ready(h)
    /\ Begins(h, [op |-> "readdir", stage |-> "check", left |-> {}, dirents |-> {}], {})

ReaddirAt(h, stage) == request[h].op = "readdir" /\ request[h].stage = stage

ReaddirCheck(h) ==
    /\ ReaddirAt(h, "check")
    /\ IF CheckPath(file[h].path) = "VirtualAncestor"
         THEN Continues(h, [request[h] EXCEPT !.stage = "names"])
         ELSE EndsWith(h)

ReaddirNames(h) ==
    /\ ReaddirAt(h, "names")
    /\ Continues(h, [request[h] EXCEPT !.stage = "each",
                                       !.left = GetExposedChildren(file[h].path)])

\* Mutant: a child that is not exposed itself is skipped.
ReaddirEachExposed(h, x) ==
    LET child == Append(file[h].path, x) IN
    /\ ReaddirAt(h, "each") /\ x \in request[h].left
    /\ Continues(h, [request[h] EXCEPT !.left = @ \ {x},
                       !.dirents = IF CheckPath(child) = "Exposed" /\ host[child] # Absent
                                     THEN @ \cup {x} ELSE @])

\* A child that is not exposed is listed as a virtual directory, whether or
\* not it still is one; an exposed one must be on the host.
ReaddirEach(h, x) ==
    LET child == Append(file[h].path, x) IN
    /\ ReaddirAt(h, "each") /\ x \in request[h].left
    /\ Continues(h, [request[h] EXCEPT !.left = @ \ {x},
                       !.dirents = IF CheckPath(child) = "Exposed" /\ host[child] = Absent
                                     THEN @ ELSE @ \cup {x}])

Listed(h) == ReaddirAt(h, "each") /\ request[h].left = {}

ReaddirEnds(h) == Listed(h) /\ EndsWith(h)

-----------------------------------------------------------------------------
(* The registry *)

\* The user, or an approved request, changes the registry.
Edit(p, ro) ==
    /\ edits < MaxEdits
    /\ edits' = edits + 1
    /\ \/ /\ AddPath(p, ro) \/ AddPathAgain(p, ro)
          /\ fresh' = fresh
          /\ pending' = [h \in Fids |-> {r \in pending[h] : ~Granted(r)'}]
       \/ /\ RemovePath(p)
          /\ fresh' = {}
          /\ pending' = [h \in Fids |->
                           {r \in pending[h] : ~Granted(r)' /\ ~Above(p, r[1])}]
    /\ steady' = {}
    /\ UNCHANGED <<hostVars, request, unlinked>>

VFSInit ==
    /\ Init
    /\ host = Host0
    /\ file = [h \in Fids |-> NoFile]
    /\ request = [h \in Fids |-> NoRequest]
    /\ edits = 0
    /\ pending = [h \in Fids |-> {}]
    /\ steady = {} /\ fresh = {} /\ unlinked = {}

Serve(h) ==
    \/ Attach(h) \/ Clunk(h) \/ Query(h) \/ Acts(h)
    \/ \E ask \in Asks, other \in Fids : Begin(h, ask, other)
    \/ Create(h) \/ Mkdir(h) \/ Symlink(h) \/ Mknod(h) \/ Link(h) \/ UnlinkAt(h) \/ Rename(h) \/ CallFails(h)
    \/ \E to \in Fids, names \in Steps : Walk(h, to, names)
    \/ WalkStep(h) \/ WalkGetAttrFails(h) \/ WalkEnds(h)
    \/ \E mode \in {"read", "write"} : Open(h, mode)
    \/ OpenCheck(h) \/ OpenLook(h) \/ OpenFile(h) \/ OpenFails(h)
    \/ Readdir(h) \/ ReaddirCheck(h) \/ ReaddirNames(h) \/ ReaddirEnds(h)
    \/ \E x \in Names : ReaddirEach(h, x)

VFSNext ==
    \/ \E h \in Fids : Serve(h)
    \/ \E p \in Exposable, ro \in BOOLEAN : Edit(p, ro)

VFSSpec == VFSInit /\ [][VFSNext]_vfsVars

-----------------------------------------------------------------------------
(* Properties *)

VFSTypeOK ==
    /\ host \in [Paths -> Inodes \cup {Dir, Absent}]
    /\ file \in [Fids -> {NoFile} \cup
         [path: Paths, real: Inodes \cup {NoFile}]]
    /\ \A h \in Fids : pending[h] \subseteq Rights
    /\ steady \subseteq Fids /\ fresh \subseteq Fids /\ unlinked \subseteq Fids
    /\ edits \in 0..MaxEdits

\* When the system call of a request is due, every path it reads was visible
\* and every path it changes was writable at some moment since the request
\* came in, unless an exposure of that path was removed in the meantime: the
\* separate queries of CheckPath and IsReadOnly let nothing else slip through.
ChecksSuffice ==
    \A h \in Busy :
        (May(h, OnSelf \cup OnEntry \cup Moves \cup {"link"}) \/ OpenAt(h, "file"))
            => pending[h] = {}

\* A fid walked to while the registry stood still names a visible path, or a
\* virtual directory, until an exposure is removed.
WalkedIsVisible ==
    \A h \in InUse \cap fresh :
        \/ file[h].path = Root
        \/ \E q \in exposed : Above(q, file[h].path) \/ Above(file[h].path, q)

\* The answer to a Readdir of a virtual directory during which nothing changed
\* has exactly the names that lead to an exposed path, but for exposed paths
\* that are gone from the host.
ListingIsExact ==
    \A h \in Busy \cap steady : Listed(h) =>
        request[h].dirents =
            {x \in Names : LET child == Append(file[h].path, x) IN
                /\ \E q \in exposed : Above(child, q)
                /\ child \notin exposed \/ host[child] # Absent}

\* An open file is found under the path of its fid, through renames of it and
\* of the directories above it, until that name is removed.
OpenFileKeepsName ==
    \A h \in InUse \ unlinked :
        file[h].real # NoFile => host[file[h].path] = file[h].real

=============================================================================
