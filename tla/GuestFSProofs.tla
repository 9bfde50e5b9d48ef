---------------------------- MODULE GuestFSProofs ----------------------------
(***************************************************************************)
(* Proofs about GuestFS, for any requests, paths, inodes and fids.         *)
(***************************************************************************)
EXTENDS GuestFS, FiniteSetTheorems, TLAPS

Stages == {"idle", "invalidate", "walk", "call", "fetch", "return"}

FidTypeOK ==
    /\ pc \in [Procs -> Stages]
    /\ DOMAIN job = Procs
    /\ holds \in [Procs -> SUBSET Fids]
    /\ DOMAIN files \subseteq Fids
    /\ open \subseteq Fids

\* How many fids a request holds follows from its stage: it walks once, or
\* twice for rename and link, and keeps at most what it walked to.
StageFids ==
    \A q \in Procs :
        /\ pc[q] = "invalidate" => /\ holds[q] = {}
                                   /\ job[q].kind \in Invalidating
        /\ pc[q] = "walk" =>
             /\ job[q].kind \in Kinds \ {"stat", "write"}
             /\ \/ holds[q] = {}
                \/ job[q].kind \in {"rename", "link"} /\ \E f \in Fids : holds[q] = {f}
        /\ pc[q] = "call" /\ job[q].kind \in {"open", "create"} =>
             \E f \in Fids : holds[q] = {f}

FidInv == FidTypeOK /\ FidsAccounted /\ StageFids

\* Closing what a request holds, on whichever way out, keeps the books.
LEMMA Closing ==
    ASSUME FidInv, NEW q \in Procs, CloseWalked(q),
           NEW l \in {"fetch", "return"}, Goto(q, l), UNCHANGED job
    PROVE  FidInv'
<1>1. FidTypeOK'
  BY DEF FidInv, FidTypeOK, CloseWalked, Goto, Stages
<1>2. FidsAccounted'
  BY DEF FidInv, FidTypeOK, FidsAccounted, CloseWalked, Goto
<1>3. StageFids'
  BY DEF FidInv, FidTypeOK, StageFids, CloseWalked, Goto
<1> QED
  BY <1>1, <1>2, <1>3 DEF FidInv

\* So does handing the one fid of an open or a create to the file.
LEMMA Keeping ==
    ASSUME FidInv, NEW q \in Procs, NEW p, NEW i, KeepFid(q, p, i),
           pc[q] = "call", job[q].kind \in {"open", "create"},
           Goto(q, "return"), UNCHANGED job
    PROVE  FidInv'
<1>1. PICK f \in Fids : holds[q] = {f}
  BY DEF FidInv, StageFids
<1>2. /\ DOMAIN files' = DOMAIN files \cup {f}
      /\ holds' = [holds EXCEPT ![q] = {}]
      /\ open' = open
  BY <1>1 DEF KeepFid
<1>3. FidTypeOK'
  BY <1>1, <1>2 DEF FidInv, FidTypeOK, Goto, Stages
<1>4. FidsAccounted'
  <2>1. open' = DOMAIN files' \cup UNION {holds'[r] : r \in Procs}
    BY <1>1, <1>2 DEF FidInv, FidTypeOK, FidsAccounted
  <2>2. ASSUME NEW r \in Procs
        PROVE  /\ holds'[r] \cap DOMAIN files' = {}
               /\ \A s \in Procs \ {r} : holds'[r] \cap holds'[s] = {}
               /\ pc'[r] \in {"idle", "return"} => holds'[r] = {}
    BY <1>1, <1>2, <2>2 DEF FidInv, FidTypeOK, FidsAccounted, Goto
  <2> QED
    BY <2>1, <2>2 DEF FidsAccounted
<1>5. StageFids'
  BY <1>2 DEF FidInv, FidTypeOK, StageFids, Goto
<1> QED
  BY <1>3, <1>4, <1>5 DEF FidInv

LEMMA Walking ==
    ASSUME FidInv, NEW q \in Procs, Walk(q)
    PROVE  FidInv'
<1> DEFINE f == FreshFid
           W == Walks(job[q])
           l == IF Cardinality(holds[q]) + 1 < Len(W) THEN "walk" ELSE "call"
<1>1. f \in Fids /\ f \notin open
  BY DEF FidInv, FidTypeOK, Walk, FreshFid
<1>2. /\ pc[q] = "walk"
      /\ open' = open \cup {f}
      /\ holds' = [holds EXCEPT ![q] = holds[q] \cup {f}]
      /\ pc' = [pc EXCEPT ![q] = l]
      /\ UNCHANGED <<job, files>>
  BY DEF Walk, Goto
<1> HIDE DEF f
<1>3. /\ job[q].kind \in Kinds \ {"stat", "write"}
      /\ \/ holds[q] = {}
         \/ job[q].kind \in {"rename", "link"} /\ \E g \in Fids : holds[q] = {g}
  BY <1>2 DEF FidInv, StageFids
<1>4. Len(W) = IF job[q].kind \in {"rename", "link"} THEN 2 ELSE 1
  BY <1>3 DEF Walks, Kinds
<1>5. \/ holds[q] = {} /\ Cardinality(holds[q]) = 0
      \/ \E g \in Fids : holds[q] = {g} /\ Cardinality(holds[q]) = 1
  BY <1>3, FS_EmptySet, FS_Singleton
<1>6. /\ l = "walk" => job[q].kind \in {"rename", "link"} /\ holds'[q] = {f}
      /\ l = "call" /\ job[q].kind \in {"open", "create"} => holds'[q] = {f}
  BY <1>2, <1>3, <1>4, <1>5 DEF FidInv, FidTypeOK
<1>7. FidTypeOK'
  BY <1>1, <1>2 DEF FidInv, FidTypeOK, Stages
<1>8. FidsAccounted'
  <2>1. open' = DOMAIN files' \cup UNION {holds'[r] : r \in Procs}
    BY <1>2 DEF FidInv, FidTypeOK, FidsAccounted
  <2>2. f \notin DOMAIN files /\ \A r \in Procs : f \notin holds[r]
    BY <1>1 DEF FidInv, FidTypeOK, FidsAccounted
  <2>3. ASSUME NEW r \in Procs
        PROVE  /\ holds'[r] \cap DOMAIN files' = {}
               /\ \A s \in Procs \ {r} : holds'[r] \cap holds'[s] = {}
               /\ pc'[r] \in {"idle", "return"} => holds'[r] = {}
    BY <1>2, <2>2 DEF FidInv, FidTypeOK, FidsAccounted
  <2> QED
    BY <2>1, <2>3 DEF FidsAccounted
<1>9. StageFids'
  BY <1>1, <1>2, <1>3, <1>6 DEF FidInv, FidTypeOK, StageFids
<1> QED
  BY <1>7, <1>8, <1>9 DEF FidInv

\* A step that leaves the stages, the requests and the fids alone.
LEMMA FidFrame == FidInv /\ UNCHANGED <<pc, job, fidVars>> => FidInv'
BY DEF FidInv, FidTypeOK, FidsAccounted, StageFids, fidVars

LEMMA FidBegin ==
    ASSUME FidInv, NEW q \in Procs, NEW j, NEW g, Begin(q, j, g), NEW l \in Stages,
           Goto(q, l), UNCHANGED fidVars,
           l \in {"fetch", "invalidate", "walk"},
           l = "invalidate" => j.kind \in Invalidating,
           l = "walk" => j.kind \in Kinds \ {"stat", "write"}
    PROVE  FidInv'
<1>1. /\ pc' = [pc EXCEPT ![q] = l] /\ job' = [job EXCEPT ![q] = j]
      /\ pc[q] = "idle" /\ UNCHANGED <<holds, files, open>>
  BY DEF Begin, Goto, fidVars
<1>2. FidTypeOK'
  BY <1>1 DEF FidInv, FidTypeOK
<1>3. holds[q] = {}
  BY <1>1 DEF FidInv, FidsAccounted
<1>4. FidsAccounted'
  BY <1>1, <1>3 DEF FidInv, FidTypeOK, FidsAccounted
<1>5. StageFids'
  BY <1>1, <1>3 DEF FidInv, FidTypeOK, StageFids
<1> QED
  BY <1>2, <1>4, <1>5 DEF FidInv

LEMMA FidInductive == FidInv /\ [Next]_vars => FidInv'
<1> SUFFICES ASSUME FidInv, [Next]_vars PROVE FidInv'
  OBVIOUS
<1>1. ASSUME NEW q \in Procs, NEW j \in Jobs, BeginStat(q, j) PROVE FidInv'
  BY <1>1, FidBegin DEF BeginStat, Stages
<1>2. ASSUME NEW q \in Procs, NEW j \in Jobs, BeginRequest(q, j) PROVE FidInv'
  <2>1. j.kind \in Kinds \ {"stat", "write"}
    BY <1>2, GuestAssumption DEF BeginRequest, Request
  <2>2. Begin(q, j, NoFid) /\ UNCHANGED fidVars
    BY <1>2 DEF BeginRequest
  <2>3. CASE j.kind \in Invalidating /\ Goto(q, "invalidate")
    BY <2>2, <2>3, FidBegin DEF Stages
  <2>4. CASE Goto(q, "walk")
    BY <2>1, <2>2, <2>4, FidBegin DEF Stages
  <2> QED
    BY <1>2, <2>3, <2>4 DEF BeginRequest
<1>3. ASSUME NEW q \in Procs, NEW f \in Fids, BeginWrite(q, f) PROVE FidInv'
  <2> DEFINE j == [kind |-> "write", path |-> files[f].path, to |-> << >>]
  <2>1. Begin(q, j, f) /\ Goto(q, "invalidate") /\ UNCHANGED fidVars
    BY <1>3 DEF BeginWrite
  <2>2. j.kind \in Invalidating
    BY DEF Invalidating
  <2> HIDE DEF j
  <2> QED
    BY <2>1, <2>2, FidBegin DEF Stages
<1>4. ASSUME NEW q \in Procs, Step(q) PROVE FidInv'
  <2>1. CASE Invalidate(q)
    BY <2>1 DEF Invalidate, Goto, Invalidating, Kinds, Stages, fidVars, FidInv,
       FidTypeOK, FidsAccounted, StageFids
  <2>2. CASE Walk(q)
    BY <2>2, Walking
  <2>3. CASE WalkFails(q)
    BY <2>3, Closing DEF WalkFails
  <2>4. CASE CallStep(q)
    <3>1. CASE Look(q) \/ Write(q) \/ Make(q) \/ Unlink(q) \/ Rename(q) \/ CallFails(q)
      BY <3>1, Closing DEF Look, Write, Make, Unlink, Rename, CallFails, Done
    <3>2. CASE Setattr(q) \/ SetattrIgnoresFailure(q) \/ Link(q)
      BY <3>2, Closing DEF Setattr, SetattrIgnoresFailure, Link, ThenFetch
    <3>3. CASE Open(q)
      BY <3>3, Keeping DEF Open, Call
    <3>4. CASE Create(q)
      BY <3>4, Keeping DEF Create, Call
    <3>5. CASE Readdir(q)
      BY <3>5 DEF Readdir, ThenFetch, Call, Goto, Stages, fidVars, FidInv,
         FidTypeOK, FidsAccounted, StageFids
    <3> QED
      BY <2>4, <3>1, <3>2, <3>3, <3>4, <3>5 DEF CallStep
  <2>5. CASE FetchStep(q)
    <3>1. ASSUME NEW p \in Paths,
                 CacheHit(q, p) \/ CacheMiss(q, p) \/ Answer(q, p) \/ Put(q, p)
                   \/ FetchFails(q, p)
          PROVE  FidInv'
      BY <3>1, FidFrame DEF CacheHit, CacheMiss, Answer, Put, FetchFails, EndFetch
    <3>2. CASE FetchDone(q)
      BY <3>2, Closing DEF FetchDone
    <3> QED
      BY <2>5, <3>1, <3>2 DEF FetchStep
  <2>6. CASE Return(q)
    BY <2>6 DEF Return, Goto, Stages, fidVars, FidInv, FidTypeOK, FidsAccounted,
       StageFids
  <2> QED
    BY <1>4, <2>1, <2>2, <2>3, <2>4, <2>5, <2>6 DEF Step
<1>5. ASSUME NEW f \in Fids, Release(f) PROVE FidInv'
  <2>1. /\ DOMAIN files' = DOMAIN files \ {f} /\ open' = open \ {f}
        /\ f \in DOMAIN files /\ UNCHANGED <<pc, job, holds>>
    BY <1>5 DEF Release
  <2> QED
    BY <2>1 DEF FidInv, FidTypeOK, FidsAccounted, StageFids
<1>6. ASSUME NEW p \in Paths, Expire(p) \/ HostChange(p) PROVE FidInv'
  BY <1>6, FidFrame DEF Expire, HostChange
<1>7. CASE UNCHANGED vars
  BY <1>7, FidFrame DEF vars
<1> QED
  BY <1>1, <1>2, <1>3, <1>4, <1>5, <1>6, <1>7 DEF Next

\* No request leaves a 9P fid behind, whichever of its steps fails, and none
\* closes the fid of a file that is open.
THEOREM FidsAreAccounted == Spec => []FidsAccounted
<1>1. Init => FidInv
  BY DEF Init, FidInv, FidTypeOK, FidsAccounted, StageFids, Stages
<1>2. FidInv => FidsAccounted
  BY DEF FidInv
<1> QED
  BY <1>1, <1>2, FidInductive, PTL DEF Spec

-----------------------------------------------------------------------------
(* Types and the semaphore *)

Flying(q) == {p \in Paths : flight[q][p] # NoAttr}

SlotInv ==
    /\ GuestTypeOK
    /\ \A q \in Procs :
          /\ IsFiniteSet(Flying(q))
          /\ slots[q] = Cardinality(Flying(q))
          /\ want[q] \cap Flying(q) = {}
          /\ pc[q] # "fetch" => want[q] = {} /\ Flying(q) = {}

LEMMA NothingFlies ==
    ASSUME NEW q \in Procs, GuestTypeOK
    PROVE  flight[q] = NoFetch <=> Flying(q) = {}
BY DEF GuestTypeOK, Flying, NoFetch

\* A fetch that begins takes a slot and is the one more that is under way.
LEMMA SlotTaken ==
    ASSUME SlotInv, NEW q \in Procs, NEW p \in Paths, CacheMiss(q, p)
    PROVE  SlotInv'
<1>1. /\ p \in want[q] /\ p \notin Flying(q)
      /\ slots[q] < maxConcurrent /\ slots[q] \in Nat
      /\ maxConcurrent \in Nat
      /\ slots' = [slots EXCEPT ![q] = slots[q] + 1]
      /\ want' = [want EXCEPT ![q] = want[q] \ {p}]
      /\ flight' = [flight EXCEPT ![q] = [flight[q] EXCEPT ![p] = Asked]]
      /\ UNCHANGED pc
  BY GuestAssumption DEF CacheMiss, SlotInv, GuestTypeOK
<1>2. GuestTypeOK'
  <2>1. slots'[q] \in 0..maxConcurrent
    BY <1>1 DEF SlotInv, GuestTypeOK
  <2>2. slots' \in [Procs -> 0..maxConcurrent]
    BY <1>1, <2>1 DEF SlotInv, GuestTypeOK
  <2>3. flight' \in [Procs -> [Paths -> Attrs \cup {NoAttr, Asked}]]
    BY <1>1 DEF SlotInv, GuestTypeOK
  <2> QED
    BY <1>1, <2>2, <2>3 DEF SlotInv, GuestTypeOK, CacheMiss, hostVars, fidVars
<1>3. Asked # NoAttr
  BY DEF Asked, NoAttr
<1>4. Flying(q)' = Flying(q) \cup {p}
  BY <1>1, <1>3 DEF Flying, SlotInv, GuestTypeOK
<1>5. ASSUME NEW r \in Procs, r # q PROVE Flying(r)' = Flying(r)
  BY <1>1, <1>5 DEF Flying, SlotInv, GuestTypeOK
<1>6. /\ IsFiniteSet(Flying(q)')
      /\ Cardinality(Flying(q)') = Cardinality(Flying(q)) + 1
  BY <1>1, <1>4, FS_AddElement DEF SlotInv
<1>7. slots'[q] = slots[q] + 1 /\ want'[q] = want[q] \ {p}
  BY <1>1 DEF SlotInv, GuestTypeOK
<1>8. ASSUME NEW r \in Procs
      PROVE  /\ IsFiniteSet(Flying(r)')
             /\ slots'[r] = Cardinality(Flying(r)')
             /\ want'[r] \cap Flying(r)' = {}
             /\ pc'[r] # "fetch" => want'[r] = {} /\ Flying(r)' = {}
  <2>1. CASE r = q
    BY <1>1, <1>4, <1>6, <1>7, <2>1 DEF SlotInv
  <2>2. CASE r # q
    BY <1>1, <1>5, <2>2 DEF SlotInv, GuestTypeOK
  <2> QED
    BY <2>1, <2>2
<1> QED
  BY <1>2, <1>8 DEF SlotInv

\* A fetch that ends, with an answer or without, gives its slot back.
LEMMA SlotGivenBack ==
    ASSUME SlotInv, NEW q \in Procs, NEW p \in Paths, EndFetch(q, p),
           flight[q][p] # NoAttr, UNCHANGED <<tree, ver, clock>>,
           cache' \in [Paths -> Attrs \cup {NoAttr}]
    PROVE  SlotInv'
<1>1. /\ p \in Flying(q)
      /\ slots' = [slots EXCEPT ![q] = slots[q] - 1]
      /\ flight' = [flight EXCEPT ![q] = [flight[q] EXCEPT ![p] = NoAttr]]
      /\ UNCHANGED <<want, pc>>
  BY DEF EndFetch, Flying
<1>2. Flying(q)' = Flying(q) \ {p}
  BY <1>1 DEF Flying, SlotInv, GuestTypeOK
<1>3. ASSUME NEW r \in Procs, r # q PROVE Flying(r)' = Flying(r)
  BY <1>1, <1>3 DEF Flying, SlotInv, GuestTypeOK
<1>4. /\ IsFiniteSet(Flying(q)')
      /\ Cardinality(Flying(q)') = Cardinality(Flying(q)) - 1
  BY <1>1, <1>2, FS_RemoveElement DEF SlotInv
<1>5. Cardinality(Flying(q)') \in Nat
  BY <1>4, FS_CardinalityType
<1>6. slots'[q] = slots[q] - 1 /\ slots'[q] \in 0..maxConcurrent
  BY <1>1, <1>4, <1>5, GuestAssumption DEF SlotInv, GuestTypeOK
<1>7. GuestTypeOK'
  <2>1. slots' \in [Procs -> 0..maxConcurrent]
    BY <1>1, <1>6 DEF SlotInv, GuestTypeOK
  <2>2. flight' \in [Procs -> [Paths -> Attrs \cup {NoAttr, Asked}]]
    BY <1>1 DEF SlotInv, GuestTypeOK
  <2> QED
    BY <2>1, <2>2 DEF SlotInv, GuestTypeOK, EndFetch, fidVars
<1>8. ASSUME NEW r \in Procs
      PROVE  /\ IsFiniteSet(Flying(r)')
             /\ slots'[r] = Cardinality(Flying(r)')
             /\ want'[r] \cap Flying(r)' = {}
             /\ pc'[r] # "fetch" => want'[r] = {} /\ Flying(r)' = {}
  <2>1. CASE r = q
    BY <1>1, <1>2, <1>4, <1>6, <2>1 DEF SlotInv
  <2>2. CASE r # q
    BY <1>1, <1>3, <2>2 DEF SlotInv, GuestTypeOK
  <2> QED
    BY <2>1, <2>2
<1> QED
  BY <1>7, <1>8 DEF SlotInv

\* Steps that leave the fetches alone and stay outside the stage of fetching.
LEMMA SlotFrame ==
    ASSUME SlotInv, GuestTypeOK', UNCHANGED <<flight, slots>>,
           \A q \in Procs : want'[q] \cap Flying(q) = {},
           \A q \in Procs : pc'[q] # "fetch" => want'[q] = {} /\ Flying(q) = {}
    PROVE  SlotInv'
<1>1. \A q \in Procs : Flying(q)' = Flying(q)
  BY DEF Flying
<1> QED
  BY <1>1 DEF SlotInv

\* A request begins.
LEMMA SlotBegin ==
    ASSUME SlotInv, NEW q \in Procs, NEW j \in Request, NEW f \in Fids \cup {NoFid},
           Begin(q, j, f), NEW l \in Stages, Goto(q, l),
           UNCHANGED <<tree, ver, clock, cache, flight, slots, holds, files, open>>,
           NEW S \in SUBSET Paths, want' = [want EXCEPT ![q] = S],
           l # "fetch" => S = {}
    PROVE  SlotInv'
<1>1. pc[q] = "idle" /\ pc' = [pc EXCEPT ![q] = l]
  BY DEF Begin, Goto
<1>2. GuestTypeOK'
  BY <1>1 DEF SlotInv, GuestTypeOK, Begin, Stages
<1>3. \A r \in Procs : pc'[r] # "fetch" => want'[r] = {} /\ Flying(r) = {}
  BY <1>1 DEF SlotInv, GuestTypeOK
<1>4. \A r \in Procs : want'[r] \cap Flying(r) = {}
  BY <1>1 DEF SlotInv, GuestTypeOK
<1> QED
  BY <1>2, <1>3, <1>4, SlotFrame

\* A request goes on to another stage, none of them fetching.
LEMMA SlotOn ==
    ASSUME SlotInv, GuestTypeOK', NEW q \in Procs, NEW l, Goto(q, l),
           want[q] = {}, Flying(q) = {},
           UNCHANGED fetchVars
    PROVE  SlotInv'
BY SlotFrame DEF Goto, fetchVars, SlotInv, GuestTypeOK

\* A call is followed by fetches.
LEMMA SlotFetch ==
    ASSUME SlotInv, GuestTypeOK', NEW q \in Procs, pc[q] = "call",
           NEW S \in SUBSET Paths, ThenFetch(q, S)
    PROVE  SlotInv'
BY SlotFrame DEF ThenFetch, Goto, SlotInv, GuestTypeOK

LEMMA ClosingTyped ==
    ASSUME GuestTypeOK, NEW q \in Procs, CloseWalked(q)
    PROVE  /\ holds' \in [Procs -> SUBSET Fids] /\ open' \subseteq Fids
           /\ DOMAIN files' \subseteq Fids
           /\ \A f \in DOMAIN files' : files'[f] \in [path : Paths, ino : Inodes]
BY DEF GuestTypeOK, CloseWalked

LEMMA KeepingTyped ==
    ASSUME GuestTypeOK, NEW q \in Procs, NEW p \in Paths, NEW i \in Inodes,
           KeepFid(q, p, i)
    PROVE  /\ holds' \in [Procs -> SUBSET Fids] /\ open' \subseteq Fids
           /\ DOMAIN files' \subseteq Fids
           /\ \A f \in DOMAIN files' : files'[f] \in [path : Paths, ino : Inodes]
BY DEF GuestTypeOK, KeepFid

LEMMA ChangeTyped ==
    ASSUME GuestTypeOK, NEW S, Change(S)
    PROVE  ver' \in [Inodes -> 0..MaxChanges] /\ clock' \in 0..MaxChanges
BY GuestAssumption DEF GuestTypeOK, Change

LEMMA JobTyped ==
    ASSUME GuestTypeOK, NEW q \in Procs, NEW k \in Kinds, job[q].kind = k
    PROVE  job[q] \in Request
BY DEF GuestTypeOK, Idle, Kinds

\* Every call on the host keeps the types.
LEMMA CallTyped ==
    ASSUME GuestTypeOK, NEW q \in Procs, CallStep(q)
    PROVE  GuestTypeOK'
<1>1. CASE Look(q) \/ CallFails(q) \/ Write(q)
  BY <1>1, ClosingTyped, ChangeTyped
     DEF Look, CallFails, Write, Done, Goto, fetchVars, hostVars, GuestTypeOK
<1>2. CASE Make(q)
  <2>1. PICK i \in Inodes : AddEntry(job[q].path, i) /\ Done(q)
    BY <1>2 DEF Make
  <2> QED
    BY <2>1, ClosingTyped, ChangeTyped
       DEF AddEntry, Done, Goto, fetchVars, GuestTypeOK
<1>3. CASE Unlink(q)
  BY <1>3, ClosingTyped, ChangeTyped
     DEF Unlink, Done, Goto, fetchVars, GuestTypeOK
<1>4. CASE Rename(q)
  <2>1. tree' \in [Paths -> Inodes \cup {NoInode}]
    <3> DEFINE p == job[q].path
               t == job[q].to
               new(x) == IF ~IsPrefix(t, x)
                           THEN IF IsPrefix(p, x) THEN NoInode ELSE tree[x]
                           ELSE IF Before(x, p, t) \in Paths
                                  THEN tree[Before(x, p, t)] ELSE NoInode
    <3>1. tree' = [x \in Paths |-> new(x)]
      BY <1>4 DEF Rename
    <3>2. ASSUME NEW x \in Paths PROVE new(x) \in Inodes \cup {NoInode}
      BY DEF GuestTypeOK
    <3> QED
      BY <3>1, <3>2
  <2> QED
    BY <1>4, <2>1, ClosingTyped, ChangeTyped
       DEF Rename, Done, Goto, fetchVars, GuestTypeOK
<1>5. CASE Open(q)
  <2>1. job[q].path \in Paths
    BY <1>5, JobTyped DEF Open, Call, Kinds, Request
  <2>2. tree[job[q].path] \in Inodes
    BY <1>5, <2>1 DEF Open, Exists, GuestTypeOK
  <2> QED
    BY <1>5, <2>1, <2>2, KeepingTyped DEF Open, Goto, fetchVars, hostVars, GuestTypeOK
<1>6. CASE Create(q)
  <2>1. job[q].path \in Paths
    BY <1>6, JobTyped DEF Create, Call, Kinds, Request
  <2> QED
    BY <1>6, <2>1, KeepingTyped, ChangeTyped
       DEF Create, AddEntry, Goto, fetchVars, GuestTypeOK
<1>7. CASE Setattr(q) \/ SetattrIgnoresFailure(q)
  <2>1. job[q].path \in Paths
    BY <1>7, JobTyped DEF Setattr, SetattrIgnoresFailure, Call, Kinds, Request
  <2>2. /\ CloseWalked(q) /\ ThenFetch(q, {job[q].path})
        /\ tree' = tree
        /\ ver' \in [Inodes -> 0..MaxChanges] /\ clock' \in 0..MaxChanges
    BY <1>7, ChangeTyped DEF Setattr, SetattrIgnoresFailure, hostVars, GuestTypeOK
  <2> QED
    BY <2>1, <2>2, ClosingTyped DEF ThenFetch, Goto, GuestTypeOK
<1>8. CASE Link(q)
  <2>1. job[q].path \in Paths /\ job[q].to \in Paths
    BY <1>8, JobTyped DEF Link, Call, Kinds, Request
  <2>2. tree[job[q].to] \in Inodes
    BY <1>8, <2>1 DEF Link, Exists, GuestTypeOK
  <2> QED
    BY <1>8, <2>1, <2>2, ClosingTyped, ChangeTyped
       DEF Link, AddEntry, ThenFetch, Goto, GuestTypeOK
<1>9. CASE Readdir(q)
  BY <1>9 DEF Readdir, ThenFetch, Children, Goto, hostVars, fidVars, GuestTypeOK
<1> QED
  BY <1>1, <1>2, <1>3, <1>4, <1>5, <1>6, <1>7, <1>8, <1>9 DEF CallStep

LEMMA SlotCall ==
    ASSUME SlotInv, NEW q \in Procs, CallStep(q)
    PROVE  SlotInv'
<1>1. GuestTypeOK'
  BY CallTyped DEF SlotInv
<1>2. CASE \E l \in {"return"} : Goto(q, l) /\ UNCHANGED fetchVars /\ pc[q] = "call"
  BY <1>1, <1>2, SlotOn DEF SlotInv
<1>3. CASE Look(q) \/ CallFails(q) \/ Write(q) \/ Make(q) \/ Unlink(q) \/ Rename(q)
             \/ Open(q) \/ Create(q)
  BY <1>2, <1>3 DEF Look, CallFails, Write, Make, Unlink, Rename, Open, Create, Done,
     Call
<1>4. CASE Setattr(q) \/ SetattrIgnoresFailure(q)
  BY <1>1, <1>4, JobTyped, SlotFetch
     DEF Setattr, SetattrIgnoresFailure, Call, Kinds, Request, SlotInv
<1>5. CASE Link(q)
  BY <1>1, <1>5, JobTyped, SlotFetch DEF Link, Call, Kinds, Request, SlotInv
<1>6. CASE Readdir(q)
  BY <1>1, <1>6, SlotFetch DEF Readdir, Children, Call
<1> QED
  BY <1>3, <1>4, <1>5, <1>6 DEF CallStep

\* One look-up, its fetch, its answer or its end.
LEMMA SlotLookUp ==
    ASSUME SlotInv, NEW q \in Procs, NEW p \in Paths,
           CacheHit(q, p) \/ CacheMiss(q, p) \/ Answer(q, p) \/ Put(q, p)
             \/ FetchFails(q, p)
    PROVE  SlotInv'
<1>1. CASE CacheHit(q, p)
  <2>1. GuestTypeOK'
    BY <1>1 DEF CacheHit, hostVars, fidVars, SlotInv, GuestTypeOK
  <2> QED
    BY <1>1, <2>1, SlotFrame DEF CacheHit, SlotInv, GuestTypeOK
<1>2. CASE CacheMiss(q, p)
  BY <1>2, SlotTaken
<1>3. CASE Answer(q, p)
  <2>1. Current(p) \in Attrs /\ Current(p) # NoAttr /\ flight[q][p] # NoAttr
    BY <1>3, GuestAssumption
       DEF Answer, Current, Exists, Attrs, NoAttr, Asked, SlotInv, GuestTypeOK
  <2>2. flight' = [flight EXCEPT ![q] = [flight[q] EXCEPT ![p] = Current(p)]]
    BY <1>3 DEF Answer
  <2>3. GuestTypeOK'
    BY <1>3, <2>1, <2>2 DEF Answer, hostVars, fidVars, SlotInv, GuestTypeOK
  <2>4. ASSUME NEW r \in Procs PROVE Flying(r)' = Flying(r)
    BY <2>1, <2>2 DEF Flying, SlotInv, GuestTypeOK
  <2> QED
    BY <1>3, <2>3, <2>4 DEF Answer, SlotInv
<1>4. CASE Put(q, p)
  <2>1. flight[q][p] \in Attrs /\ flight[q][p] # NoAttr
    BY <1>4, GuestAssumption DEF Put, Attrs, NoAttr
  <2>2. cache' \in [Paths -> Attrs \cup {NoAttr}]
    BY <1>4, <2>1 DEF Put, SlotInv, GuestTypeOK
  <2> QED
    BY <1>4, <2>1, <2>2, SlotGivenBack DEF Put, EndFetch, hostVars
<1>5. CASE FetchFails(q, p)
  <2>1. flight[q][p] # NoAttr
    BY <1>5 DEF FetchFails, Asked, NoAttr
  <2> QED
    BY <1>5, <2>1, SlotGivenBack DEF FetchFails, EndFetch, hostVars, SlotInv, GuestTypeOK
<1> QED
  BY <1>1, <1>2, <1>3, <1>4, <1>5

LEMMA SlotInductive == SlotInv /\ [Next]_vars => SlotInv'
<1> SUFFICES ASSUME SlotInv, [Next]_vars PROVE SlotInv'
  OBVIOUS
<1>1. ASSUME NEW q \in Procs, NEW j \in Jobs, BeginStat(q, j) PROVE SlotInv'
  <2> DEFINE S == {j.path}
  <2>1. j \in Request /\ S \in SUBSET Paths
    BY GuestAssumption DEF Request
  <2>2. /\ Begin(q, j, NoFid) /\ Goto(q, "fetch")
        /\ want' = [want EXCEPT ![q] = S]
        /\ UNCHANGED <<tree, ver, clock, cache, flight, slots, holds, files, open>>
    BY <1>1 DEF BeginStat, hostVars, fidVars
  <2> HIDE DEF S
  <2>3. "fetch" \in Stages
    BY DEF Stages
  <2> QED
    BY <2>1, <2>2, <2>3, SlotBegin
<1>2. ASSUME NEW q \in Procs, NEW j \in Jobs, BeginRequest(q, j) PROVE SlotInv'
  <2>1. PICK l \in {"invalidate", "walk"} : Goto(q, l)
    BY <1>2 DEF BeginRequest
  <2>2. want' = [want EXCEPT ![q] = {}]
    BY <1>2 DEF BeginRequest, Begin, fetchVars, SlotInv, GuestTypeOK
  <2>3. /\ Begin(q, j, NoFid)
        /\ UNCHANGED <<tree, ver, clock, cache, flight, slots, holds, files, open>>
    BY <1>2 DEF BeginRequest, hostVars, fetchVars, fidVars
  <2>4. l \in Stages /\ l # "fetch" /\ j \in Request
    BY GuestAssumption DEF Stages
  <2> QED
    BY <2>1, <2>2, <2>3, <2>4, SlotBegin
<1>3. ASSUME NEW q \in Procs, NEW f \in Fids, BeginWrite(q, f) PROVE SlotInv'
  <2> DEFINE j == [kind |-> "write", path |-> files[f].path, to |-> << >>]
  <2>1. j \in Request
    BY <1>3, GuestAssumption DEF BeginWrite, Request, Kinds, SlotInv, GuestTypeOK
  <2>2. want' = [want EXCEPT ![q] = {}]
    BY <1>3 DEF BeginWrite, Begin, fetchVars, SlotInv, GuestTypeOK
  <2>3. Begin(q, j, f) /\ Goto(q, "invalidate")
    BY <1>3 DEF BeginWrite
  <2> HIDE DEF j
  <2> QED
    BY <1>3, <2>1, <2>2, <2>3, SlotBegin
       DEF BeginWrite, Stages, hostVars, fetchVars, fidVars
<1>4. ASSUME NEW q \in Procs, Step(q) PROVE SlotInv'
  <2>1. CASE Invalidate(q)
    <3>1. GuestTypeOK'
      BY <2>1 DEF Invalidate, Goto, hostVars, fetchVars, fidVars, SlotInv, GuestTypeOK
    <3> QED
      BY <2>1, <3>1, SlotFrame DEF Invalidate, Goto, fetchVars, SlotInv, GuestTypeOK
  <2>2. CASE Walk(q)
    <3>1. FreshFid \in Fids
      BY <2>2 DEF Walk, FreshFid, SlotInv, GuestTypeOK
    <3>2. GuestTypeOK'
      BY <2>2, <3>1 DEF Walk, Goto, hostVars, fetchVars, SlotInv, GuestTypeOK
    <3> QED
      BY <2>2, <3>2, SlotFrame DEF Walk, Goto, fetchVars, SlotInv, GuestTypeOK
  <2>3. CASE WalkFails(q)
    <3>1. GuestTypeOK'
      BY <2>3, ClosingTyped DEF WalkFails, Goto, hostVars, fetchVars, SlotInv, GuestTypeOK
    <3> QED
      BY <2>3, <3>1, SlotOn DEF WalkFails, SlotInv
  <2>4. CASE CallStep(q)
    BY <2>4, SlotCall
  <2>5. CASE FetchStep(q)
    <3>1. CASE FetchDone(q)
      <4>1. GuestTypeOK'
        BY <3>1, ClosingTyped
           DEF FetchDone, Goto, hostVars, fetchVars, SlotInv, GuestTypeOK
      <4>2. Flying(q) = {}
        BY <3>1, NothingFlies DEF FetchDone, SlotInv
      <4> QED
        BY <3>1, <4>1, <4>2, SlotOn DEF FetchDone
    <3> QED
      BY <2>5, <3>1, SlotLookUp DEF FetchStep
  <2>6. CASE Return(q)
    <3>1. GuestTypeOK'
      BY <2>6 DEF Return, Goto, hostVars, fetchVars, fidVars, SlotInv, GuestTypeOK
    <3> QED
      BY <2>6, <3>1, SlotOn DEF Return, SlotInv
  <2> QED
    BY <1>4, <2>1, <2>2, <2>3, <2>4, <2>5, <2>6 DEF Step
<1>5. ASSUME NEW f \in Fids, Release(f) PROVE SlotInv'
  <2>1. GuestTypeOK'
    BY <1>5 DEF Release, hostVars, fetchVars, SlotInv, GuestTypeOK
  <2> QED
    BY <1>5, <2>1, SlotFrame DEF Release, fetchVars, SlotInv
<1>6. ASSUME NEW p \in Paths, Expire(p) \/ HostChange(p) PROVE SlotInv'
  <2>1. GuestTypeOK'
    BY <1>6, ChangeTyped
       DEF Expire, HostChange, hostVars, fetchVars, fidVars, SlotInv, GuestTypeOK
  <2> QED
    BY <1>6, <2>1, SlotFrame DEF Expire, HostChange, fetchVars, SlotInv
<1>7. CASE UNCHANGED vars
  BY <1>7 DEF vars, hostVars, fetchVars, fidVars, SlotInv, GuestTypeOK, Flying,
     Attrs, NoAttr
<1> QED
  BY <1>1, <1>2, <1>3, <1>4, <1>5, <1>6, <1>7 DEF Next

LEMMA SlotInit == Init => SlotInv
<1> SUFFICES ASSUME Init PROVE SlotInv
  OBVIOUS
<1>1. GuestTypeOK
  BY GuestAssumption DEF Init, GuestTypeOK, NoFetch
<1>2. \A q \in Procs : Flying(q) = {}
  BY DEF Init, Flying, NoFetch
<1> QED
  BY <1>1, <1>2, FS_EmptySet DEF SlotInv, Init

\* Every reachable state is well typed; the count of slots in use is never
\* negative and never above the limit.
THEOREM GuestTypeCorrect == Spec => []GuestTypeOK
<1>1. SlotInv => GuestTypeOK
  BY DEF SlotInv
<1> QED
  BY <1>1, SlotInit, SlotInductive, PTL DEF Spec

\* Every fetch that ends gives its slot back: what a Readdir holds of the
\* semaphore is what it has under way.
THEOREM SlotsAreAccounted == Spec => []SlotsAccounted
<1>1. SlotInv => SlotsAccounted
  BY FS_EmptySet DEF SlotInv, SlotsAccounted, Flying
<1> QED
  BY <1>1, SlotInit, SlotInductive, PTL DEF Spec

-----------------------------------------------------------------------------
(* What a request that meets no other leaves in the cache *)

\* Such a request is the only one under way.  Until its call is made nothing is
\* cached of what it names, but for what it is still going to invalidate; and
\* what it fetches afterwards is what the host has.
Own(q) ==
    /\ \A r \in Procs \ {q} : pc[r] = "idle"
    /\ pc[q] = "invalidate" /\ job[q].kind \in New => ~Cached(job[q].path)
    /\ pc[q] \in {"walk", "call"} => \A p \in Named(job[q]) : ~Cached(p)
    /\ pc[q] \in {"fetch", "return"} =>
         \A p \in Named(job[q]) : Cached(p) => cache[p] = Current(p)
    /\ \A p \in Paths : flight[q][p] \in Attrs => flight[q][p] = Current(p)

OwnInv == \A q \in Procs : alone[q] => Own(q)

GuestInv == FidInv /\ SlotInv /\ OwnInv

LEMMA NoAttrIsNone == NoAttr \notin Attrs
BY GuestAssumption DEF NoAttr, Attrs

\* What a request names and does not invalidate is an entry it makes.
LEMMA NamedOrNew ==
    ASSUME NEW j \in Request, j.kind \in Invalidating,
           NEW p \in Named(j), p \notin Invalidates(j)
    PROVE  j.kind \in New /\ p = j.path
<1>1. CASE j.kind \in {"open", "write", "setattr"}
  <2>1. Invalidates(j) = {j.path} /\ Named(j) \subseteq {j.path}
    BY <1>1 DEF Invalidates, Named
  <2> QED
    BY <2>1
<1>2. CASE j.kind \in {"create", "mkdir"}
  <2>1. Invalidates(j) = {Dir(j.path)} /\ Named(j) = {j.path, Dir(j.path)}
    BY <1>2 DEF Invalidates, Named
  <2> QED
    BY <1>2, <2>1 DEF New
<1>3. CASE j.kind = "unlink"
  BY <1>3 DEF Invalidates, Named
<1>4. CASE j.kind = "rename"
  BY <1>4 DEF Invalidates, Named
<1> QED
  BY <1>1, <1>2, <1>3, <1>4 DEF Invalidating

\* A request that invalidates nothing names nothing, or the entry it makes.
LEMMA NamedWithout ==
    ASSUME NEW j \in Request, j.kind \notin Invalidating \ {"open"}, NEW p \in Named(j)
    PROVE  j.kind \in New /\ p = j.path
<1>1. j.kind \in {"stat", "readdir", "look", "open", "symlink", "link"}
  BY DEF Request, Kinds, Invalidating
<1>2. j.kind \in {"symlink", "link"}
  BY <1>1 DEF Named
<1> QED
  BY <1>2 DEF Named, New

LEMMA NamedTyped ==
    ASSUME NEW j \in Request \cup {Idle}
    PROVE  Named(j) \subseteq Paths
<1>1. CASE j \in Request
  <2>1. {j.path, j.to, Dir(j.path), Dir(j.to)} \subseteq Paths
    BY <1>1, GuestAssumption DEF Request, Dir
  <2>2. Named(j) \subseteq {j.path, j.to, Dir(j.path), Dir(j.to)}
    <3>1. CASE j.kind \in {"write", "setattr", "symlink", "link"}
      BY <3>1 DEF Named
    <3>2. CASE j.kind \in {"create", "mkdir", "unlink"}
      <4>1. Named(j) = {j.path, Dir(j.path)}
        BY <3>2 DEF Named
      <4> QED
        BY <4>1
    <3>3. CASE j.kind = "rename"
      <4>1. Named(j) = {j.path, j.to, Dir(j.path), Dir(j.to)}
        BY <3>3 DEF Named
      <4> QED
        BY <4>1
    <3>4. CASE j.kind \in {"stat", "readdir", "look", "open"}
      BY <3>4 DEF Named
    <3> QED
      BY <1>1, <3>1, <3>2, <3>3, <3>4 DEF Request, Kinds
  <2> QED
    BY <2>1, <2>2
<1>2. CASE j = Idle
  BY <1>2 DEF Idle, Named
<1> QED
  BY <1>1, <1>2

\* Only a request that is under way makes a step, and only of its own.
LEMMA OnlyTheirs ==
    ASSUME SlotInv, NEW q \in Procs, Step(q)
    PROVE  /\ pc[q] # "idle"
           /\ \A r \in Procs \ {q} : pc'[r] = pc[r] /\ alone'[r] = alone[r]
           /\ alone'[q] => alone[q]
<1>1. CASE Invalidate(q) \/ Walk(q) \/ WalkFails(q)
  BY <1>1 DEF Invalidate, Walk, WalkFails, Goto, SlotInv, GuestTypeOK
<1>2. CASE CallStep(q)
  BY <1>2 DEF CallStep, Look, Open, Write, Create, Make, Unlink, Rename, Setattr,
     SetattrIgnoresFailure, Link, Readdir, CallFails, Call, Done, ThenFetch, Goto,
     SlotInv, GuestTypeOK
<1>3. CASE FetchStep(q)
  <2>1. CASE FetchDone(q)
    BY <2>1 DEF FetchDone, Goto, SlotInv, GuestTypeOK
  <2>2. ASSUME NEW p \in Paths,
               CacheHit(q, p) \/ CacheMiss(q, p) \/ Answer(q, p) \/ Put(q, p)
                 \/ FetchFails(q, p)
        PROVE  pc[q] # "idle" /\ UNCHANGED <<pc, alone>>
    <3>1. p \in want[q] \/ p \in Flying(q)
      BY <2>2, NoAttrIsNone
         DEF CacheHit, CacheMiss, Answer, Put, FetchFails, Flying, Asked, NoAttr
    <3> QED
      BY <2>2, <3>1
         DEF CacheHit, CacheMiss, Answer, Put, FetchFails, EndFetch, SlotInv
  <2> QED
    BY <1>3, <2>1, <2>2 DEF FetchStep
<1>4. CASE Return(q)
  BY <1>4 DEF Return, Goto, SlotInv, GuestTypeOK
<1> QED
  BY <1>1, <1>2, <1>3, <1>4 DEF Step

\* Up to its call nothing is cached of what it names and nothing is fetched, so
\* that no step of its walks and calls, whatever changes on the host, matters.
LEMMA OwnCalls ==
    ASSUME SlotInv, NEW q \in Procs, Own(q), pc[q] \in {"walk", "call"},
           NEW l \in {"walk", "call", "fetch", "return"}, Goto(q, l),
           UNCHANGED <<cache, job, flight>>
    PROVE  Own(q)'
<1>1. pc' = [pc EXCEPT ![q] = l]
  BY DEF Goto
<1>2. pc'[q] = l /\ \A r \in Procs \ {q} : pc'[r] = pc[r]
  BY <1>1 DEF SlotInv, GuestTypeOK
<1>3. \A p \in Named(job[q])' : ~Cached(p)'
  BY DEF Own, Cached, Named
<1>4. \A p \in Paths : flight'[q][p] \notin Attrs
  BY NoAttrIsNone DEF SlotInv, Flying
<1> QED
  BY <1>2, <1>3, <1>4 DEF Own, Attrs

LEMMA OwnInvalidate ==
    ASSUME FidInv, SlotInv, NEW q \in Procs, Own(q), Invalidate(q)
    PROVE  Own(q)'
<1> DEFINE l == IF job[q].kind = "write" THEN "call" ELSE "walk"
<1>1. /\ pc[q] = "invalidate" /\ pc' = [pc EXCEPT ![q] = l]
      /\ cache' = [p \in Paths |-> IF p \in Invalidates(job[q]) THEN NoAttr ELSE cache[p]]
      /\ UNCHANGED <<job, flight>>
  BY DEF Invalidate, Goto, fetchVars
<1>2. pc'[q] = l /\ \A r \in Procs \ {q} : pc'[r] = pc[r]
  BY <1>1 DEF SlotInv, GuestTypeOK
<1>3. job[q].kind \in Invalidating
  BY <1>1 DEF FidInv, StageFids
<1>4. job[q] \in Request
  BY <1>3, JobTyped DEF SlotInv, Invalidating, Kinds
<1>5. ASSUME NEW p \in Named(job[q]) PROVE ~Cached(p)'
  <2>1. p \in Paths
    BY <1>4, NamedTyped
  <2>2. CASE p \in Invalidates(job[q])
    BY <1>1, <2>1, <2>2 DEF Cached
  <2>3. CASE p \notin Invalidates(job[q])
    <3>1. job[q].kind \in New /\ p = job[q].path
      BY <1>3, <1>4, <2>3, NamedOrNew
    <3>2. ~Cached(p)
      BY <1>1, <3>1 DEF Own
    <3> QED
      BY <1>1, <2>1, <2>3, <3>2 DEF Cached
  <2> QED
    BY <2>2, <2>3
<1>6. \A p \in Named(job[q])' : ~Cached(p)'
  <2>1. Named(job[q])' = Named(job[q])
    BY <1>1 DEF Named
  <2> QED
    BY <1>5, <2>1
<1>7. \A p \in Paths : flight'[q][p] \notin Attrs
  BY <1>1, NoAttrIsNone DEF SlotInv, Flying
<1> QED
  BY <1>2, <1>6, <1>7 DEF Own, Attrs

\* The host does not change while the request fetches: what it is answered is
\* what it puts into the cache, and what is there when it returns.
LEMMA OwnFetch ==
    ASSUME SlotInv, NEW q \in Procs, Own(q), FetchStep(q)
    PROVE  Own(q)'
<1>1. CASE FetchDone(q)
  <2>1. /\ pc[q] = "fetch" /\ pc' = [pc EXCEPT ![q] = "return"]
        /\ UNCHANGED <<cache, job, flight, tree, ver>>
    BY <1>1 DEF FetchDone, Goto, hostVars, fetchVars
  <2>2. pc'[q] = "return" /\ \A r \in Procs \ {q} : pc'[r] = pc[r]
    BY <2>1 DEF SlotInv, GuestTypeOK
  <2>3. \A p : Current(p)' = Current(p) /\ Cached(p)' = Cached(p)
    BY <2>1 DEF Current, Exists, Cached
  <2>4. Named(job[q])' = Named(job[q])
    BY <2>1 DEF Named
  <2> QED
    BY <2>1, <2>2, <2>3, <2>4 DEF Own, Attrs
<1>2. ASSUME NEW p \in Paths,
             CacheHit(q, p) \/ CacheMiss(q, p) \/ Answer(q, p) \/ Put(q, p)
               \/ FetchFails(q, p)
      PROVE  Own(q)'
  <2>1. UNCHANGED <<pc, job, tree, ver>>
    BY <1>2 DEF CacheHit, CacheMiss, Answer, Put, FetchFails, EndFetch, hostVars
  <2>2. pc[q] = "fetch"
    <3>1. p \in want[q] \/ p \in Flying(q)
      BY <1>2, NoAttrIsNone
         DEF CacheHit, CacheMiss, Answer, Put, FetchFails, Flying, Asked, NoAttr
    <3> QED
      BY <3>1 DEF SlotInv
  <2>3. \A o : Current(o)' = Current(o)
    BY <2>1 DEF Current, Exists
  <2>4. Named(job[q])' = Named(job[q])
    BY <2>1 DEF Named
  <2>5. \/ UNCHANGED cache
        \/ /\ cache' = [cache EXCEPT ![p] = flight[q][p]]
           /\ flight[q][p] = Current(p)
    BY <1>2 DEF CacheHit, CacheMiss, Answer, Put, FetchFails, Own
  <2>6. \A o \in Named(job[q])' : Cached(o)' => cache'[o] = Current(o)'
    <3>1. ASSUME NEW o \in Named(job[q])
          PROVE  o \in Paths /\ (cache[o] = NoAttr \/ cache[o] = Current(o))
      BY <2>2, NamedTyped DEF Own, Cached, SlotInv, GuestTypeOK
    <3>2. ASSUME NEW o \in Named(job[q])
          PROVE  cache'[o] = NoAttr \/ cache'[o] = Current(o)'
      BY <2>3, <2>5, <3>1 DEF SlotInv, GuestTypeOK
    <3> QED
      BY <2>4, <3>2 DEF Cached
  <2>7. \A o \in Paths : \/ flight'[q][o] = flight[q][o]
                         \/ flight'[q][o] \in {NoAttr, Asked, Current(o)}
    BY <1>2 DEF CacheHit, CacheMiss, Answer, Put, FetchFails, EndFetch, SlotInv,
       GuestTypeOK
  <2>8. Asked \notin Attrs
    BY GuestAssumption DEF Asked, Attrs
  <2>9. \A o \in Paths : flight'[q][o] \in Attrs => flight'[q][o] = Current(o)'
    BY <2>3, <2>7, <2>8, NoAttrIsNone DEF Own
  <2> QED
    BY <2>1, <2>2, <2>6, <2>9 DEF Own, Attrs
<1> QED
  BY <1>1, <1>2 DEF FetchStep

\* A request is alone from the beginning when it finds all others idle.
LEMMA OwnBegin ==
    ASSUME SlotInv, NEW q \in Procs, NEW j \in Request, NEW f, Begin(q, j, f),
           NEW l \in {"fetch", "invalidate", "walk"}, Goto(q, l),
           UNCHANGED <<cache, flight>>,
           l = "fetch" => j.kind = "stat",
           l = "walk" => j.kind \notin Invalidating \ {"open"},
           j.kind \in New => ~Cached(j.path)
    PROVE  OwnInv'
<1>1. /\ pc' = [pc EXCEPT ![q] = l] /\ pc[q] = "idle"
      /\ job' = [job EXCEPT ![q] = j]
      /\ alone' = [r \in Procs |-> r = q /\ \A s \in Procs : pc[s] = "idle"]
  BY DEF Begin, Goto
<1>2. pc'[q] = l /\ job'[q] = j /\ \A r \in Procs \ {q} : pc'[r] = pc[r]
  BY <1>1 DEF SlotInv, GuestTypeOK
<1>3. \A p \in Paths : flight'[q][p] \notin Attrs
  BY <1>1, NoAttrIsNone DEF SlotInv, Flying
<1>4. Named(job[q])' = Named(j)
  BY <1>2 DEF Named
<1>5. \A p : Cached(p)' = Cached(p)
  BY DEF Cached
<1>6. l = "walk" => \A p \in Named(j) : ~Cached(p)
  BY NamedWithout
<1>7. l = "fetch" => Named(j) = {}
  BY DEF Named
<1>8. ASSUME \A r \in Procs \ {q} : pc[r] = "idle" PROVE Own(q)'
  <2>1. \A r \in Procs \ {q} : pc'[r] = "idle"
    BY <1>2, <1>8
  <2>2. pc'[q] = "invalidate" /\ job'[q].kind \in New => ~Cached(job[q].path)'
    BY <1>2, <1>5 DEF Cached
  <2>3. pc'[q] \in {"walk", "call"} => \A p \in Named(job[q])' : ~Cached(p)'
    BY <1>2, <1>4, <1>5, <1>6
  <2>4. pc'[q] \in {"fetch", "return"} => Named(job[q])' = {}
    BY <1>2, <1>4, <1>7
  <2> QED
    BY <1>3, <2>1, <2>2, <2>3, <2>4 DEF Own, Attrs, Cached, New
<1> QED
  BY <1>1, <1>8 DEF OwnInv

LEMMA OwnInductive == GuestInv /\ [Next]_vars => OwnInv'
<1> SUFFICES ASSUME GuestInv, [Next]_vars PROVE OwnInv'
  OBVIOUS
<1> USE DEF GuestInv
<1>1. ASSUME NEW q \in Procs, NEW j \in Jobs, BeginStat(q, j) PROVE OwnInv'
  <2>1. j \in Request /\ j.kind = "stat"
    BY <1>1, GuestAssumption DEF BeginStat
  <2> QED
    BY <1>1, <2>1, OwnBegin DEF BeginStat, New
<1>2. ASSUME NEW q \in Procs, NEW j \in Jobs, BeginRequest(q, j) PROVE OwnInv'
  <2>1. j \in Request
    BY GuestAssumption
  <2>2. PICK l \in {"invalidate", "walk"} :
           Goto(q, l) /\ (l = "walk" => j.kind \notin Invalidating \ {"open"})
    BY <1>2 DEF BeginRequest
  <2>3. /\ Begin(q, j, NoFid) /\ UNCHANGED <<cache, flight>>
        /\ j.kind \in New => ~Cached(j.path)
    BY <1>2 DEF BeginRequest, KernelSawNothing, fetchVars
  <2> QED
    BY <2>1, <2>2, <2>3, OwnBegin
<1>3. ASSUME NEW q \in Procs, NEW f \in Fids, BeginWrite(q, f) PROVE OwnInv'
  <2> DEFINE j == [kind |-> "write", path |-> files[f].path, to |-> << >>]
  <2>1. j \in Request
    BY <1>3, GuestAssumption DEF BeginWrite, Request, Kinds, SlotInv, GuestTypeOK
  <2>2. Begin(q, j, f) /\ Goto(q, "invalidate") /\ UNCHANGED <<cache, flight>>
    BY <1>3 DEF BeginWrite, fetchVars
  <2>3. j.kind \notin New
    BY DEF New
  <2> HIDE DEF j
  <2> QED
    BY <2>1, <2>2, <2>3, OwnBegin
<1>4. ASSUME NEW q \in Procs, Step(q) PROVE OwnInv'
  <2>1. ASSUME NEW r \in Procs, alone'[r] PROVE Own(r)'
    <3>1. r = q
      BY <1>4, <2>1, OnlyTheirs DEF OwnInv, Own
    <3>2. Own(q)
      BY <1>4, <2>1, <3>1, OnlyTheirs DEF OwnInv
    <3>3. CASE Invalidate(q)
      BY <3>1, <3>2, <3>3, OwnInvalidate
    <3>4. CASE Walk(q) \/ WalkFails(q)
      <4>1. PICK l \in {"walk", "call", "return"} : Goto(q, l)
        BY <3>4 DEF Walk, WalkFails
      <4> QED
        BY <3>1, <3>2, <3>4, <4>1, OwnCalls DEF Walk, WalkFails, fetchVars
    <3>5. CASE CallStep(q)
      <4>1. PICK l \in {"fetch", "return"} : Goto(q, l)
        BY <3>5 DEF CallStep, Look, Open, Write, Create, Make, Unlink, Rename,
           Setattr, SetattrIgnoresFailure, Link, Readdir, CallFails, Done, ThenFetch
      <4>2. pc[q] = "call" /\ UNCHANGED <<cache, job, flight>>
        BY <3>5 DEF CallStep, Look, Open, Write, Create, Make, Unlink, Rename,
           Setattr, SetattrIgnoresFailure, Link, Readdir, CallFails, Done, ThenFetch,
           Call, fetchVars
      <4> QED
        BY <3>1, <3>2, <4>1, <4>2, OwnCalls
    <3>6. CASE FetchStep(q)
      BY <3>1, <3>2, <3>6, OwnFetch
    <3>7. CASE Return(q)
      BY <2>1, <3>1, <3>7 DEF Return, SlotInv, GuestTypeOK
    <3> QED
      BY <1>4, <3>3, <3>4, <3>5, <3>6, <3>7 DEF Step
  <2> QED
    BY <2>1 DEF OwnInv
<1>5. ASSUME NEW f \in Fids, Release(f) PROVE OwnInv'
  BY <1>5 DEF Release, hostVars, fetchVars, OwnInv, Own, Current, Exists, Cached,
     Named, Attrs
<1>6. ASSUME NEW p \in Paths, Expire(p) PROVE OwnInv'
  <2>1. UNCHANGED <<pc, job, alone, flight, tree, ver>>
    BY <1>6 DEF Expire, hostVars, fetchVars
  <2>2. \A o \in Paths : cache'[o] = cache[o] \/ cache'[o] = NoAttr
    BY <1>6 DEF Expire, SlotInv, GuestTypeOK
  <2>3. \A o : Current(o)' = Current(o)
    BY <2>1 DEF Current, Exists
  <2>4. ASSUME NEW q \in Procs, alone'[q] PROVE Own(q)'
    <3>1. Own(q)
      BY <2>1, <2>4 DEF OwnInv
    <3>2. Named(job[q])' = Named(job[q])
      BY <2>1 DEF Named
    <3>3. Named(job[q]) \subseteq Paths
      BY NamedTyped DEF SlotInv, GuestTypeOK
    <3>4. \A o \in Paths : Cached(o)' => Cached(o) /\ cache'[o] = cache[o]
      BY <2>2 DEF Cached
    <3>5. job[q].kind \in New => job[q].path \in Paths
      BY JobTyped DEF New, Kinds, Request, SlotInv
    <3>6. \A o \in Named(job[q]) : Cached(o)' => Cached(o) /\ cache'[o] = cache[o]
      BY <3>3, <3>4
    <3>7. pc'[q] = "invalidate" /\ job'[q].kind \in New => ~Cached(job[q].path)'
      BY <2>1, <3>1, <3>4, <3>5 DEF Own, Cached
    <3> QED
      BY <2>1, <2>3, <3>1, <3>2, <3>6, <3>7 DEF Own, Attrs, New
  <2> QED
    BY <2>4 DEF OwnInv
<1>7. ASSUME NEW p \in Paths, HostChange(p) PROVE OwnInv'
  BY <1>7 DEF HostChange, OwnInv
<1>8. CASE UNCHANGED vars
  BY <1>8 DEF vars, hostVars, fetchVars, OwnInv, Own, Current, Exists, Cached,
     Named, Attrs
<1> QED
  BY <1>1, <1>2, <1>3, <1>4, <1>5, <1>6, <1>7, <1>8 DEF Next

\* A request that met no other leaves in the cache, of what it named, only what
\* the host has: whichever of its steps failed, and whatever expired meanwhile.
THEOREM OwnChangesAreSeen == Spec => []OwnChangeSeen
<1>1. Init => GuestInv
  <2>1. Init => FidInv
    BY DEF Init, FidInv, FidTypeOK, FidsAccounted, StageFids, Stages
  <2>2. Init => OwnInv
    BY DEF Init, OwnInv
  <2> QED
    BY <2>1, <2>2, SlotInit DEF GuestInv
<1>2. GuestInv /\ [Next]_vars => GuestInv'
  BY FidInductive, SlotInductive, OwnInductive DEF GuestInv
<1>3. GuestInv => OwnChangeSeen
  BY DEF GuestInv, OwnInv, Own, OwnChangeSeen
<1> QED
  BY <1>1, <1>2, <1>3, PTL DEF Spec

=============================================================================
