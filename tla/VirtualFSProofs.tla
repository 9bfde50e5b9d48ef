-------------------------- MODULE VirtualFSProofs --------------------------
(***************************************************************************)
(* The 9P files, for any fids, files, requests and registry changes: what  *)
(* a request asks the registry about, one query after the other, is enough *)
(* for the system call it makes at the end; the host stays a tree and open *)
(* files keep their names through renames; walks and listings show what is *)
(* exposed.                                                                *)
(***************************************************************************)
EXTENDS VirtualFS, PathRegistryProofs

(* The fids that requests hold on to *)

IsWalk(h) == request[h].op = "walk"

FidsAreKept ==
    /\ DOMAIN file = Fids /\ DOMAIN request = Fids /\ DOMAIN pending = Fids
    /\ Busy \subseteq InUse
    /\ \A h \in Busy : IsWalk(h) =>
          /\ request[h].to \in Fids \ InUse
          /\ \A g \in Busy \ {h} : IsWalk(g) => request[g].to # request[h].to
    /\ \A h \in Busy : request[h].op \in Moves => Busy = {h}

\* Rights that a request still waits for are not granted now.
NotYet == \A h \in Fids : \A r \in pending[h] : ~Granted(r)

\* The right r is asked for among the queries of todo and, if it is to change
\* what is there, the path is seen to be exposed before or has been.
StillAsked(r, todo) ==
    \E i \in 1..Len(todo) :
        /\ todo[i] = r
        /\ \/ r[2] = "see"
           \/ Visible(r[1])
           \/ \E j \in 1..(i - 1) : todo[j] = See(r[1])

AsksFirst ==
    \A h \in Busy : request[h].op \notin {"walk", "open", "readdir"} =>
        /\ \E S : request[h].todo \in Seq(S)
        /\ \A r \in pending[h] : StillAsked(r, request[h].todo)

\* The right an open relies on, and where it may still lack.
OpensFirst ==
    \A h \in Busy : request[h].op = "open" =>
        \A r \in pending[h] :
            /\ r = IF request[h].mode = "write" THEN Change(file[h].path)
                                                ELSE See(file[h].path)
            /\ \/ request[h].stage = "check"
               \/ /\ request[h].stage = "look" /\ request[h].mode = "write"
                  /\ Visible(file[h].path)

VFSInv == RegistryInv /\ FidsAreKept /\ NotYet /\ AsksFirst /\ OpensFirst

-----------------------------------------------------------------------------
(* Queries *)

\* Of any p, a path that is looked at or not.
LEMMA ExposedIsVisible ==
    ASSUME RegistryInv, NEW p, CheckPath(p) = "Exposed"
    PROVE  Visible(p)
<1>1. CASE p \in exposed
  BY <1>1, AboveReflexive, RegistryAssumption
     DEF Visible, RegistryInv, TypeOK
<1>2. CASE p \notin exposed
  <2>1. PICK n \in 1..Len(p) : SubSeq(p, 1, n) \in isExposed
    BY <1>2 DEF CheckPath, Along
  <2>2. Len(SubSeq(p, 1, n)) = n
    <3> DEFINE S == {p[i] : i \in 1..n}
    <3>1. \A i \in 1..n : p[i] \in S
      OBVIOUS
    <3> HIDE DEF S
    <3> QED
      BY <3>1, SubSeqProperties
  <2>3. Above(SubSeq(p, 1, n), p)
    BY <2>2 DEF Above
  <2> QED
    BY <2>1, <2>3 DEF Visible, RegistryInv, MarksAreExposed
<1> QED
  BY <1>1, <1>2

LEMMA SameRegistry ==
    ASSUME UNCHANGED registryVars
    PROVE  /\ RegistryInv => RegistryInv'
           /\ \A p : Visible(p)' <=> Visible(p)
           /\ \A r : Granted(r)' <=> Granted(r)
<1>1. RegistryInv => RegistryInv'
  BY RegistryInductive DEF registryVars, vars
<1>2. \A p : Visible(p)' <=> Visible(p)
  BY DEF registryVars, Visible
<1>3. \A p : IsReadOnly(p)' <=> IsReadOnly(p)
  BY DEF registryVars, IsReadOnly
<1>4. \A r : Granted(r)' <=> Granted(r)
  BY <1>2, <1>3 DEF Granted, Writable
<1> QED
  BY <1>1, <1>2, <1>4

LEMMA SameAsked ==
    ASSUME UNCHANGED registryVars, NEW r, NEW todo
    PROVE  StillAsked(r, todo)' <=> StillAsked(r, todo)
BY SameRegistry DEF StillAsked

\* A query that passes: what is asked after it is enough.
LEMMA QueryPasses ==
    ASSUME RegistryInv, NEW S, NEW todo \in Seq(S), todo # << >>,
           Passes(Head(todo)), NEW r, ~Granted(r), StillAsked(r, todo)
    PROVE  StillAsked(r, Tail(todo))
<1>1. /\ Len(todo) \in Nat /\ Len(Tail(todo)) = Len(todo) - 1
      /\ Head(todo) = todo[1]
      /\ \A i \in 1..Len(Tail(todo)) : Tail(todo)[i] = todo[i + 1]
  BY HeadTailProperties, LenProperties
<1>2. PICK i \in 1..Len(todo) :
         /\ todo[i] = r
         /\ \/ r[2] = "see"
            \/ Visible(r[1])
            \/ \E j \in 1..(i - 1) : todo[j] = See(r[1])
  BY DEF StillAsked
<1>3. i # 1
  <2> SUFFICES ASSUME i = 1 PROVE FALSE
    OBVIOUS
  <2>1. CASE r[2] = "see"
    BY <1>1, <1>2, <2>1, ExposedIsVisible DEF Passes, Granted
  <2>2. CASE r[2] # "see"
    BY <1>1, <1>2, <2>2 DEF Passes, Granted, Writable
  <2> QED
    BY <2>1, <2>2
<1>4. i - 1 \in 1..Len(Tail(todo)) /\ Tail(todo)[i - 1] = r
  BY <1>1, <1>2, <1>3
<1>5. ASSUME NEW j \in 1..(i - 1), todo[j] = See(r[1])
      PROVE  \/ Visible(r[1])
             \/ \E k \in 1..((i - 1) - 1) : Tail(todo)[k] = See(r[1])
  <2>1. CASE j = 1
    BY <1>1, <1>5, <2>1, ExposedIsVisible DEF Passes, See
  <2>2. CASE j # 1
    <3>1. j - 1 \in 1..((i - 1) - 1) /\ Tail(todo)[j - 1] = See(r[1])
      BY <1>1, <1>5, <2>2
    <3> QED
      BY <3>1
  <2> QED
    BY <2>1, <2>2
<1> QED
  BY <1>2, <1>4, <1>5 DEF StillAsked

(* Sequences of queries, one longer each *)

Then(s, e) == s \o << e >>
AskedIn(s, r) == \E i \in 1..Len(s) : s[i] = r

LEMMA OneMore ==
    ASSUME NEW S, NEW s \in Seq(S), NEW e \in S
    PROVE  /\ Then(s, e) \in Seq(S)
           /\ Len(Then(s, e)) = Len(s) + 1
           /\ Len(s) \in Nat
           /\ \A i \in 1..Len(s) : Then(s, e)[i] = s[i]
           /\ Then(s, e)[Len(s) + 1] = e
BY AppendProperties, AppendIsConcat, LenProperties DEF Then

LEMMA OneMoreAsked ==
    ASSUME NEW S, NEW s \in Seq(S), NEW e \in S, NEW r
    PROVE  /\ AskedIn(Then(s, e), e)
           /\ AskedIn(s, r) => AskedIn(Then(s, e), r)
           /\ StillAsked(r, s) => StillAsked(r, Then(s, e))
           /\ e[2] = "see" \/ AskedIn(s, See(e[1])) => StillAsked(e, Then(s, e))
<1>1. /\ Len(Then(s, e)) = Len(s) + 1 /\ Len(s) \in Nat
      /\ \A i \in 1..Len(s) : Then(s, e)[i] = s[i]
      /\ Then(s, e)[Len(s) + 1] = e
  BY OneMore
<1> DEFINE t == Then(s, e)
<1> HIDE DEF t
<1>2. Len(t) = Len(s) + 1 /\ Len(s) \in Nat
  BY <1>1 DEF t
<1>3. (\A i \in 1..Len(s) : t[i] = s[i]) /\ t[Len(s) + 1] = e
  BY <1>1 DEF t
<1>4. AskedIn(t, e) /\ (AskedIn(s, r) => AskedIn(t, r))
  BY <1>2, <1>3 DEF AskedIn
<1>5. StillAsked(r, s) => StillAsked(r, t)
  BY <1>2, <1>3 DEF StillAsked
<1>6. e[2] = "see" \/ AskedIn(s, See(e[1])) => StillAsked(e, t)
  BY <1>2, <1>3 DEF AskedIn, StillAsked
<1> QED
  BY <1>4, <1>5, <1>6 DEF t

\* A request asks for every right it relies on, and sees before it changes.
LEMMA ChecksAsk ==
    ASSUME NEW op, NEW p, NEW d
    PROVE  /\ \E S : Checks(op, p, d) \in Seq(S)
           /\ \A r \in Needs(op, p, d) : StillAsked(r, Checks(op, p, d))
<1> DEFINE asked == {See(p), Change(p), See(d), Change(d)}
           s1 == << See(p) >>
           s2 == Then(s1, Change(p))
           s3 == Then(s2, See(d))
           s4 == Then(s3, Change(d))
<1>1. See(p)[2] = "see" /\ See(d)[2] = "see" /\ Change(p)[1] = p /\ Change(d)[1] = d
  BY DEF See, Change
<1>2. /\ s1 \in Seq(asked)
      /\ AskedIn(s1, See(p)) /\ StillAsked(See(p), s1)
  <2>1. s1 \in Seq(asked) /\ Len(s1) = 1 /\ s1[1] = See(p)
    OBVIOUS
  <2> QED
    BY <2>1, <1>1 DEF AskedIn, StillAsked
<1>3. Change(p) \in asked /\ See(d) \in asked /\ Change(d) \in asked
  OBVIOUS
<1> HIDE DEF asked, s1
<1>4. s2 \in Seq(asked) /\ StillAsked(Change(p), s2)
  BY <1>1, <1>2, <1>3, OneMore, OneMoreAsked
<1> HIDE DEF s2
<1>5. /\ s3 \in Seq(asked)
      /\ StillAsked(Change(p), s3) /\ StillAsked(See(d), s3) /\ AskedIn(s3, See(d))
  BY <1>1, <1>3, <1>4, OneMore, OneMoreAsked
<1> HIDE DEF s3
<1>6. /\ s4 \in Seq(asked)
      /\ StillAsked(Change(p), s4) /\ StillAsked(Change(d), s4)
  BY <1>1, <1>3, <1>5, OneMore, OneMoreAsked
<1> HIDE DEF s4
<1>7. \A t \in {s1, s2, s3, s4} : t \o << >> = t
  BY <1>2, <1>4, <1>5, <1>6, ConcatEmptySeq
<1>8. CASE op = "look"
  <2>1. Checks(op, p, d) = s1
    BY <1>7, <1>8 DEF Checks, Moves, s1
  <2> QED
    BY <1>2, <1>8, <2>1 DEF Needs, Moves
<1>9. CASE op = "link"
  <2>1. Checks(op, p, d) = s3
    BY <1>7, <1>9 DEF Checks, Moves, Then, s1, s2, s3
  <2> QED
    BY <1>5, <1>9, <2>1 DEF Needs, Moves
<1>10. CASE op \in Moves
  <2>1. Checks(op, p, d) = s4
    BY <1>10 DEF Checks, Moves, Then, s1, s2, s3, s4
  <2> QED
    BY <1>6, <1>10, <2>1 DEF Needs, Moves
<1>11. CASE op \notin Moves \cup {"look", "link"}
  <2>1. Checks(op, p, d) = s2
    BY <1>7, <1>11 DEF Checks, Then, s1, s2
  <2> QED
    BY <1>4, <1>11, <2>1 DEF Needs
<1> QED
  BY <1>8, <1>9, <1>10, <1>11

-----------------------------------------------------------------------------
(* Steps that leave the registry alone *)

\* A request comes in with what it has to ask for.
LEMMA BeginsKeeps ==
    ASSUME VFSInv, NEW h \in Fids, NEW req, NEW need, Ready(h),
           Begins(h, req, need),
           req.op = "walk" => req.to \in Fids \ Taken,
           req.op \in Moves => Busy = {},
           req.op \notin {"walk", "open", "readdir"} =>
              /\ \E S : req.todo \in Seq(S)
              /\ \A r \in need : StillAsked(r, req.todo),
           req.op = "open" =>
              /\ req.stage = "check"
              /\ need = {IF req.mode = "write" THEN Change(file[h].path)
                                               ELSE See(file[h].path)}
    PROVE  VFSInv'
<1>1. /\ UNCHANGED registryVars /\ file' = file
      /\ request' = [request EXCEPT ![h] = req]
      /\ pending' = [pending EXCEPT ![h] = {r \in need : ~Granted(r)}]
  BY DEF Begins, hostVars
<1>2. h \in InUse \ Busy /\ \A g \in Busy : request[g].op \notin Moves
  BY DEF Ready
<1>3. /\ request'[h] = req
      /\ pending'[h] = {r \in need : ~Granted(r)}
      /\ \A g \in Fids \ {h} : request'[g] = request[g] /\ pending'[g] = pending[g]
      /\ DOMAIN request' = Fids /\ DOMAIN pending' = Fids
  BY <1>1 DEF VFSInv, FidsAreKept
<1>4. InUse' = InUse /\ Busy' \subseteq Busy \cup {h} /\ Busy \subseteq Busy'
  BY <1>1, <1>2, <1>3 DEF InUse, Busy
<1>5. RegistryInv'
  BY <1>1, SameRegistry DEF VFSInv
<1>6. FidsAreKept'
  <2>1. Busy' \subseteq InUse'
    BY <1>2, <1>4 DEF VFSInv, FidsAreKept
  <2>2. ASSUME NEW g \in Busy, IsWalk(g), req.op = "walk"
        PROVE  req.to # request[g].to
    BY <2>2 DEF Taken, IsWalk
  <2>3. req.op = "walk" => req.to \in Fids \ InUse
    BY DEF Taken
  <2>4. ASSUME NEW g \in Busy', IsWalk(g)'
        PROVE  /\ request'[g].to \in Fids \ InUse'
               /\ \A k \in Busy' \ {g} : IsWalk(k)' => request'[k].to # request'[g].to
    BY <2>2, <2>3, <2>4, <1>2, <1>3, <1>4 DEF VFSInv, FidsAreKept, IsWalk, Busy
  <2>5. ASSUME NEW g \in Busy', request'[g].op \in Moves PROVE Busy' = {g}
    BY <2>5, <1>2, <1>3, <1>4 DEF Busy
  <2>6. DOMAIN file' = Fids
    BY <1>1 DEF VFSInv, FidsAreKept
  <2> QED
    BY <2>1, <2>4, <2>5, <2>6, <1>3 DEF FidsAreKept
<1>7. NotYet'
  BY <1>1, <1>3, SameRegistry DEF VFSInv, NotYet
<1>8. AsksFirst'
  <2> SUFFICES ASSUME NEW g \in Busy',
                      request'[g].op \notin {"walk", "open", "readdir"}
               PROVE  /\ \E S : request'[g].todo \in Seq(S)
                      /\ \A r \in pending'[g] : StillAsked(r, request[g].todo)'
    BY DEF AsksFirst
  <2>1. /\ \E S : request'[g].todo \in Seq(S)
        /\ \A r \in pending'[g] : StillAsked(r, request'[g].todo)
    BY <1>2, <1>3, <1>4 DEF VFSInv, AsksFirst, Busy
  <2> QED
    BY <2>1, <1>1, SameRegistry DEF StillAsked
<1>9. OpensFirst'
  <2>1. \A g \in Fids : Visible(file[g].path)' <=> Visible(file[g].path)
    BY <1>1, SameRegistry
  <2> QED
    BY <2>1, <1>1, <1>2, <1>3, <1>4 DEF VFSInv, OpensFirst, Busy
<1> QED
  BY <1>5, <1>6, <1>7, <1>8, <1>9 DEF VFSInv

\* A request ends, and what it does to the fids touches neither the fids of
\* other requests nor those their walks will set.
LEMMA EndsKeeps ==
    ASSUME VFSInv, NEW h \in Fids, Ends(h), UNCHANGED registryVars,
           DOMAIN file' = Fids,
           \A g \in Busy \ {h} :
              /\ g \in InUse' /\ file'[g].path = file[g].path
              /\ IsWalk(g) => request[g].to \notin InUse'
    PROVE  VFSInv'
<1>1. /\ request'[h] = NoRequest /\ pending'[h] = {}
      /\ \A g \in Fids \ {h} : request'[g] = request[g] /\ pending'[g] = pending[g]
      /\ DOMAIN request' = Fids /\ DOMAIN pending' = Fids
  BY DEF VFSInv, FidsAreKept, Ends
<1>2. Busy' = Busy \ {h}
  BY <1>1 DEF Busy
<1>3. RegistryInv'
  BY SameRegistry DEF VFSInv
<1>4. FidsAreKept'
  <2>1. Busy' \subseteq InUse'
    BY <1>2
  <2>2. ASSUME NEW g \in Busy', IsWalk(g)'
        PROVE  /\ request'[g].to \in Fids \ InUse'
               /\ \A k \in Busy' \ {g} : IsWalk(k)' => request'[k].to # request'[g].to
    BY <2>2, <1>1, <1>2 DEF VFSInv, FidsAreKept, IsWalk, Busy
  <2>3. ASSUME NEW g \in Busy', request'[g].op \in Moves PROVE Busy' = {g}
    BY <2>3, <1>1, <1>2 DEF VFSInv, FidsAreKept, Busy
  <2> QED
    BY <2>1, <2>2, <2>3, <1>1 DEF FidsAreKept
<1>5. NotYet'
  BY <1>1, SameRegistry DEF VFSInv, NotYet
<1>6. AsksFirst'
  <2> SUFFICES ASSUME NEW g \in Busy',
                      request'[g].op \notin {"walk", "open", "readdir"}
               PROVE  /\ \E S : request'[g].todo \in Seq(S)
                      /\ \A r \in pending'[g] : StillAsked(r, request[g].todo)'
    BY DEF AsksFirst
  <2>1. /\ \E S : request'[g].todo \in Seq(S)
        /\ \A r \in pending'[g] : StillAsked(r, request'[g].todo)
    BY <1>1, <1>2 DEF VFSInv, AsksFirst, Busy
  <2> QED
    BY <2>1, SameRegistry DEF StillAsked
<1>7. OpensFirst'
  <2>1. \A g \in Busy \ {h} : Visible(file[g].path)' <=> Visible(file[g].path)
    BY SameRegistry
  <2> QED
    BY <2>1, <1>1, <1>2 DEF VFSInv, OpensFirst, Busy
<1> QED
  BY <1>3, <1>4, <1>5, <1>6, <1>7 DEF VFSInv

\* In particular when it leaves the fids alone.
LEMMA EndsWithKeeps ==
    ASSUME VFSInv, NEW h \in Fids, Ends(h), UNCHANGED registryVars, UNCHANGED file
    PROVE  VFSInv'
<1>1. InUse' = InUse
  BY DEF InUse
<1> QED
  BY <1>1, EndsKeeps DEF VFSInv, FidsAreKept

\* A request goes on: it stays what it is, and asks for what it still lacks.
LEMMA ContinuesKeeps ==
    ASSUME VFSInv, NEW h \in Busy, NEW req, Continues(h, req),
           req.op = request[h].op,
           req.op = "walk" => req.to = request[h].to,
           req.op \notin {"walk", "open", "readdir"} =>
              /\ \E S : req.todo \in Seq(S)
              /\ \A r \in pending[h] : StillAsked(r, req.todo),
           req.op = "open" =>
              /\ req.mode = request[h].mode
              /\ \A r \in pending[h] :
                    \/ req.stage = "check"
                    \/ req.stage = "look" /\ req.mode = "write" /\ Visible(file[h].path)
    PROVE  VFSInv'
<1>1. /\ UNCHANGED registryVars /\ file' = file /\ pending' = pending
      /\ request' = [request EXCEPT ![h] = req]
  BY DEF Continues, hostVars, ghostVars
<1>2. h \in Fids /\ request[h] # NoRequest
  BY DEF Busy
<1>3. /\ request'[h] = req
      /\ \A g \in Fids \ {h} : request'[g] = request[g]
      /\ DOMAIN request' = Fids
  BY <1>1, <1>2 DEF VFSInv, FidsAreKept
<1>4. InUse' = InUse /\ Busy' \subseteq Busy
  BY <1>1, <1>2, <1>3 DEF InUse, Busy
<1>5. RegistryInv'
  BY <1>1, SameRegistry DEF VFSInv
<1>6. FidsAreKept'
  <2>1. ASSUME NEW g \in Busy', IsWalk(g)'
        PROVE  /\ request'[g].to \in Fids \ InUse'
               /\ \A k \in Busy' \ {g} : IsWalk(k)' => request'[k].to # request'[g].to
    BY <2>1, <1>3, <1>4 DEF VFSInv, FidsAreKept, IsWalk, Busy
  <2>2. ASSUME NEW g \in Busy', request'[g].op \in Moves PROVE Busy' = {g}
    BY <2>2, <1>3, <1>4 DEF VFSInv, FidsAreKept, Busy
  <2> QED
    BY <2>1, <2>2, <1>1, <1>3, <1>4 DEF VFSInv, FidsAreKept
<1>7. NotYet'
  BY <1>1, SameRegistry DEF VFSInv, NotYet
<1>8. AsksFirst'
  <2> SUFFICES ASSUME NEW g \in Busy',
                      request'[g].op \notin {"walk", "open", "readdir"}
               PROVE  /\ \E S : request'[g].todo \in Seq(S)
                      /\ \A r \in pending'[g] : StillAsked(r, request[g].todo)'
    BY DEF AsksFirst
  <2>1. /\ \E S : request'[g].todo \in Seq(S)
        /\ \A r \in pending'[g] : StillAsked(r, request'[g].todo)
    BY <1>1, <1>3, <1>4 DEF VFSInv, AsksFirst, Busy
  <2> QED
    BY <2>1, <1>1, SameRegistry DEF StillAsked
<1>9. OpensFirst'
  <2>1. \A g \in Fids : Visible(file[g].path)' <=> Visible(file[g].path)
    BY <1>1, SameRegistry
  <2> QED
    BY <2>1, <1>1, <1>3, <1>4 DEF VFSInv, OpensFirst, Busy
<1> QED
  BY <1>5, <1>6, <1>7, <1>8, <1>9 DEF VFSInv

\* Fids that no request works on come and go.
LEMMA FidsKeep ==
    ASSUME VFSInv, UNCHANGED <<registryVars, request, pending>>,
           DOMAIN file' = Fids,
           \A g \in Busy :
              /\ g \in InUse' /\ file'[g].path = file[g].path
              /\ IsWalk(g) => request[g].to \notin InUse'
    PROVE  VFSInv'
<1>1. Busy' = Busy
  BY DEF Busy
<1>2. RegistryInv' /\ NotYet'
  BY SameRegistry DEF VFSInv, NotYet
<1>3. FidsAreKept'
  BY <1>1 DEF VFSInv, FidsAreKept, IsWalk
<1>4. AsksFirst'
  BY <1>1, SameRegistry DEF VFSInv, AsksFirst, StillAsked
<1>5. OpensFirst'
  <2>1. \A g \in Busy : Visible(file[g].path)' <=> Visible(file[g].path)
    BY SameRegistry
  <2> QED
    BY <2>1, <1>1 DEF VFSInv, OpensFirst
<1> QED
  BY <1>2, <1>3, <1>4, <1>5 DEF VFSInv

\* The registry changes under the requests.
LEMMA EditKeeps ==
    ASSUME VFSInv, NEW p \in Exposable, NEW ro \in BOOLEAN, Edit(p, ro)
    PROVE  VFSInv'
<1>1. file' = file /\ request' = request /\ InUse' = InUse /\ Busy' = Busy
  BY DEF Edit, hostVars, InUse, Busy
<1>2. RegistryInv'
  <2>1. Next
    BY DEF Edit, Next
  <2> QED
    BY <2>1, RegistryInductive DEF VFSInv
<1>3. /\ DOMAIN pending' = Fids
      /\ \A h \in Fids : \A r \in pending'[h] : r \in pending[h] /\ ~Granted(r)'
  BY DEF Edit
<1>4. \A h \in Fids : \A r \in pending'[h] : Visible(r[1]) => Visible(r[1])'
  <2>1. CASE AddPath(p, ro) \/ AddPathAgain(p, ro)
    BY <2>1 DEF AddPath, AddPathAgain, Visible
  <2>2. CASE /\ RemovePath(p)
             /\ pending' = [h \in Fids |->
                              {r \in pending[h] : ~Granted(r)' /\ ~Above(p, r[1])}]
    BY <2>2 DEF RemovePath, Visible
  <2> QED
    BY <2>1, <2>2 DEF Edit
<1>5. FidsAreKept'
  BY <1>1, <1>3 DEF VFSInv, FidsAreKept, IsWalk
<1>6. NotYet'
  BY <1>3 DEF NotYet
<1>7. AsksFirst'
  <2> SUFFICES ASSUME NEW h \in Busy,
                      request[h].op \notin {"walk", "open", "readdir"}
               PROVE  /\ \E S : request'[h].todo \in Seq(S)
                      /\ \A r \in pending'[h] : StillAsked(r, request[h].todo)'
    BY <1>1 DEF AsksFirst
  <2>1. h \in Fids
    BY DEF Busy
  <2>2. ASSUME NEW r \in pending'[h] PROVE StillAsked(r, request[h].todo)'
    <3>1. StillAsked(r, request[h].todo) /\ (Visible(r[1]) => Visible(r[1])')
      BY <2>1, <2>2, <1>3, <1>4 DEF VFSInv, AsksFirst
    <3> QED
      BY <3>1, <1>1 DEF StillAsked
  <2> QED
    BY <2>2, <1>1 DEF VFSInv, AsksFirst
<1>8. OpensFirst'
  <2> SUFFICES ASSUME NEW h \in Busy, request[h].op = "open", NEW r \in pending'[h]
               PROVE  /\ r = IF request[h].mode = "write" THEN Change(file[h].path)
                                                          ELSE See(file[h].path)
                      /\ \/ request[h].stage = "check"
                         \/ /\ request[h].stage = "look" /\ request[h].mode = "write"
                            /\ Visible(file[h].path)'
    BY <1>1 DEF OpensFirst
  <2>1. h \in Fids /\ r \in pending[h]
    BY <1>3 DEF Busy
  <2>2. /\ r = IF request[h].mode = "write" THEN Change(file[h].path)
                                            ELSE See(file[h].path)
        /\ \/ request[h].stage = "check"
           \/ /\ request[h].stage = "look" /\ request[h].mode = "write"
              /\ Visible(file[h].path)
    BY <2>1 DEF VFSInv, OpensFirst
  <2>3. r[1] = file[h].path
    BY <2>2 DEF See, Change
  <2>4. Visible(r[1])' <=> Visible(file[h].path)'
    BY <2>3, <1>1 DEF Visible
  <2> QED
    BY <2>1, <2>2, <2>3, <2>4, <1>4
<1> QED
  BY <1>2, <1>5, <1>6, <1>7, <1>8 DEF VFSInv

-----------------------------------------------------------------------------
(* The actions *)

LEMMA StartsKeep ==
    ASSUME VFSInv, NEW h \in Fids,
           \/ \E ask \in Asks, other \in Fids : Begin(h, ask, other)
           \/ \E to \in Fids, names \in Steps : Walk(h, to, names)
           \/ \E mode \in {"read", "write"} : Open(h, mode)
           \/ Readdir(h)
    PROVE  VFSInv'
<1>1. ASSUME NEW ask \in Asks, NEW other \in Fids, Begin(h, ask, other)
      PROVE  VFSInv'
  <2> DEFINE p == file[h].path
             d == file[other].path
             req == [op |-> ask.op, ask |-> ask, with |-> d,
                     todo |-> Checks(ask.op, p, d)]
             need == Needs(ask.op, p, d)
  <2>1. Ready(h) /\ (ask.op \in Moves => Busy = {}) /\ Begins(h, req, need)
    BY <1>1 DEF Begin
  <2>2. /\ req.op = ask.op
        /\ \E S : req.todo \in Seq(S)
        /\ \A r \in need : StillAsked(r, req.todo)
    BY ChecksAsk
  <2>3. ask.op \notin {"walk", "open"}
    BY AsksAssumption DEF Checked, OnSelf, OnEntry
  <2> HIDE DEF req, need
  <2> QED
    BY <2>1, <2>2, <2>3, BeginsKeeps
<1>2. ASSUME NEW to \in Fids, NEW names \in Steps, Walk(h, to, names)
      PROVE  VFSInv'
  <2>1. PICK req : /\ req.op = "walk" /\ req.to = to
                   /\ Begins(h, req, {})
    BY <1>2 DEF Walk
  <2> QED
    BY <1>2, <2>1, BeginsKeeps DEF Walk, Moves
<1>3. ASSUME NEW mode \in {"read", "write"}, Open(h, mode)
      PROVE  VFSInv'
  <2> DEFINE need == {IF mode = "write" THEN Change(file[h].path) ELSE See(file[h].path)}
  <2>1. PICK req : /\ req.op = "open" /\ req.stage = "check" /\ req.mode = mode
                   /\ Begins(h, req, need)
    BY <1>3 DEF Open
  <2> QED
    BY <1>3, <2>1, BeginsKeeps DEF Open, Moves
<1>4. CASE Readdir(h)
  <2>1. PICK req : req.op = "readdir" /\ Begins(h, req, {})
    BY <1>4 DEF Readdir
  <2> QED
    BY <1>4, <2>1, BeginsKeeps DEF Readdir, Moves
<1> QED
  BY <1>1, <1>2, <1>3, <1>4

LEMMA QueryKeeps == ASSUME VFSInv, NEW h \in Fids, Query(h) PROVE VFSInv'
<1>1. h \in Busy /\ request[h].op \notin {"walk", "open", "readdir"}
  BY DEF Query, Busy
<1>2. CASE EndsWith(h)
  BY <1>2, EndsWithKeeps DEF EndsWith, hostVars
<1>3. CASE /\ Passes(Head(request[h].todo)) /\ request[h].todo # << >>
           /\ Continues(h, [request[h] EXCEPT !.todo = Tail(@)])
  <2>1. PICK S : request[h].todo \in Seq(S)
    BY <1>1 DEF VFSInv, AsksFirst
  <2>2. Tail(request[h].todo) \in Seq(S)
    BY <1>3, <2>1, HeadTailProperties
  <2>3. ASSUME NEW r \in pending[h] PROVE StillAsked(r, Tail(request[h].todo))
    BY <1>1, <1>3, <2>1, <2>3, QueryPasses DEF VFSInv, NotYet, AsksFirst
  <2> DEFINE req == [request[h] EXCEPT !.todo = Tail(@)]
  <2>4. req.op = request[h].op
    OBVIOUS
  <2>5. req.todo = Tail(request[h].todo)
    OBVIOUS
  <2>6. Continues(h, req)
    BY <1>3
  <2> HIDE DEF req
  <2> QED
    BY <1>1, <2>2, <2>3, <2>4, <2>5, <2>6, ContinuesKeeps
<1> QED
  BY <1>2, <1>3 DEF Query

LEMMA WalkStepKeeps == ASSUME VFSInv, NEW h \in Fids, WalkStep(h) PROVE VFSInv'
<1> DEFINE at == Join(request[h].at, Head(request[h].names))
           req == [request[h] EXCEPT !.at = at, !.names = Tail(@)]
<1>1. h \in Busy /\ request[h].op = "walk"
  BY DEF WalkStep, Busy, NoRequest
<1>2. CASE EndsWith(h)
  BY <1>2, EndsWithKeeps DEF EndsWith, hostVars
<1>3. CASE Continues(h, req)
  <2>1. req.op = "walk" /\ req.to = request[h].to
    BY <1>1
  <2> HIDE DEF req
  <2> QED
    BY <1>1, <1>3, <2>1, ContinuesKeeps
<1> QED
  BY <1>2, <1>3 DEF WalkStep

LEMMA OpenStepsKeep ==
    ASSUME VFSInv, NEW h \in Fids, OpenCheck(h) \/ OpenLook(h)
    PROVE  VFSInv'
<1>1. h \in Busy /\ request[h].op = "open"
  BY DEF OpenCheck, OpenLook, OpenAt, Busy, NoRequest
<1>2. CASE EndsWith(h)
  BY <1>2, EndsWithKeeps DEF EndsWith, hostVars
<1>3. CASE OpenAt(h, "check") /\ CheckPath(file[h].path) = "Exposed"
           /\ Continues(h, [request[h] EXCEPT !.stage = "look"])
  <2> DEFINE req == [request[h] EXCEPT !.stage = "look"]
  <2>1. req.op = "open" /\ req.mode = request[h].mode /\ req.stage = "look"
    BY <1>1
  <2>2. Visible(file[h].path)
    BY <1>3, ExposedIsVisible DEF VFSInv
  <2>3. ASSUME NEW r \in pending[h] PROVE request[h].mode = "write"
    <3>1. request[h].mode # "write" => r = See(file[h].path)
      BY <1>1 DEF VFSInv, OpensFirst
    <3>2. ~Granted(r)
      BY DEF VFSInv, NotYet
    <3> QED
      BY <2>2, <3>1, <3>2 DEF Granted, See
  <2>4. Continues(h, req)
    BY <1>3
  <2> HIDE DEF req
  <2> QED
    BY <1>1, <2>1, <2>2, <2>3, <2>4, ContinuesKeeps
<1>4. CASE /\ OpenAt(h, "look")
           /\ request[h].mode = "write" => ~IsReadOnly(file[h].path)
           /\ Continues(h, [request[h] EXCEPT !.stage = "file"])
  <2> DEFINE req == [request[h] EXCEPT !.stage = "file"]
  <2>1. req.op = "open" /\ req.mode = request[h].mode
    BY <1>1
  <2>2. ASSUME NEW r \in pending[h] PROVE FALSE
    <3>1. /\ request[h].mode = "write" /\ r = Change(file[h].path)
          /\ Visible(file[h].path)
      BY <1>1, <1>4 DEF VFSInv, OpensFirst, OpenAt
    <3>2. ~Granted(r)
      BY DEF VFSInv, NotYet
    <3> QED
      BY <1>4, <3>1, <3>2 DEF Granted, Change, Writable
  <2>3. Continues(h, req)
    BY <1>4
  <2> HIDE DEF req
  <2> QED
    BY <1>1, <2>1, <2>2, <2>3, ContinuesKeeps
<1> QED
  BY <1>2, <1>3, <1>4 DEF OpenCheck, OpenLook

LEMMA ReaddirStepsKeep ==
    ASSUME VFSInv, NEW h \in Fids,
           \/ ReaddirCheck(h) \/ ReaddirNames(h)
           \/ \E x \in Names : ReaddirEach(h, x)
    PROVE  VFSInv'
<1>1. h \in Busy /\ request[h].op = "readdir"
  <2>1. \E stage \in {"check", "names", "each"} : ReaddirAt(h, stage)
    BY DEF ReaddirCheck, ReaddirNames, ReaddirEach
  <2> QED
    BY <2>1 DEF ReaddirAt, Busy, NoRequest
<1>2. CASE EndsWith(h)
  BY <1>2, EndsWithKeeps DEF EndsWith, hostVars
<1>3. CASE \E req : req.op = request[h].op /\ Continues(h, req)
  BY <1>1, <1>3, ContinuesKeeps
<1>4. CASE ReaddirCheck(h)
  <2> DEFINE req == [request[h] EXCEPT !.stage = "names"]
  <2>1. req.op = request[h].op
    BY <1>1
  <2>2. Continues(h, req) \/ EndsWith(h)
    BY <1>4 DEF ReaddirCheck
  <2> HIDE DEF req
  <2> QED
    BY <1>2, <1>3, <2>1, <2>2
<1>5. CASE ReaddirNames(h)
  <2> DEFINE req == [request[h] EXCEPT !.stage = "each",
                                       !.left = GetExposedChildren(file[h].path)]
  <2>1. req.op = request[h].op
    BY <1>1
  <2>2. Continues(h, req)
    BY <1>5 DEF ReaddirNames
  <2> HIDE DEF req
  <2> QED
    BY <1>3, <2>1, <2>2
<1>6. ASSUME NEW x \in Names, ReaddirEach(h, x) PROVE VFSInv'
  <2> DEFINE child == Append(file[h].path, x)
             req == [request[h] EXCEPT !.left = @ \ {x},
                       !.dirents = IF CheckPath(child) = "Exposed" /\ host[child] = Absent
                                     THEN @ ELSE @ \cup {x}]
  <2>1. req.op = request[h].op
    BY <1>1
  <2>2. Continues(h, req)
    BY <1>6 DEF ReaddirEach
  <2> HIDE DEF req
  <2> QED
    BY <1>3, <2>1, <2>2
<1> QED
  BY <1>4, <1>5, <1>6

LEMMA EndingsKeep ==
    ASSUME VFSInv, NEW h \in Fids,
           \/ Acts(h) \/ CallFails(h) \/ WalkGetAttrFails(h) \/ OpenFails(h) \/ ReaddirEnds(h)
           \/ Mkdir(h) \/ Symlink(h) \/ Mknod(h) \/ Link(h) \/ UnlinkAt(h)
    PROVE  VFSInv'
<1>1. Ends(h) /\ UNCHANGED registryVars /\ UNCHANGED file
  BY DEF Acts, CallFails, WalkGetAttrFails, OpenFails, ReaddirEnds, Mkdir, Symlink,
     Mknod, Link, UnlinkAt, EndsWith, Changes, hostVars
<1> QED
  BY <1>1, EndsWithKeeps

\* The fid becomes the new file's, or keeps the open one.
LEMMA OwnFidKeeps ==
    ASSUME VFSInv, NEW h \in Fids, Create(h) \/ OpenFile(h) PROVE VFSInv'
<1>1. h \in Busy /\ request[h].op \notin {"walk"}
  BY DEF Create, May, OpenFile, OpenAt, Busy, NoRequest
<1>2. PICK f : file' = [file EXCEPT ![h] = f]
  <2>1. CASE Create(h)
    BY <2>1 DEF Create
  <2>2. CASE OpenFile(h)
    <3> DEFINE f == [file[h] EXCEPT !.real = host[file[h].path]]
    <3>1. file' = [file EXCEPT ![h] = f]
      BY <2>2 DEF OpenFile
    <3> QED
      BY <3>1
  <2> QED
    BY <2>1, <2>2
<1>3. /\ DOMAIN file' = Fids /\ \A g \in Fids \ {h} : file'[g] = file[g]
  BY <1>2 DEF VFSInv, FidsAreKept
<1>4. Ends(h) /\ UNCHANGED registryVars
  BY DEF Create, Changes, OpenFile
<1>5. InUse' \subseteq InUse
  BY <1>1, <1>3 DEF InUse, VFSInv, FidsAreKept
<1>6. \A g \in Busy \ {h} : /\ g \in InUse' /\ file'[g].path = file[g].path
                            /\ IsWalk(g) => request[g].to \notin InUse'
  BY <1>3, <1>5 DEF InUse, Busy, VFSInv, FidsAreKept
<1> QED
  BY <1>3, <1>4, <1>6, EndsKeeps

\* A rename has the fids to itself.
LEMMA RenameKeeps == ASSUME VFSInv, NEW h \in Fids, Rename(h) PROVE VFSInv'
<1>1. h \in Busy /\ request[h].op \in Moves
  BY DEF Rename, May, Busy, NoRequest, Moves
<1>2. Busy = {h}
  BY <1>1 DEF VFSInv, FidsAreKept
<1>3. DOMAIN file' = Fids /\ Ends(h) /\ UNCHANGED registryVars
  BY DEF Rename, Changes
<1> QED
  BY <1>2, <1>3, EndsKeeps

\* A walk sets the fid it had taken.
LEMMA WalkEndsKeeps == ASSUME VFSInv, NEW h \in Fids, WalkEnds(h) PROVE VFSInv'
<1>1. h \in Busy /\ IsWalk(h)
  BY DEF WalkEnds, Busy, NoRequest, IsWalk
<1>2. request[h].to \in Fids \ InUse
  BY <1>1 DEF VFSInv, FidsAreKept
<1>3. /\ DOMAIN file' = Fids
      /\ \A g \in Fids \ {request[h].to} : file'[g] = file[g]
      /\ Ends(h) /\ UNCHANGED registryVars
  BY DEF WalkEnds, VFSInv, FidsAreKept
<1>4. InUse' \subseteq InUse \cup {request[h].to} /\ InUse \subseteq InUse'
  BY <1>2, <1>3 DEF InUse
<1>5. \A g \in Busy \ {h} : /\ g \in InUse' /\ file'[g].path = file[g].path
                            /\ IsWalk(g) => request[g].to \notin InUse'
  BY <1>1, <1>2, <1>3, <1>4 DEF VFSInv, FidsAreKept, InUse
<1> QED
  BY <1>3, <1>5, EndsKeeps

LEMMA AttachClunkKeep ==
    ASSUME VFSInv, NEW h \in Fids, Attach(h) \/ Clunk(h) PROVE VFSInv'
<1>1. /\ UNCHANGED <<registryVars, request, pending>>
      /\ DOMAIN file' = Fids /\ \A g \in Fids \ {h} : file'[g] = file[g]
  BY DEF Attach, Clunk, ghostVars, VFSInv, FidsAreKept
<1>2. InUse' \subseteq InUse \cup {h} /\ InUse \ {h} \subseteq InUse'
  BY <1>1 DEF InUse
<1>3. h \notin Busy /\ (h \in Taken => InUse' \subseteq InUse)
  <2>1. CASE Attach(h)
    BY <2>1 DEF Attach, Taken, VFSInv, FidsAreKept
  <2>2. CASE Clunk(h)
    BY <2>2, <1>2 DEF Clunk
  <2> QED
    BY <2>1, <2>2
<1>4. \A g \in Busy : /\ g \in InUse' /\ file'[g].path = file[g].path
                      /\ IsWalk(g) => request[g].to \notin InUse'
  BY <1>1, <1>2, <1>3 DEF VFSInv, FidsAreKept, InUse, Taken, IsWalk
<1> QED
  BY <1>1, <1>4, FidsKeep

-----------------------------------------------------------------------------
LEMMA VFSInductive == VFSInv /\ [VFSNext]_vfsVars => VFSInv'
<1> SUFFICES ASSUME VFSInv, [VFSNext]_vfsVars PROVE VFSInv'
  OBVIOUS
<1>1. ASSUME NEW h \in Fids, Serve(h) PROVE VFSInv'
  BY <1>1, StartsKeep, QueryKeeps, WalkStepKeeps, OpenStepsKeep, ReaddirStepsKeep,
     EndingsKeep, OwnFidKeeps, RenameKeeps, WalkEndsKeeps, AttachClunkKeep DEF Serve
<1>2. CASE UNCHANGED vfsVars
  <2>1. UNCHANGED <<registryVars, request, pending>> /\ file' = file
    BY <1>2 DEF vfsVars, hostVars, ghostVars
  <2>2. InUse' = InUse
    BY <2>1 DEF InUse
  <2> QED
    BY <2>1, <2>2, FidsKeep DEF VFSInv, FidsAreKept
<1> QED
  BY <1>1, <1>2, EditKeeps DEF VFSNext

LEMMA VFSStarts == VFSInit => VFSInv
<1> SUFFICES ASSUME VFSInit PROVE VFSInv
  OBVIOUS
<1>1. Busy = {} /\ DOMAIN file = Fids /\ DOMAIN request = Fids /\ DOMAIN pending = Fids
  BY DEF VFSInit, Busy
<1>2. \A h \in Fids : pending[h] = {}
  BY DEF VFSInit
<1> QED
  BY <1>1, <1>2, InitRegistry
     DEF VFSInit, VFSInv, FidsAreKept, NotYet, AsksFirst, OpensFirst

\* When a system call is due nothing is asked for any more.
LEMMA AskedInTime == VFSInv => ChecksSuffice
<1> SUFFICES ASSUME VFSInv, NEW h \in Busy, NEW r \in pending[h],
                    \/ May(h, OnSelf \cup OnEntry \cup Moves \cup {"link"})
                    \/ OpenAt(h, "file")
             PROVE  FALSE
  BY DEF ChecksSuffice, Busy
<1>1. CASE May(h, OnSelf \cup OnEntry \cup Moves \cup {"link"})
  <2>1. request[h].op \notin {"walk", "open", "readdir"} /\ request[h].todo = << >>
    BY <1>1 DEF May, OnSelf, OnEntry, Moves
  <2>2. StillAsked(r, << >>)
    BY <2>1 DEF VFSInv, AsksFirst
  <2> QED
    BY <2>2 DEF StillAsked
<1>2. CASE OpenAt(h, "file")
  BY <1>2 DEF OpenAt, VFSInv, OpensFirst
<1> QED
  BY <1>1, <1>2

\* The separate queries of CheckPath and IsReadOnly let nothing slip through
\* but what was unexposed on the way: the calls into the host's file system
\* need no lock around them and their checks.
THEOREM QueriesSuffice == VFSSpec => []ChecksSuffice
BY AskedInTime, VFSStarts, VFSInductive, PTL DEF VFSSpec

-----------------------------------------------------------------------------
(* Renamed paths *)

\* Moved changes the components of old into those of new.
LEMMA MovedPointwise ==
    ASSUME NEW p \in Paths, NEW old \in Paths, NEW new \in Paths, Above(old, p)
    PROVE  LET m == Moved(p, old, new) IN
           /\ m \in Seq(Names)
           /\ Len(m) = Len(new) + (Len(p) - Len(old))
           /\ \A i \in 1..Len(new) : m[i] = new[i]
           /\ \A i \in 1..(Len(p) - Len(old)) : m[Len(new) + i] = p[Len(old) + i]
<1>1. /\ p \in Seq(Names) /\ old \in Seq(Names) /\ new \in Seq(Names)
      /\ Len(p) \in Nat /\ Len(old) \in Nat /\ Len(new) \in Nat
      /\ Len(old) <= Len(p)
  BY PathsAreSequences, LenIsNat DEF Above
<1> DEFINE s == SubSeq(p, Len(old) + 1, Len(p))
<1>2. /\ s \in Seq(Names)
      /\ Len(s) = Len(p) - Len(old)
      /\ \A i \in 1..(Len(p) - Len(old)) : s[i] = p[Len(old) + i]
  <2>1. \A i \in (Len(old) + 1)..Len(p) : p[i] \in Names
    BY <1>1, ElementOfSeq
  <2>2. /\ s \in Seq(Names)
        /\ Len(s) = IF Len(old) + 1 <= Len(p) THEN Len(p) - (Len(old) + 1) + 1 ELSE 0
        /\ \A i \in 1..(Len(p) - (Len(old) + 1) + 1) : s[i] = p[(Len(old) + 1) + i - 1]
    BY <1>1, <2>1, SubSeqProperties
  <2> HIDE DEF s
  <2>3. Len(s) = Len(p) - Len(old)
    BY <1>1, <2>2
  <2>4. ASSUME NEW i \in 1..(Len(p) - Len(old)) PROVE s[i] = p[Len(old) + i]
    <3>1. /\ i \in 1..(Len(p) - (Len(old) + 1) + 1)
          /\ (Len(old) + 1) + i - 1 = Len(old) + i
      BY <1>1
    <3> QED
      BY <2>2, <3>1
  <2> QED
    BY <2>2, <2>3, <2>4
<1> HIDE DEF s
<1>3. /\ new \o s \in Seq(Names)
      /\ Len(new \o s) = Len(new) + Len(s)
      /\ \A i \in 1..(Len(new) + Len(s)) :
            (new \o s)[i] = IF i <= Len(new) THEN new[i] ELSE s[i - Len(new)]
  BY <1>1, <1>2, ConcatProperties
<1> DEFINE m == new \o s
<1>4. /\ m \in Seq(Names) /\ Len(m) = Len(new) + (Len(p) - Len(old))
      /\ \A i \in 1..Len(new) : m[i] = new[i]
      /\ \A i \in 1..(Len(p) - Len(old)) : m[Len(new) + i] = p[Len(old) + i]
  <2> HIDE DEF m
  <2>1. /\ m \in Seq(Names) /\ Len(m) = Len(new) + Len(s)
        /\ \A i \in 1..(Len(new) + Len(s)) :
              m[i] = IF i <= Len(new) THEN new[i] ELSE s[i - Len(new)]
    BY <1>3 DEF m
  <2>2. ASSUME NEW i \in 1..(Len(p) - Len(old)) PROVE m[Len(new) + i] = p[Len(old) + i]
    <3>1. /\ Len(new) + i \in 1..(Len(new) + Len(s)) /\ ~(Len(new) + i <= Len(new))
          /\ (Len(new) + i) - Len(new) = i
      BY <1>1, <1>2
    <3> QED
      BY <2>1, <3>1, <1>2
  <2> QED
    BY <2>1, <2>2, <1>1, <1>2
<1> QED
  BY <1>4 DEF Moved, s

LEMMA MovedIsPath ==
    ASSUME NEW p \in Paths, NEW old \in Paths, NEW new \in Paths, Above(old, p),
           Fits(Moved(p, old, new))
    PROVE  /\ Moved(p, old, new) \in Paths
           /\ Above(new, Moved(p, old, new))
           /\ Moved(Moved(p, old, new), new, old) = p
<1> DEFINE m == Moved(p, old, new)
           b == Moved(m, new, old)
<1>1. /\ m \in Seq(Names)
      /\ Len(m) = Len(new) + (Len(p) - Len(old))
      /\ \A i \in 1..Len(new) : m[i] = new[i]
      /\ \A i \in 1..(Len(p) - Len(old)) : m[Len(new) + i] = p[Len(old) + i]
  BY MovedPointwise
<1>2. m \in Paths
  BY <1>1, PathsAreSequences DEF Fits
<1> HIDE DEF m
<1>3. /\ Len(p) \in Nat /\ Len(old) \in Nat /\ Len(new) \in Nat /\ Len(old) <= Len(p)
      /\ \A i \in 1..Len(old) : old[i] = p[i]
  BY LenIsNat, AbovePointwise
<1>4. Above(new, m)
  BY <1>1, <1>2, <1>3, AbovePointwise
<1>5. /\ b \in Seq(Names)
      /\ Len(b) = Len(old) + (Len(m) - Len(new))
      /\ \A i \in 1..Len(old) : b[i] = old[i]
      /\ \A i \in 1..(Len(m) - Len(new)) : b[Len(old) + i] = m[Len(new) + i]
  BY <1>2, <1>4, MovedPointwise
<1> HIDE DEF b
<1>6. Len(b) = Len(p)
  BY <1>1, <1>3, <1>5
<1>7. ASSUME NEW i \in 1..Len(p) PROVE b[i] = p[i]
  <2>1. CASE i <= Len(old)
    BY <1>3, <1>5, <2>1
  <2>2. CASE ~(i <= Len(old))
    <3> DEFINE k == i - Len(old)
    <3>1. k \in 1..(Len(p) - Len(old)) /\ i = Len(old) + k
      BY <1>3, <2>2
    <3> HIDE DEF k
    <3>2. k \in 1..(Len(m) - Len(new))
      BY <1>1, <1>3, <3>1
    <3> QED
      BY <1>1, <1>5, <3>1, <3>2
  <2> QED
    BY <2>1, <2>2
<1>8. b = p
  <2>1. p \in Seq(Names)
    BY PathsAreSequences
  <2> QED
    BY <2>1, <1>5, <1>6, <1>7, SeqEqual
<1> QED
  BY <1>2, <1>4, <1>8 DEF m, b

\* What was above another path still is.
LEMMA MovedKeepsOrder ==
    ASSUME NEW p \in Paths, NEW q \in Paths, NEW old \in Paths, NEW new \in Paths,
           Above(old, p), Above(p, q), p # q, Fits(Moved(q, old, new))
    PROVE  /\ Fits(Moved(p, old, new)) /\ Above(old, q)
           /\ Above(Moved(p, old, new), Moved(q, old, new))
           /\ Moved(p, old, new) # Moved(q, old, new)
<1> DEFINE m == Moved(p, old, new)
           n == Moved(q, old, new)
<1>1. Above(old, q)
  BY AboveTransitive
<1>2. /\ m \in Seq(Names)
      /\ Len(m) = Len(new) + (Len(p) - Len(old))
      /\ \A i \in 1..Len(new) : m[i] = new[i]
      /\ \A i \in 1..(Len(p) - Len(old)) : m[Len(new) + i] = p[Len(old) + i]
  BY MovedPointwise
<1>3. /\ n \in Seq(Names)
      /\ Len(n) = Len(new) + (Len(q) - Len(old))
      /\ \A i \in 1..Len(new) : n[i] = new[i]
      /\ \A i \in 1..(Len(q) - Len(old)) : n[Len(new) + i] = q[Len(old) + i]
  BY <1>1, MovedPointwise
<1>4. n \in Paths /\ Moved(n, new, old) = q /\ Len(n) <= MaxDepth
  BY <1>1, MovedIsPath DEF Fits
<1> HIDE DEF m, n
<1>5. /\ Len(p) \in Nat /\ Len(q) \in Nat /\ Len(old) \in Nat /\ Len(new) \in Nat
      /\ Len(old) <= Len(p) /\ Len(p) <= Len(q) /\ MaxDepth \in Nat
      /\ \A i \in 1..Len(p) : p[i] = q[i]
  BY LenIsNat, AbovePointwise, RegistryAssumption
<1>6. Len(m) <= MaxDepth /\ Len(m) <= Len(n)
  BY <1>2, <1>3, <1>4, <1>5
<1>7. m \in Paths
  BY <1>2, <1>6, PathsAreSequences
<1>8. ASSUME NEW i \in 1..Len(m) PROVE m[i] = n[i]
  <2>1. CASE i <= Len(new)
    BY <1>2, <1>3, <1>5, <2>1
  <2>2. CASE ~(i <= Len(new))
    <3> DEFINE k == i - Len(new)
    <3>1. k \in 1..(Len(p) - Len(old)) /\ i = Len(new) + k /\ k \in 1..(Len(q) - Len(old))
      BY <1>2, <1>5, <2>2
    <3> HIDE DEF k
    <3>2. p[Len(old) + k] = q[Len(old) + k]
      BY <1>5, <3>1
    <3> QED
      BY <1>2, <1>3, <3>1, <3>2
  <2> QED
    BY <2>1, <2>2
<1>9. Above(m, n)
  BY <1>4, <1>6, <1>7, <1>8, AbovePointwise
<1>10. m # n
  <2>1. Fits(m) /\ Moved(m, new, old) = p
    BY <1>6, MovedIsPath DEF Fits, m
  <2> QED
    BY <2>1, <1>4
<1> QED
  BY <1>1, <1>6, <1>9, <1>10 DEF m, n, Fits

-----------------------------------------------------------------------------
(* The host stays a tree *)

HostOK == host \in [Paths -> Inodes \cup {Dir, Absent}] /\ IsTree(host)

\* A new entry of a directory.
LEMMA TreeGrows ==
    ASSUME HostOK, NEW d \in Paths, NEW x \in Names, Append(d, x) \in Paths,
           host[d] = Dir, host[Append(d, x)] = Absent, NEW v \in Inodes \cup {Dir},
           host' = [host EXCEPT ![Append(d, x)] = v]
    PROVE  HostOK'
<1> DEFINE e == Append(d, x)
<1>1. Above(d, e) /\ \A p \in Paths : Above(p, e) /\ p # e => Above(p, d)
  BY AboveEntry
<1>2. e \in Paths /\ host[e] = Absent /\ host' = [host EXCEPT ![e] = v]
  OBVIOUS
<1> HIDE DEF e
<1>3. host' \in [Paths -> Inodes \cup {Dir, Absent}]
  BY <1>2 DEF HostOK
<1>4. ASSUME NEW p \in Paths, NEW q \in Paths, Above(p, q), p # q, host'[q] # Absent
      PROVE  host'[p] = Dir
  <2>1. CASE q = e
    <3>1. Above(p, d) /\ p # e
      BY <1>1, <1>4, <2>1
    <3>2. host[p] = Dir
      BY <3>1, VirtualFSAssumption DEF HostOK, IsTree
    <3> QED
      BY <3>1, <3>2, <1>2 DEF HostOK
  <2>2. CASE q # e
    <3>1. host[q] # Absent
      BY <1>2, <1>4, <2>2 DEF HostOK
    <3>2. host[p] = Dir
      BY <1>4, <3>1 DEF HostOK, IsTree
    <3>3. p # e
      BY <3>2, <1>2, VirtualFSAssumption
    <3> QED
      BY <3>2, <3>3, <1>2 DEF HostOK
  <2> QED
    BY <2>1, <2>2
<1> QED
  BY <1>3, <1>4 DEF HostOK, IsTree

LEMMA TreeShrinks ==
    ASSUME HostOK, NEW e \in Paths, Removable(e),
           host' = [host EXCEPT ![e] = Absent]
    PROVE  HostOK'
<1>1. host' \in [Paths -> Inodes \cup {Dir, Absent}]
  BY DEF HostOK
<1>2. ASSUME NEW p \in Paths, NEW q \in Paths, Above(p, q), p # q, host'[q] # Absent
      PROVE  host'[p] = Dir
  <2>1. q # e /\ host[q] # Absent
    BY <1>2 DEF HostOK
  <2>2. host[p] = Dir
    BY <1>2, <2>1 DEF HostOK, IsTree
  <2>3. p # e
    BY <1>2, <2>1 DEF Removable, Below
  <2> QED
    BY <2>2, <2>3 DEF HostOK
<1> QED
  BY <1>1, <1>2 DEF HostOK, IsTree

\* What a rename does to one path, unless the two names are one file's.
LEMMA MovePointwise ==
    ASSUME HostOK, NEW old \in Paths, NEW new \in Paths,
           ~Above(old, new), ~Above(new, old),
           ~(host[old] \in Inodes /\ host[old] = host[new]),
           host' = AfterMove(old, new)
    PROVE  /\ DOMAIN host' = Paths
           /\ \A p \in Paths : Above(new, p) /\ ~Fits(Moved(p, new, old)) =>
                 host'[p] = Absent
           /\ \A p \in Paths : Above(new, p) /\ Fits(Moved(p, new, old)) =>
                 host'[p] = host[Moved(p, new, old)]
           /\ \A p \in Paths : ~Above(new, p) /\ Above(old, p) => host'[p] = Absent
           /\ \A p \in Paths : ~Above(new, p) /\ ~Above(old, p) => host'[p] = host[p]
BY DEF AfterMove

LEMMA TreeMoves ==
    ASSUME HostOK, NEW old \in Paths, NEW d \in Paths, NEW x \in Names,
           Append(d, x) \in Paths, CanMove(old, Append(d, x)),
           host' = AfterMove(old, Append(d, x))
    PROVE  HostOK'
<1> DEFINE new == Append(d, x)
<1>1. /\ Len(new) = Len(d) + 1 /\ Above(d, new) /\ d # new /\ new # Root
      /\ \A p \in Paths : Above(p, new) /\ p # new => Above(p, d)
  BY AboveEntry
<1>2. /\ old # Root /\ host[Parent(new)] = Dir
      /\ ~Above(old, new) /\ ~Above(new, old)
  BY DEF CanMove
<1>3. Parent(new) = d
  <2>1. Len(new) - 1 = Len(d)
    BY <1>1, LenIsNat
  <2> QED
    BY <1>1, <2>1 DEF Parent, Above
<1>4. new \in Paths /\ host' = AfterMove(old, new)
  OBVIOUS
<1> HIDE DEF new
<1>5. CASE host[old] \in Inodes /\ host[old] = host[new]
  BY <1>4, <1>5 DEF AfterMove, HostOK
<1>6. CASE ~(host[old] \in Inodes /\ host[old] = host[new])
  <2>1. /\ DOMAIN host' = Paths
        /\ \A p \in Paths : Above(new, p) /\ ~Fits(Moved(p, new, old)) =>
              host'[p] = Absent
        /\ \A p \in Paths : Above(new, p) /\ Fits(Moved(p, new, old)) =>
              host'[p] = host[Moved(p, new, old)]
        /\ \A p \in Paths : ~Above(new, p) /\ Above(old, p) => host'[p] = Absent
        /\ \A p \in Paths : ~Above(new, p) /\ ~Above(old, p) => host'[p] = host[p]
    BY <1>2, <1>4, <1>6, MovePointwise
  <2>2. host' \in [Paths -> Inodes \cup {Dir, Absent}]
    <3>1. \A p \in Paths : Above(new, p) /\ Fits(Moved(p, new, old)) =>
             Moved(p, new, old) \in Paths
      BY <1>4, MovedIsPath
    <3>2. \A p \in Paths : host'[p] \in Inodes \cup {Dir, Absent}
      BY <2>1, <3>1 DEF HostOK
    <3>3. host' = [p \in Paths |-> host'[p]]
      BY <1>4, <1>6, <2>1 DEF AfterMove
    <3> QED
      BY <3>2, <3>3
  <2>3. ASSUME NEW p \in Paths, NEW q \in Paths, Above(p, q), p # q, host'[q] # Absent
        PROVE  host'[p] = Dir
    <3>1. CASE Above(new, q)
      <4> DEFINE q0 == Moved(q, new, old)
      <4>1. Fits(q0) /\ host'[q] = host[q0] /\ q0 \in Paths
        BY <1>4, <2>1, <2>3, <3>1, MovedIsPath
      <4> HIDE DEF q0
      <4>2. CASE Above(new, p)
        <5>1. /\ Fits(Moved(p, new, old)) /\ Moved(p, new, old) # q0
              /\ Above(Moved(p, new, old), q0)
          BY <1>4, <2>3, <4>1, <4>2, MovedKeepsOrder DEF q0
        <5>2. Moved(p, new, old) \in Paths
          BY <1>4, <4>2, <5>1, MovedIsPath
        <5>3. host[Moved(p, new, old)] = Dir
          BY <2>3, <4>1, <5>1, <5>2 DEF HostOK, IsTree
        <5> QED
          BY <2>1, <4>2, <5>1, <5>3
      <4>3. CASE ~Above(new, p)
        <5>1. Above(p, new) /\ p # new
          <6>1. Len(p) <= Len(new) \/ Len(new) <= Len(p)
            BY <1>4, LenIsNat
          <6>2. p # new
            BY <4>3, <1>4, AboveReflexive
          <6> QED
            BY <1>4, <2>3, <3>1, <4>3, <6>1, <6>2, AboveComparable
        <5>2. Above(p, d)
          BY <1>1, <5>1
        <5>3. host[p] = Dir
          <6>1. host[d] = Dir
            BY <1>2, <1>3
          <6> QED
            BY <5>2, <6>1, VirtualFSAssumption DEF HostOK, IsTree
        <5>4. ~Above(old, p)
          BY <1>2, <1>4, <5>1, AboveTransitive
        <5> QED
          BY <2>1, <4>3, <5>3, <5>4
      <4> QED
        BY <4>2, <4>3
    <3>2. CASE ~Above(new, q)
      <4>1. ~Above(old, q) /\ host[q] # Absent
        BY <2>1, <2>3, <3>2
      <4>2. ~Above(new, p) /\ ~Above(old, p)
        BY <1>4, <2>3, <3>2, <4>1, AboveTransitive
      <4>3. host[p] = Dir
        BY <2>3, <4>1 DEF HostOK, IsTree
      <4> QED
        BY <2>1, <4>2, <4>3
    <3> QED
      BY <3>1, <3>2
  <2> QED
    BY <2>2, <2>3 DEF HostOK, IsTree
<1> QED
  BY <1>5, <1>6

-----------------------------------------------------------------------------
(* Types *)

FilesOK == file \in [Fids -> {NoFile} \cup [path: Paths, real: Inodes \cup {NoFile}]]

WalkRequest ==
    [op: {"walk"}, to: Fids, at: Paths, names: Seq(Names \cup {".."}), sure: BOOLEAN]
ReaddirRequest ==
    [op: {"readdir"}, stage: {"check", "names", "each"},
     left: SUBSET Names, dirents: SUBSET Names]

RequestTyped(req) ==
    /\ req.op = "walk" => req \in WalkRequest
    /\ req.op = "readdir" => req \in ReaddirRequest
    /\ req.op \notin {"walk", "open", "readdir"} =>
          /\ req.ask \in Asks /\ req.op = req.ask.op
          /\ req.with \in Paths

RequestsOK == \A h \in Busy : RequestTyped(request[h])

TypesInv == HostOK /\ FilesOK /\ RequestsOK

LEMMA FileTyped ==
    ASSUME FilesOK, NEW h \in InUse
    PROVE  file[h].path \in Paths /\ file[h].real \in Inodes \cup {NoFile}
BY DEF FilesOK, InUse

\* The names a request is made with.
LEMMA AskTyped ==
    ASSUME VFSInv, TypesInv, NEW h \in Fids, NEW ops, May(h, ops),
           ops \subseteq OnEntry \cup Moves \cup {"link"}
    PROVE  /\ h \in Busy /\ h \in InUse /\ file[h].path \in Paths
           /\ request[h].op \in ops
           /\ request[h].ask.name \in Names /\ request[h].with \in Paths
           /\ request[h].op = "renameat" => request[h].ask.old \in Names
<1>1. h \in Busy /\ request[h].op \in ops
  BY DEF May, Busy, NoRequest, OnEntry, Moves
<1>2. h \in InUse /\ file[h].path \in Paths
  BY <1>1, FileTyped DEF VFSInv, FidsAreKept, TypesInv
<1>3. /\ request[h].ask \in Asks /\ request[h].op = request[h].ask.op
      /\ request[h].with \in Paths
  BY <1>1 DEF TypesInv, RequestsOK, RequestTyped, OnEntry, Moves
<1>4. request[h].ask \in Checked /\ request[h].ask.op \in OnEntry \cup Moves \cup {"link"}
  BY <1>1, <1>3, AsksAssumption
<1>5. /\ request[h].ask.name \in Names
      /\ request[h].ask.op = "renameat" => request[h].ask.old \in Names
  BY <1>4 DEF Checked, OnSelf, OnEntry, Moves
<1> QED
  BY <1>1, <1>2, <1>3, <1>5

LEMMA BeginsTyped ==
    ASSUME VFSInv, TypesInv, NEW h \in Fids, NEW req, NEW need, Begins(h, req, need),
           RequestTyped(req)
    PROVE  TypesInv'
<1>1. /\ UNCHANGED <<host, file>> /\ request' = [request EXCEPT ![h] = req]
      /\ DOMAIN request = Fids
  BY DEF Begins, hostVars, VFSInv, FidsAreKept
<1>2. HostOK' /\ FilesOK'
  BY <1>1 DEF TypesInv, HostOK, IsTree, FilesOK
<1>3. RequestsOK'
  BY <1>1 DEF TypesInv, RequestsOK, Busy, RequestTyped
<1> QED
  BY <1>2, <1>3 DEF TypesInv

LEMMA ContinuesTyped ==
    ASSUME VFSInv, TypesInv, NEW h \in Fids, NEW req, Continues(h, req),
           RequestTyped(req)
    PROVE  TypesInv'
<1>1. /\ UNCHANGED <<host, file>> /\ request' = [request EXCEPT ![h] = req]
      /\ DOMAIN request = Fids
  BY DEF Continues, hostVars, VFSInv, FidsAreKept
<1>2. HostOK' /\ FilesOK'
  BY <1>1 DEF TypesInv, HostOK, IsTree, FilesOK
<1>3. RequestsOK'
  BY <1>1 DEF TypesInv, RequestsOK, Busy, RequestTyped
<1> QED
  BY <1>2, <1>3 DEF TypesInv

LEMMA EndsTyped ==
    ASSUME VFSInv, TypesInv, NEW h \in Fids, Ends(h), HostOK', FilesOK'
    PROVE  TypesInv'
<1>1. request' = [request EXCEPT ![h] = NoRequest] /\ DOMAIN request = Fids
  BY DEF Ends, VFSInv, FidsAreKept
<1>2. RequestsOK'
  BY <1>1 DEF TypesInv, RequestsOK, Busy, RequestTyped
<1> QED
  BY <1>2 DEF TypesInv

LEMMA EndsWithTyped ==
    ASSUME VFSInv, TypesInv, NEW h \in Fids, EndsWith(h) PROVE TypesInv'
<1>1. Ends(h) /\ UNCHANGED <<host, file>>
  BY DEF EndsWith, hostVars
<1> QED
  BY <1>1, EndsTyped DEF TypesInv, HostOK, IsTree, FilesOK

LEMMA StartsTyped ==
    ASSUME VFSInv, TypesInv, NEW h \in Fids,
           \/ \E ask \in Asks, other \in Fids : Begin(h, ask, other)
           \/ \E to \in Fids, names \in Steps : Walk(h, to, names)
           \/ \E mode \in {"read", "write"} : Open(h, mode)
           \/ Readdir(h)
    PROVE  TypesInv'
<1>1. ASSUME NEW ask \in Asks, NEW other \in Fids, Begin(h, ask, other)
      PROVE  TypesInv'
  <2>1. PICK req, need : /\ req.op = ask.op /\ req.ask = ask
                         /\ req.with = file[other].path
                         /\ Begins(h, req, need)
    BY <1>1 DEF Begin
  <2>2. file[other].path \in Paths
    BY <1>1, FileTyped DEF Begin, TypesInv
  <2>3. req.op \notin {"walk", "readdir"}
    BY <2>1, AsksAssumption DEF Checked, OnSelf, OnEntry, Moves
  <2> QED
    BY <2>1, <2>2, <2>3, BeginsTyped DEF RequestTyped
<1>2. ASSUME NEW to \in Fids, NEW names \in Steps, Walk(h, to, names)
      PROVE  TypesInv'
  <2> DEFINE req == [op |-> "walk", to |-> to, at |-> file[h].path, names |-> names,
                     sure |-> names # << >> \/ h \in fresh]
  <2>1. req.op = "walk" /\ Begins(h, req, {})
    BY <1>2 DEF Walk
  <2>2. file[h].path \in Paths
    BY <1>2, FileTyped DEF Walk, Ready, TypesInv
  <2>3. req \in WalkRequest
    BY <2>2, VirtualFSAssumption DEF WalkRequest
  <2> HIDE DEF req
  <2> QED
    BY <2>1, <2>3, BeginsTyped DEF RequestTyped
<1>3. ASSUME NEW mode \in {"read", "write"}, Open(h, mode) PROVE TypesInv'
  <2>1. PICK req, need : req.op = "open" /\ Begins(h, req, need)
    BY <1>3 DEF Open
  <2> QED
    BY <2>1, BeginsTyped DEF RequestTyped
<1>4. CASE Readdir(h)
  <2> DEFINE req == [op |-> "readdir", stage |-> "check", left |-> {}, dirents |-> {}]
  <2>1. req.op = "readdir" /\ Begins(h, req, {}) /\ req \in ReaddirRequest
    BY <1>4 DEF Readdir, ReaddirRequest
  <2> HIDE DEF req
  <2> QED
    BY <2>1, BeginsTyped DEF RequestTyped
<1> QED
  BY <1>1, <1>2, <1>3, <1>4

LEMMA JoinTyped ==
    ASSUME NEW p \in Paths, NEW x \in Names \cup {".."}, Fits(Join(p, x))
    PROVE  Join(p, x) \in Paths
<1>1. p \in Seq(Names) /\ Len(p) \in Nat
  BY PathsAreSequences, LenIsNat
<1>2. CASE x # ".."
  <2>1. Append(p, x) \in Seq(Names)
    BY <1>1, <1>2, AppendProperties
  <2> QED
    BY <1>2, <2>1, PathsAreSequences DEF Join, Fits
<1>3. CASE x = ".." /\ p = Root
  BY <1>3 DEF Join
<1>4. CASE x = ".." /\ p # Root
  <2>1. \A i \in 1..(Len(p) - 1) : p[i] \in Names
    BY <1>1, ElementOfSeq
  <2>2. Parent(p) \in Seq(Names)
    BY <1>1, <2>1, SubSeqProperties DEF Parent
  <2> QED
    BY <1>4, <2>2, PathsAreSequences DEF Join, Fits
<1> QED
  BY <1>2, <1>3, <1>4

LEMMA GoesOnTyped ==
    ASSUME VFSInv, TypesInv, NEW h \in Fids,
           \/ Query(h) \/ WalkStep(h) \/ OpenCheck(h) \/ OpenLook(h)
           \/ ReaddirCheck(h) \/ ReaddirNames(h)
           \/ \E x \in Names : ReaddirEach(h, x)
    PROVE  TypesInv'
<1>1. h \in Busy
  <2>1. CASE Query(h)
    BY <2>1 DEF Query, Busy
  <2>2. CASE WalkStep(h)
    BY <2>2 DEF WalkStep, Busy, NoRequest
  <2>3. CASE OpenCheck(h) \/ OpenLook(h)
    BY <2>3 DEF OpenCheck, OpenLook, OpenAt, Busy, NoRequest
  <2>4. CASE ReaddirCheck(h) \/ ReaddirNames(h) \/ \E x \in Names : ReaddirEach(h, x)
    <3>1. \E stage \in {"check", "names", "each"} : ReaddirAt(h, stage)
      BY <2>4 DEF ReaddirCheck, ReaddirNames, ReaddirEach
    <3> QED
      BY <3>1 DEF ReaddirAt, Busy, NoRequest
  <2> QED
    BY <2>1, <2>2, <2>3, <2>4
<1>2. RequestTyped(request[h])
  BY <1>1 DEF TypesInv, RequestsOK
<1>3. CASE EndsWith(h)
  BY <1>3, EndsWithTyped
<1>4. CASE Query(h) /\ Continues(h, [request[h] EXCEPT !.todo = Tail(@)])
  <2> DEFINE req == [request[h] EXCEPT !.todo = Tail(@)]
  <2>1. req.op = request[h].op /\ req.ask = request[h].ask /\ req.with = request[h].with
    OBVIOUS
  <2>2. Continues(h, req)
    BY <1>4
  <2>3. request[h].op \notin {"walk", "readdir"}
    BY <1>4 DEF Query
  <2> HIDE DEF req
  <2> QED
    BY <1>2, <2>1, <2>2, <2>3, ContinuesTyped DEF RequestTyped
<1>5. CASE WalkStep(h) /\ ~EndsWith(h)
  <2> DEFINE at == Join(request[h].at, Head(request[h].names))
             req == [request[h] EXCEPT !.at = at, !.names = Tail(@)]
  <2>1. /\ request[h].op = "walk" /\ request[h].names # << >>
        /\ Fits(at) /\ Continues(h, req)
    BY <1>5 DEF WalkStep
  <2>2. request[h] \in WalkRequest
    BY <1>2, <2>1 DEF RequestTyped
  <2>3. /\ request[h].at \in Paths /\ request[h].names \in Seq(Names \cup {".."})
        /\ Head(request[h].names) \in Names \cup {".."}
        /\ Tail(request[h].names) \in Seq(Names \cup {".."})
    BY <2>1, <2>2, HeadTailProperties DEF WalkRequest
  <2>4. at \in Paths
    BY <2>1, <2>3, JoinTyped
  <2> HIDE DEF at
  <2>5. req \in WalkRequest
    BY <2>2, <2>3, <2>4 DEF WalkRequest
  <2>6. req.op = "walk"
    BY <2>1
  <2> HIDE DEF req
  <2> QED
    BY <2>1, <2>5, <2>6, ContinuesTyped DEF RequestTyped
<1>6. CASE \E req : req.op = "open" /\ Continues(h, req)
  BY <1>6, ContinuesTyped DEF RequestTyped
<1>7. CASE OpenCheck(h) /\ ~EndsWith(h)
  <2> DEFINE req == [request[h] EXCEPT !.stage = "look"]
  <2>1. req.op = request[h].op
    OBVIOUS
  <2>2. Continues(h, req) /\ request[h].op = "open"
    BY <1>7 DEF OpenCheck, OpenAt
  <2> HIDE DEF req
  <2> QED
    BY <1>6, <2>1, <2>2
<1>8. CASE OpenLook(h) /\ ~EndsWith(h)
  <2> DEFINE req == [request[h] EXCEPT !.stage = "file"]
  <2>1. req.op = request[h].op
    OBVIOUS
  <2>2. Continues(h, req) /\ request[h].op = "open"
    BY <1>8 DEF OpenLook, OpenAt
  <2> HIDE DEF req
  <2> QED
    BY <1>6, <2>1, <2>2
<1>9. CASE \E req \in ReaddirRequest : Continues(h, req)
  BY <1>9, ContinuesTyped DEF RequestTyped, ReaddirRequest
<1>10. CASE ReaddirCheck(h) /\ ~EndsWith(h)
  <2> DEFINE req == [request[h] EXCEPT !.stage = "names"]
  <2>1. Continues(h, req) /\ request[h] \in ReaddirRequest
    BY <1>2, <1>10 DEF ReaddirCheck, ReaddirAt, RequestTyped
  <2>2. req \in ReaddirRequest
    BY <2>1 DEF ReaddirRequest
  <2> HIDE DEF req
  <2> QED
    BY <1>9, <2>1, <2>2
<1>11. CASE ReaddirNames(h)
  <2> DEFINE names == GetExposedChildren(file[h].path)
             req == [request[h] EXCEPT !.stage = "each", !.left = names]
  <2>1. Continues(h, req) /\ request[h] \in ReaddirRequest
    BY <1>2, <1>11 DEF ReaddirNames, ReaddirAt, RequestTyped
  <2>2. names \subseteq Names
    <3>1. file[h].path \in Paths
      BY <1>1, FileTyped DEF TypesInv, VFSInv, FidsAreKept
    <3>2. ASSUME NEW m \in nodes, Len(m) = Len(file[h].path) + 1
          PROVE  m[Len(m)] \in Names
      <4>1. m \in Seq(Names) /\ Len(m) \in 1..Len(m)
        BY <3>1, <3>2, PathsAreSequences, LenIsNat DEF VFSInv, RegistryInv, TypeOK
      <4> QED
        BY <4>1, ElementOfSeq
    <3> QED
      BY <3>2 DEF GetExposedChildren
  <2> HIDE DEF names
  <2>3. req \in ReaddirRequest
    BY <2>1, <2>2 DEF ReaddirRequest
  <2> HIDE DEF req
  <2> QED
    BY <1>9, <2>1, <2>3
<1>12. ASSUME NEW x \in Names, ReaddirEach(h, x) PROVE TypesInv'
  <2> DEFINE child == Append(file[h].path, x)
             gone == CheckPath(child) = "Exposed" /\ host[child] = Absent
             req == [request[h] EXCEPT !.left = @ \ {x},
                       !.dirents = IF gone THEN @ ELSE @ \cup {x}]
  <2>1. Continues(h, req) /\ request[h] \in ReaddirRequest
    BY <1>2, <1>12 DEF ReaddirEach, ReaddirAt, RequestTyped
  <2> HIDE DEF gone
  <2>2. req \in ReaddirRequest
    BY <2>1 DEF ReaddirRequest
  <2> HIDE DEF req
  <2> QED
    BY <1>9, <2>1, <2>2
<1>13. CASE Query(h)
  BY <1>3, <1>4, <1>13 DEF Query
<1> QED
  BY <1>3, <1>5, <1>7, <1>8, <1>10, <1>11, <1>12, <1>13

\* An entry that fits is a path, and so is what a rename names.
LEMMA EntryTyped ==
    ASSUME NEW p \in Paths, NEW x \in Names, Fits(Append(p, x))
    PROVE  Append(p, x) \in Paths
<1>1. Append(p, x) \in Seq(Names)
  BY PathsAreSequences, AppendProperties
<1> QED
  BY <1>1, PathsAreSequences DEF Fits

LEMMA RenameTyped ==
    ASSUME VFSInv, TypesInv, NEW h \in Fids, Rename(h)
    PROVE  /\ Source(h) \in Paths /\ Target(h) \in Paths
           /\ request[h].with \in Paths /\ request[h].ask.name \in Names
           /\ Target(h) = Append(request[h].with, request[h].ask.name)
           /\ CanMove(Source(h), Target(h))
<1>1. /\ May(h, Moves) /\ CanMove(Source(h), Target(h))
      /\ Fits(Source(h)) /\ Fits(Target(h))
  BY DEF Rename, CanMove
<1>2. /\ file[h].path \in Paths /\ request[h].op \in Moves
      /\ request[h].ask.name \in Names /\ request[h].with \in Paths
      /\ request[h].op = "renameat" => request[h].ask.old \in Names
  BY <1>1, AskTyped
<1>3. Target(h) \in Paths
  BY <1>1, <1>2, EntryTyped DEF Target
<1>4. Source(h) \in Paths
  BY <1>1, <1>2, EntryTyped DEF Source, Moves
<1> QED
  BY <1>1, <1>2, <1>3, <1>4 DEF Target

\* What becomes of the path of a fid in a rename.
LEMMA RenamedPath ==
    ASSUME VFSInv, TypesInv, NEW h \in Fids, Rename(h), NEW g \in InUse
    PROVE  /\ g \notin unlinked /\ Above(Source(h), file[g].path) =>
                 LET m == Moved(file[g].path, Source(h), Target(h)) IN
                 /\ Fits(m)
                 /\ file'[g].path = m /\ file'[g].real = file[g].real
                 /\ file'[g] \in [path: Paths, real: Inodes \cup {NoFile}]
           /\ ~(g \notin unlinked /\ Above(Source(h), file[g].path)) =>
                 file'[g] = file[g]
<1>1. /\ file' = [k \in Fids |-> Renamed(k, Source(h), Target(h))]
      /\ CanMove(Source(h), Target(h))
      /\ Source(h) \in Paths /\ Target(h) \in Paths
  BY RenameTyped DEF Rename
<1>2. g \in Fids /\ file[g] \in [path: Paths, real: Inodes \cup {NoFile}]
  BY DEF InUse, TypesInv, FilesOK
<1>3. CASE g \notin unlinked /\ Above(Source(h), file[g].path)
  <2> DEFINE m == Moved(file[g].path, Source(h), Target(h))
  <2>1. Fits(m)
    BY <1>1, <1>3 DEF CanMove
  <2>2. m \in Paths
    BY <1>1, <1>2, <1>3, <2>1, MovedIsPath
  <2>3. file'[g] = [file[g] EXCEPT !.path = m]
    BY <1>1, <1>2, <1>3 DEF Renamed
  <2> HIDE DEF m
  <2>4. /\ file'[g].path = m /\ file'[g].real = file[g].real
        /\ file'[g] \in [path: Paths, real: Inodes \cup {NoFile}]
    BY <1>2, <2>2, <2>3
  <2> QED
    BY <1>3, <2>1, <2>4 DEF m
<1>4. CASE ~(g \notin unlinked /\ Above(Source(h), file[g].path))
  BY <1>1, <1>2, <1>4 DEF Renamed
<1> QED
  BY <1>3, <1>4

LEMMA HostStaysOK ==
    ASSUME VFSInv, TypesInv, NEW h \in Fids,
           \/ Create(h) \/ Mkdir(h) \/ Symlink(h) \/ Mknod(h) \/ Link(h)
           \/ UnlinkAt(h) \/ Rename(h)
    PROVE  HostOK'
<1>1. CASE Create(h) \/ Mkdir(h) \/ Symlink(h) \/ Mknod(h) \/ Link(h)
  <2>1. PICK ops : ops \subseteq OnEntry \cup Moves \cup {"link"} /\ May(h, ops)
    BY <1>1 DEF Create, Mkdir, Symlink, Mknod, Link, OnEntry
  <2>2. file[h].path \in Paths /\ request[h].ask.name \in Names
    BY <2>1, AskTyped
  <2>3. CanMake(h)
    BY <1>1 DEF Create, Mkdir, Symlink, Mknod, Link
  <2>4. PICK v \in Inodes \cup {Dir} : host' = [host EXCEPT ![Entry(h)] = v]
    BY <1>1 DEF Create, Mkdir, Symlink, Mknod, Link, Unused
  <2>5. Entry(h) \in Paths
    BY <2>2, <2>3, EntryTyped DEF CanMake, Entry
  <2> QED
    BY <2>2, <2>3, <2>4, <2>5, TreeGrows DEF CanMake, Entry, TypesInv
<1>2. CASE UnlinkAt(h)
  <2>1. May(h, {"unlink"}) /\ Fits(Entry(h)) /\ Removable(Entry(h))
        /\ host' = [host EXCEPT ![Entry(h)] = Absent]
    BY <1>2 DEF UnlinkAt
  <2>2. file[h].path \in Paths /\ request[h].ask.name \in Names
    BY <2>1, AskTyped DEF OnEntry
  <2>3. Entry(h) \in Paths
    BY <2>1, <2>2, EntryTyped DEF Entry
  <2> QED
    BY <2>1, <2>3, TreeShrinks DEF TypesInv
<1>3. CASE Rename(h)
  <2>1. host' = AfterMove(Source(h), Target(h))
    BY <1>3 DEF Rename
  <2> QED
    BY <1>3, <2>1, RenameTyped, TreeMoves DEF TypesInv
<1> QED
  BY <1>1, <1>2, <1>3

LEMMA FilesStayOK ==
    ASSUME VFSInv, TypesInv, NEW h \in Fids,
           \/ Create(h) \/ Mkdir(h) \/ Symlink(h) \/ Mknod(h) \/ Link(h)
           \/ UnlinkAt(h) \/ Rename(h)
           \/ OpenFile(h) \/ WalkEnds(h) \/ Attach(h) \/ Clunk(h)
    PROVE  FilesOK'
<1>1. CASE Mkdir(h) \/ Symlink(h) \/ Mknod(h) \/ Link(h) \/ UnlinkAt(h)
  BY <1>1 DEF Mkdir, Symlink, Mknod, Link, UnlinkAt, TypesInv, FilesOK
<1>2. CASE Create(h)
  <2>1. May(h, {"create"}) /\ CanMake(h)
    BY <1>2 DEF Create
  <2>2. file[h].path \in Paths /\ request[h].ask.name \in Names
    BY <2>1, AskTyped DEF OnEntry
  <2>3. Entry(h) \in Paths
    BY <2>1, <2>2, EntryTyped DEF CanMake, Entry
  <2> QED
    BY <1>2, <2>3 DEF Create, Unused, TypesInv, FilesOK
<1>3. CASE Rename(h)
  <2>1. file' = [k \in Fids |-> file'[k]]
    BY <1>3 DEF Rename
  <2>2. ASSUME NEW g \in Fids
        PROVE  file'[g] \in {NoFile} \cup [path: Paths, real: Inodes \cup {NoFile}]
    <3>1. CASE g \in InUse
      <4>1. file[g] \in [path: Paths, real: Inodes \cup {NoFile}]
        BY <3>1 DEF InUse, TypesInv, FilesOK
      <4> QED
        BY <1>3, <3>1, <4>1, RenamedPath
    <3>2. CASE g \notin InUse
      BY <1>3, <3>2 DEF Rename, Renamed, TypesInv, FilesOK
    <3> QED
      BY <3>1, <3>2
  <2> QED
    BY <2>1, <2>2 DEF FilesOK
<1>4. CASE OpenFile(h)
  <2>1. /\ host[file[h].path] \in Inodes
        /\ file' = [file EXCEPT ![h] = [file[h] EXCEPT !.real = host[file[h].path]]]
        /\ h \in InUse
    BY <1>4 DEF OpenFile, OpenAt, VFSInv, FidsAreKept, Busy, NoRequest
  <2>2. file[h] \in [path: Paths, real: Inodes \cup {NoFile}]
    BY <2>1 DEF InUse, TypesInv, FilesOK
  <2> QED
    BY <2>1, <2>2 DEF TypesInv, FilesOK
<1>5. CASE WalkEnds(h)
  <2>1. request[h].at \in Paths /\ request[h].to \in Fids
    BY <1>5 DEF WalkEnds, TypesInv, RequestsOK, RequestTyped, WalkRequest, Busy, NoRequest
  <2> QED
    BY <1>5, <2>1 DEF WalkEnds, NewFile, TypesInv, FilesOK
<1>6. CASE Attach(h) \/ Clunk(h)
  BY <1>6, RootIsPath DEF Attach, Clunk, NewFile, TypesInv, FilesOK
<1> QED
  BY <1>1, <1>2, <1>3, <1>4, <1>5, <1>6

LEMMA TypesInductive == VFSInv /\ TypesInv /\ [VFSNext]_vfsVars => TypesInv'
<1> SUFFICES ASSUME VFSInv, TypesInv, [VFSNext]_vfsVars PROVE TypesInv'
  OBVIOUS
<1>1. ASSUME NEW h \in Fids, Serve(h) PROVE TypesInv'
  <2>1. CASE Attach(h) \/ Clunk(h)
    <3>1. UNCHANGED <<host, request>> /\ FilesOK'
      BY <2>1, FilesStayOK DEF Attach, Clunk
    <3> QED
      BY <3>1 DEF TypesInv, HostOK, IsTree, RequestsOK, Busy
  <2>2. CASE Acts(h) \/ CallFails(h) \/ WalkGetAttrFails(h) \/ OpenFails(h) \/ ReaddirEnds(h)
    BY <2>2, EndsWithTyped DEF Acts, CallFails, WalkGetAttrFails, OpenFails, ReaddirEnds
  <2>3. CASE \/ Create(h) \/ Mkdir(h) \/ Symlink(h) \/ Mknod(h) \/ Link(h)
             \/ UnlinkAt(h) \/ Rename(h)
    <3>1. Ends(h)
      BY <2>3 DEF Create, Mkdir, Symlink, Mknod, Link, UnlinkAt, Rename, Changes
    <3> QED
      BY <2>3, <3>1, HostStaysOK, FilesStayOK, EndsTyped
  <2>4. CASE OpenFile(h) \/ WalkEnds(h)
    <3>1. Ends(h) /\ UNCHANGED host
      BY <2>4 DEF OpenFile, WalkEnds
    <3>2. HostOK'
      BY <3>1 DEF TypesInv, HostOK, IsTree
    <3> QED
      BY <2>4, <3>1, <3>2, FilesStayOK, EndsTyped
  <2> QED
    BY <1>1, <2>1, <2>2, <2>3, <2>4, StartsTyped, GoesOnTyped DEF Serve
<1>2. ASSUME NEW p \in Exposable, NEW ro \in BOOLEAN, Edit(p, ro) PROVE TypesInv'
  BY <1>2 DEF Edit, hostVars, TypesInv, HostOK, IsTree, FilesOK, RequestsOK, Busy
<1>3. CASE UNCHANGED vfsVars
  BY <1>3 DEF vfsVars, hostVars, TypesInv, HostOK, IsTree, FilesOK, RequestsOK, Busy
<1> QED
  BY <1>1, <1>2, <1>3 DEF VFSNext

LEMMA TypesStart == VFSInit => TypesInv
<1> SUFFICES ASSUME VFSInit PROVE TypesInv
  OBVIOUS
<1>1. Busy = {}
  BY DEF VFSInit, Busy
<1> QED
  BY <1>1, VirtualFSAssumption
     DEF VFSInit, TypesInv, HostOK, FilesOK, RequestsOK

(* What requests wait for, and who has been told what *)

GhostsOK ==
    /\ \A h \in Fids : pending[h] \subseteq Rights
    /\ steady \subseteq Fids /\ fresh \subseteq Fids /\ unlinked \subseteq Fids
    /\ edits \in 0..MaxEdits

LEMMA GhostsStart ==
    ASSUME VFSInv, TypesInv, GhostsOK, NEW h \in Fids,
           \/ \E ask \in Asks, other \in Fids : Begin(h, ask, other)
           \/ \E to \in Fids, names \in Steps : Walk(h, to, names)
           \/ \E mode \in {"read", "write"} : Open(h, mode)
           \/ Readdir(h)
    PROVE  GhostsOK'
<1>1. ASSUME NEW req, NEW need \in SUBSET Rights, Begins(h, req, need)
      PROVE  GhostsOK'
  <2>1. /\ pending' = [pending EXCEPT ![h] = {r \in need : ~Granted(r)}]
        /\ steady' = steady \cup {h} \/ steady' = steady
        /\ UNCHANGED <<edits, fresh, unlinked>> /\ DOMAIN pending = Fids
    BY <1>1 DEF Begins, registryVars, VFSInv, FidsAreKept
  <2>2. {r \in need : ~Granted(r)} \subseteq Rights
    OBVIOUS
  <2> QED
    BY <2>1, <2>2 DEF GhostsOK
<1>2. \A p \in Paths : See(p) \in Rights /\ Change(p) \in Rights
  BY DEF See, Change, Rights
<1>3. \A g \in InUse : file[g].path \in Paths
  BY FileTyped DEF TypesInv
<1>4. ASSUME NEW ask \in Asks, NEW other \in Fids, Begin(h, ask, other)
      PROVE  GhostsOK'
  <2> DEFINE need == Needs(ask.op, file[h].path, file[other].path)
  <2>1. file[h].path \in Paths /\ file[other].path \in Paths
    BY <1>3, <1>4 DEF Begin, Ready
  <2>2. need \in SUBSET Rights
    BY <1>2, <2>1 DEF Needs
  <2>3. PICK req : Begins(h, req, need)
    BY <1>4 DEF Begin
  <2> HIDE DEF need
  <2> QED
    BY <1>1, <2>2, <2>3
<1>5. ASSUME NEW to \in Fids, NEW names \in Steps, Walk(h, to, names) PROVE GhostsOK'
  <2>1. PICK req : Begins(h, req, {})
    BY <1>5 DEF Walk
  <2> QED
    BY <1>1, <2>1
<1>6. ASSUME NEW mode \in {"read", "write"}, Open(h, mode) PROVE GhostsOK'
  <2> DEFINE need == {IF mode = "write" THEN Change(file[h].path) ELSE See(file[h].path)}
  <2>1. need \in SUBSET Rights
    BY <1>2, <1>3, <1>6 DEF Open, Ready
  <2>2. PICK req : Begins(h, req, need)
    BY <1>6 DEF Open
  <2> HIDE DEF need
  <2> QED
    BY <1>1, <2>1, <2>2
<1>7. CASE Readdir(h)
  <2>1. PICK req : Begins(h, req, {})
    BY <1>7 DEF Readdir
  <2> QED
    BY <1>1, <2>1
<1> QED
  BY <1>4, <1>5, <1>6, <1>7

LEMMA GhostsInductive ==
    VFSInv /\ TypesInv /\ GhostsOK /\ [VFSNext]_vfsVars => GhostsOK'
<1> SUFFICES ASSUME VFSInv, TypesInv, GhostsOK, [VFSNext]_vfsVars PROVE GhostsOK'
  OBVIOUS
<1>1. CASE UNCHANGED <<ghostVars, edits>>
  BY <1>1 DEF ghostVars, GhostsOK
<1>2. ASSUME NEW h \in Fids, Ends(h), edits' = edits,
             steady' \subseteq steady, fresh' \subseteq Fids, unlinked' \subseteq Fids
      PROVE  GhostsOK'
  BY <1>2 DEF Ends, GhostsOK, VFSInv, FidsAreKept
<1>3. ASSUME NEW h \in Fids, Serve(h) PROVE GhostsOK'
  <2>1. CASE Attach(h)
    BY <2>1 DEF Attach, registryVars, GhostsOK
  <2>2. CASE Clunk(h)
    BY <1>1, <2>2 DEF Clunk, registryVars
  <2>3. CASE \E req : Continues(h, req)
    BY <1>1, <2>3 DEF Continues, registryVars
  <2>4. CASE EndsWith(h)
    BY <1>2, <2>4 DEF EndsWith, registryVars, GhostsOK
  <2>5. CASE \/ Query(h) \/ WalkStep(h) \/ OpenCheck(h) \/ OpenLook(h)
             \/ ReaddirCheck(h) \/ ReaddirNames(h)
             \/ \E x \in Names : ReaddirEach(h, x)
    BY <2>3, <2>4, <2>5 DEF Query, WalkStep, OpenCheck, OpenLook, ReaddirCheck,
       ReaddirNames, ReaddirEach
  <2>6. CASE Acts(h) \/ CallFails(h) \/ WalkGetAttrFails(h) \/ OpenFails(h) \/ ReaddirEnds(h)
    BY <2>4, <2>6 DEF Acts, CallFails, WalkGetAttrFails, OpenFails, ReaddirEnds
  <2>7. CASE \/ Create(h) \/ Mkdir(h) \/ Symlink(h) \/ Mknod(h) \/ Link(h)
             \/ UnlinkAt(h) \/ Rename(h)
    <3>1. Changes(h)
      BY <2>7 DEF Create, Mkdir, Symlink, Mknod, Link, UnlinkAt, Rename
    <3>2. unlinked' \subseteq unlinked \cup Fids
      BY <2>7 DEF Create, Mkdir, Symlink, Mknod, Link, UnlinkAt, Rename, InUse
    <3> QED
      BY <1>2, <3>1, <3>2 DEF Changes, registryVars, GhostsOK
  <2>8. CASE OpenFile(h)
    BY <1>2, <2>8 DEF OpenFile, registryVars, GhostsOK
  <2>9. CASE WalkEnds(h)
    <3>1. request[h].to \in Fids
      BY <2>9 DEF WalkEnds, Busy, NoRequest, IsWalk, VFSInv, FidsAreKept
    <3> QED
      BY <1>2, <2>9, <3>1 DEF WalkEnds, registryVars, GhostsOK
  <2> QED
    BY <1>3, <2>1, <2>2, <2>5, <2>6, <2>7, <2>8, <2>9, GhostsStart DEF Serve
<1>4. ASSUME NEW p \in Exposable, NEW ro \in BOOLEAN, Edit(p, ro) PROVE GhostsOK'
  <2>1. /\ edits < MaxEdits /\ edits' = edits + 1 /\ steady' = {}
        /\ fresh' \subseteq fresh /\ unlinked' = unlinked
        /\ \A h \in Fids : pending'[h] \subseteq pending[h]
    BY <1>4 DEF Edit
  <2>2. edits' \in 0..MaxEdits
    BY <2>1, VirtualFSAssumption DEF GhostsOK
  <2> QED
    BY <2>1, <2>2 DEF GhostsOK
<1>5. CASE UNCHANGED vfsVars
  BY <1>1, <1>5 DEF vfsVars, registryVars
<1> QED
  BY <1>3, <1>4, <1>5 DEF VFSNext

\* Whatever is asked, created, moved and removed, the host stays a tree of
\* directories and files, and fids and requests name paths within it.
THEOREM VFSTypeCorrect == VFSSpec => [](VFSTypeOK /\ IsTree(host))
<1>1. VFSInit => GhostsOK
  BY VirtualFSAssumption DEF VFSInit, GhostsOK
<1>2. TypesInv /\ GhostsOK => VFSTypeOK /\ IsTree(host)
  BY DEF TypesInv, HostOK, FilesOK, GhostsOK, VFSTypeOK
<1> QED
  BY <1>1, <1>2, VFSStarts, VFSInductive, TypesStart, TypesInductive, GhostsInductive,
     PTL DEF VFSSpec

-----------------------------------------------------------------------------
(* Open files keep their names *)

\* What is open is a file of the host.
LEMMA OpenIsNamed ==
    ASSUME TypesInv, OpenFileKeepsName, NEW g \in InUse \ unlinked,
           file[g].real # NoFile
    PROVE  /\ file[g].path \in Paths /\ file[g].real \in Inodes
           /\ host[file[g].path] = file[g].real
           /\ host[file[g].path] # Absent /\ host[file[g].path] # Dir
BY FileTyped, VirtualFSAssumption DEF TypesInv, OpenFileKeepsName

LEMMA SameNames ==
    ASSUME OpenFileKeepsName, UNCHANGED <<host, file, unlinked>>
    PROVE  OpenFileKeepsName'
BY DEF OpenFileKeepsName, InUse

LEMMA NewNamesKeepNames ==
    ASSUME VFSInv, TypesInv, OpenFileKeepsName, NEW h \in Fids,
           Create(h) \/ Mkdir(h) \/ Symlink(h) \/ Mknod(h) \/ Link(h)
    PROVE  OpenFileKeepsName'
<1>1. PICK ops : ops \subseteq OnEntry \cup Moves \cup {"link"} /\ May(h, ops)
  BY DEF Create, Mkdir, Symlink, Mknod, Link, OnEntry
<1>2. file[h].path \in Paths /\ request[h].ask.name \in Names
  BY <1>1, AskTyped
<1>3. Fits(Entry(h)) /\ host[Entry(h)] = Absent
  BY DEF Create, Mkdir, Symlink, Mknod, Link, CanMake
<1>4. Entry(h) \in Paths
  BY <1>2, <1>3, EntryTyped DEF Entry
<1>5. PICK v \in Inodes \cup {Dir} : host' = [host EXCEPT ![Entry(h)] = v]
  BY DEF Create, Mkdir, Symlink, Mknod, Link, Unused
<1>6. ASSUME NEW g \in InUse \ unlinked, file[g].real # NoFile
      PROVE  host'[file[g].path] = file[g].real
  BY <1>3, <1>5, <1>6, OpenIsNamed DEF TypesInv, HostOK
<1>7. CASE Create(h)
  <2>1. PICK i \in Unused :
           /\ host' = [host EXCEPT ![Entry(h)] = i]
           /\ file' = [file EXCEPT ![h] = [path |-> Entry(h), real |-> i]]
    BY <1>7 DEF Create
  <2>2. /\ file'[h].path = Entry(h) /\ file'[h].real = i
        /\ \A g \in Fids \ {h} : file'[g] = file[g]
    BY <2>1 DEF VFSInv, FidsAreKept
  <2>3. host'[Entry(h)] = i
    BY <1>4, <2>1 DEF TypesInv, HostOK
  <2>4. unlinked' = unlinked \ {h}
    BY <1>7 DEF Create
  <2> QED
    BY <1>6, <2>2, <2>3, <2>4 DEF OpenFileKeepsName, InUse
<1>8. CASE Mkdir(h) \/ Symlink(h) \/ Mknod(h) \/ Link(h)
  <2>1. UNCHANGED <<file, unlinked>>
    BY <1>8 DEF Mkdir, Symlink, Mknod, Link
  <2> QED
    BY <1>6, <2>1 DEF OpenFileKeepsName, InUse
<1> QED
  BY <1>7, <1>8

LEMMA UnlinkKeepsNames ==
    ASSUME VFSInv, TypesInv, OpenFileKeepsName, NEW h \in Fids, UnlinkAt(h)
    PROVE  OpenFileKeepsName'
<1>1. /\ host' = [host EXCEPT ![Entry(h)] = Absent] /\ file' = file
      /\ unlinked' = unlinked \cup {g \in InUse : Above(Entry(h), file[g].path)}
  BY DEF UnlinkAt
<1>2. ASSUME NEW g \in InUse \ unlinked', file[g].real # NoFile
      PROVE  host'[file[g].path] = file[g].real
  <2>1. g \in InUse \ unlinked /\ ~Above(Entry(h), file[g].path)
    BY <1>1, <1>2
  <2>2. file[g].path \in Paths /\ host[file[g].path] = file[g].real
    BY <1>2, <2>1, OpenIsNamed
  <2>3. file[g].path # Entry(h)
    BY <2>1, <2>2, AboveReflexive
  <2> QED
    BY <1>1, <2>2, <2>3 DEF TypesInv, HostOK
<1> QED
  BY <1>1, <1>2 DEF OpenFileKeepsName, InUse

\* The name that is renamed becomes the new name.
LEMMA MovedItself ==
    ASSUME NEW old \in Paths, NEW new \in Paths
    PROVE  Moved(old, old, new) = new
<1> DEFINE m == Moved(old, old, new)
<1>1. Above(old, old) /\ Len(old) \in Nat /\ Len(new) \in Nat
  BY AboveReflexive, LenIsNat
<1>2. /\ m \in Seq(Names) /\ Len(m) = Len(new) + (Len(old) - Len(old))
      /\ \A i \in 1..Len(new) : m[i] = new[i]
  BY <1>1, MovedPointwise
<1> HIDE DEF m
<1>3. Len(m) = Len(new) /\ new \in Seq(Names)
  BY <1>1, <1>2, PathsAreSequences
<1>4. m = new
  BY <1>2, <1>3, SeqEqual
<1> QED
  BY <1>4 DEF m

LEMMA RenameKeepsNames ==
    ASSUME VFSInv, TypesInv, OpenFileKeepsName, NEW h \in Fids, Rename(h)
    PROVE  OpenFileKeepsName'
<1> DEFINE old == Source(h)
           new == Target(h)
<1>1. /\ old \in Paths /\ new \in Paths /\ ~Above(old, new) /\ ~Above(new, old)
      /\ host' = AfterMove(old, new)
      /\ unlinked' = unlinked \cup {g \in InUse : Above(new, file[g].path)}
  BY RenameTyped DEF Rename, CanMove
<1>2. InUse' \subseteq InUse
  BY DEF Rename, Renamed, InUse
<1> SUFFICES ASSUME NEW g \in InUse \ unlinked', file'[g].real # NoFile
             PROVE  host'[file'[g].path] = file'[g].real
  BY <1>2 DEF OpenFileKeepsName
<1>3. g \in InUse \ unlinked /\ ~Above(new, file[g].path)
  BY <1>1
<1>4. /\ Above(old, file[g].path) =>
            LET m == Moved(file[g].path, old, new) IN
            Fits(m) /\ file'[g].path = m /\ file'[g].real = file[g].real
      /\ ~Above(old, file[g].path) => file'[g] = file[g]
  BY <1>3, RenamedPath
<1> DEFINE p == file[g].path
<1>5. file[g].real # NoFile
  BY <1>4
<1>6. /\ p \in Paths /\ host[p] = file[g].real /\ host[p] # Absent /\ host[p] # Dir
  BY <1>3, <1>5, OpenIsNamed
<1> HIDE DEF old, new, p
<1>7. CASE host[old] \in Inodes /\ host[old] = host[new]
  <2>1. host' = host
    BY <1>1, <1>7 DEF AfterMove
  <2>2. CASE Above(old, p)
    <3>1. p = old
      BY <1>1, <1>6, <1>7, <2>2, VirtualFSAssumption DEF TypesInv, HostOK, IsTree
    <3>2. file'[g].path = new /\ file'[g].real = file[g].real
      BY <1>1, <1>4, <2>2, <3>1, MovedItself DEF p
    <3> QED
      BY <1>6, <1>7, <2>1, <3>1, <3>2
  <2>3. CASE ~Above(old, p)
    BY <1>4, <1>6, <2>1, <2>3 DEF p
  <2> QED
    BY <2>2, <2>3
<1>8. CASE ~(host[old] \in Inodes /\ host[old] = host[new])
  <2>1. /\ \A q \in Paths : Above(new, q) /\ Fits(Moved(q, new, old)) =>
              host'[q] = host[Moved(q, new, old)]
        /\ \A q \in Paths : ~Above(new, q) /\ ~Above(old, q) => host'[q] = host[q]
    BY <1>1, <1>8, MovePointwise DEF TypesInv
  <2>2. CASE Above(old, p)
    <3> DEFINE m == Moved(p, old, new)
    <3>1. Fits(m) /\ file'[g].path = m /\ file'[g].real = file[g].real
      BY <1>4, <2>2 DEF p
    <3>2. m \in Paths /\ Above(new, m) /\ Moved(m, new, old) = p
      BY <1>1, <1>6, <2>2, <3>1, MovedIsPath
    <3> HIDE DEF m
    <3>3. Fits(p)
      BY <1>6, PathsAreSequences DEF Fits
    <3> QED
      BY <1>6, <2>1, <3>1, <3>2, <3>3
  <2>3. CASE ~Above(old, p)
    BY <1>3, <1>4, <1>6, <2>1, <2>3 DEF p
  <2> QED
    BY <2>2, <2>3
<1> QED
  BY <1>7, <1>8

LEMMA FidsKeepNames ==
    ASSUME VFSInv, TypesInv, OpenFileKeepsName, NEW h \in Fids,
           OpenFile(h) \/ WalkEnds(h) \/ Attach(h) \/ Clunk(h)
    PROVE  OpenFileKeepsName'
<1>1. host' = host /\ DOMAIN file = Fids
  BY DEF OpenFile, WalkEnds, Attach, Clunk, VFSInv, FidsAreKept
<1>2. CASE OpenFile(h)
  <2>1. /\ file' = [file EXCEPT ![h] = [file[h] EXCEPT !.real = host[file[h].path]]]
        /\ unlinked' = unlinked /\ h \in InUse
    BY <1>2 DEF OpenFile, OpenAt, VFSInv, FidsAreKept, Busy, NoRequest
  <2>2. file[h] \in [path: Paths, real: Inodes \cup {NoFile}]
    BY <2>1 DEF InUse, TypesInv, FilesOK
  <2>3. /\ file'[h].path = file[h].path /\ file'[h].real = host[file[h].path]
        /\ \A g \in Fids \ {h} : file'[g] = file[g]
    BY <1>1, <2>1, <2>2
  <2>4. \A g \in InUse' : g \in InUse
    BY <2>1, <2>3 DEF InUse
  <2> QED
    BY <1>1, <2>1, <2>3, <2>4 DEF OpenFileKeepsName, InUse
<1>3. ASSUME NEW to, NEW f, NEW s, file' = [file EXCEPT ![to] = f],
             f = NoFile \/ f.real = NoFile,
             unlinked' = unlinked \/ unlinked' = unlinked \cup {to}
                                  \/ unlinked' = unlinked \ {to}
      PROVE  OpenFileKeepsName'
  <2>1. \A g \in InUse' \ unlinked' : g # to => file'[g] = file[g] /\ g \in InUse \ unlinked
    BY <1>1, <1>3 DEF InUse
  <2>2. \A g \in InUse' : g = to => file'[g].real = NoFile
    BY <1>1, <1>3 DEF InUse
  <2> QED
    BY <1>1, <2>1, <2>2 DEF OpenFileKeepsName
<1>4. CASE WalkEnds(h)
  BY <1>3, <1>4 DEF WalkEnds, NewFile
<1>5. CASE Attach(h)
  BY <1>3, <1>5 DEF Attach, NewFile
<1>6. CASE Clunk(h)
  BY <1>3, <1>6 DEF Clunk, ghostVars
<1> QED
  BY <1>2, <1>4, <1>5, <1>6

LEMMA NamesInductive ==
    VFSInv /\ TypesInv /\ OpenFileKeepsName /\ [VFSNext]_vfsVars => OpenFileKeepsName'
<1> SUFFICES ASSUME VFSInv, TypesInv, OpenFileKeepsName, [VFSNext]_vfsVars
             PROVE  OpenFileKeepsName'
  OBVIOUS
<1>1. ASSUME NEW h \in Fids, Serve(h) PROVE OpenFileKeepsName'
  <2>1. CASE \/ Query(h) \/ Acts(h) \/ CallFails(h)
             \/ \E ask \in Asks, other \in Fids : Begin(h, ask, other)
             \/ \E to \in Fids, names \in Steps : Walk(h, to, names)
             \/ WalkStep(h) \/ WalkGetAttrFails(h)
             \/ \E mode \in {"read", "write"} : Open(h, mode)
             \/ OpenCheck(h) \/ OpenLook(h) \/ OpenFails(h)
             \/ Readdir(h) \/ ReaddirCheck(h) \/ ReaddirNames(h) \/ ReaddirEnds(h)
             \/ \E x \in Names : ReaddirEach(h, x)
    <3>1. UNCHANGED <<host, file, unlinked>>
      BY <2>1 DEF Query, Acts, CallFails, Begin, Walk, WalkStep, WalkGetAttrFails,
         Open, OpenCheck, OpenLook, OpenFails, Readdir, ReaddirCheck, ReaddirNames,
         ReaddirEnds, ReaddirEach, Begins, Continues, EndsWith, hostVars, ghostVars
    <3> QED
      BY <3>1, SameNames
  <2> QED
    BY <1>1, <2>1, NewNamesKeepNames, UnlinkKeepsNames, RenameKeepsNames, FidsKeepNames
       DEF Serve
<1>2. CASE (\E p \in Exposable, ro \in BOOLEAN : Edit(p, ro)) \/ UNCHANGED vfsVars
  <2>1. UNCHANGED <<host, file, unlinked>>
    BY <1>2 DEF Edit, vfsVars, hostVars, ghostVars
  <2> QED
    BY <2>1, SameNames
<1> QED
  BY <1>1, <1>2 DEF VFSNext

\* Renames, whole directories of them included, replaced targets, links and
\* removals leave every open file under the path its fid keeps: Renamed is
\* called for all the fids that it has to be called for.
THEOREM OpenFilesKeepTheirNames == VFSSpec => []OpenFileKeepsName
<1>1. VFSInit => OpenFileKeepsName
  BY DEF VFSInit, OpenFileKeepsName, InUse
<1> QED
  BY <1>1, VFSStarts, VFSInductive, TypesStart, TypesInductive, NamesInductive, PTL
     DEF VFSSpec

-----------------------------------------------------------------------------
(* Fids stay in sight *)

\* Where a walk may lead.
Reached(p) == p = Root \/ \E q \in exposed : Above(q, p) \/ Above(p, q)

Checking(h) == request[h].op \notin {"walk", "open", "readdir"}

\* The request acts on a fid for which nothing was removed since its walk: on
\* its own, or on any that a rename may take along.
Watched(h) ==
    \/ h \in fresh
    \/ request[h].op \in Moves /\ \E g \in InUse \cap fresh : file[g].path # Root

\* What such a request relies on has stayed visible since it was asked for.
StillSeen ==
    \A h \in Busy : Checking(h) /\ Watched(h) =>
        \A r \in Needs(request[h].op, file[h].path, request[h].with) :
            r \in pending[h] \/ Visible(r[1])

\* So has the end of a walk during which nothing changed.
WalksSeen ==
    \A h \in Busy \cap steady : IsWalk(h) /\ request[h].sure =>
        request[h].names # << >> \/ Reached(request[h].at)

WalkedInv == WalkedIsVisible /\ StillSeen /\ WalksSeen

LEMMA FoundIsReached ==
    ASSUME RegistryInv, NEW p \in Paths, Found(p) PROVE Reached(p)
<1>1. CASE CheckPath(p) = "Exposed"
  BY <1>1, ExposedIsVisible DEF Visible, Reached
<1>2. CASE CheckPath(p) = "VirtualAncestor"
  <2>1. p = Root \/ p \in nodes
    BY <1>2 DEF CheckPath
  <2> QED
    BY <2>1 DEF Reached, RegistryInv, NodesLead, MarksAreExposed
<1> QED
  BY <1>1, <1>2 DEF Found

\* Below what is visible everything is reached.
LEMMA BelowVisible ==
    ASSUME RegistryInv, NEW d \in Paths, NEW p \in Paths, Visible(d), Above(d, p)
    PROVE  Reached(p)
<1>1. PICK q \in exposed : Above(q, d)
  BY DEF Visible
<1>2. q \in Paths
  BY RegistryAssumption DEF RegistryInv, TypeOK
<1>3. Above(q, p)
  BY <1>1, <1>2, AboveTransitive
<1> QED
  BY <1>3 DEF Reached

LEMMA SameWalked ==
    ASSUME WalkedIsVisible, UNCHANGED <<registryVars, file>>, fresh' \subseteq fresh
    PROVE  WalkedIsVisible'
<1>1. exposed' = exposed /\ InUse' = InUse
  BY DEF registryVars, InUse
<1> QED
  BY <1>1 DEF WalkedIsVisible

LEMMA StillSeenKept ==
    ASSUME StillSeen, UNCHANGED registryVars, NEW h \in Fids,
           \A g \in Busy' \ {h} :
              /\ g \in Busy /\ request'[g] = request[g] /\ pending'[g] = pending[g]
              /\ Checking(g) /\ Watched(g)' => Watched(g) /\ file'[g].path = file[g].path,
           h \in Busy' /\ Checking(h)' /\ Watched(h)' =>
              \A r \in Needs(request'[h].op, file'[h].path, request'[h].with) :
                 r \in pending'[h] \/ Visible(r[1])
    PROVE  StillSeen'
<1> SUFFICES ASSUME NEW g \in Busy', Checking(g)', Watched(g)',
                    NEW r \in Needs(request'[g].op, file'[g].path, request'[g].with)
             PROVE  r \in pending'[g] \/ Visible(r[1])'
  BY DEF StillSeen
<1>1. Visible(r[1])' <=> Visible(r[1])
  BY SameRegistry
<1>2. CASE g = h
  BY <1>1, <1>2
<1>3. CASE g # h
  <2>1. /\ g \in Busy /\ request'[g] = request[g] /\ pending'[g] = pending[g]
    BY <1>3
  <2>2. Checking(g)
    BY <2>1 DEF Checking
  <2> QED
    BY <1>1, <1>3, <2>1, <2>2 DEF StillSeen
<1> QED
  BY <1>2, <1>3

LEMMA WalksSeenKept ==
    ASSUME WalksSeen, UNCHANGED registryVars, NEW h \in Fids,
           \A g \in (Busy' \cap steady') \ {h} :
              g \in Busy \cap steady /\ request'[g] = request[g],
           h \in Busy' \cap steady' /\ request'[h].op = "walk" /\ request'[h].sure =>
              request'[h].names # << >> \/ Reached(request'[h].at)
    PROVE  WalksSeen'
<1> SUFFICES ASSUME NEW g \in Busy' \cap steady', IsWalk(g)', request'[g].sure
             PROVE  request'[g].names # << >> \/ Reached(request[g].at)'
  BY DEF WalksSeen
<1>1. exposed' = exposed
  BY DEF registryVars
<1>2. request'[g].names # << >> \/ Reached(request'[g].at)
  <2>1. CASE g = h
    BY <2>1 DEF IsWalk
  <2>2. CASE g # h
    <3>1. g \in Busy \cap steady /\ request'[g] = request[g]
      BY <2>2
    <3>2. IsWalk(g) /\ request[g].sure
      BY <3>1 DEF IsWalk
    <3> QED
      BY <3>1, <3>2 DEF WalksSeen
  <2> QED
    BY <2>1, <2>2
<1> QED
  BY <1>1, <1>2 DEF Reached

LEMMA BeginsSeen ==
    ASSUME VFSInv, WalkedInv, NEW h \in Fids, NEW req, NEW need, Ready(h),
           Begins(h, req, need),
           req.op \notin {"walk", "open", "readdir"} =>
              Needs(req.op, file[h].path, req.with) \subseteq need,
           req.op = "walk" /\ req.sure => req.names # << >> \/ Reached(req.at)
    PROVE  WalkedInv'
<1>1. /\ UNCHANGED <<registryVars, file, fresh>>
      /\ request'[h] = req /\ pending'[h] = {r \in need : ~Granted(r)}
      /\ \A g \in Fids \ {h} : request'[g] = request[g] /\ pending'[g] = pending[g]
      /\ steady' \subseteq steady \cup {h}
  BY DEF Begins, hostVars, VFSInv, FidsAreKept
<1>2. \A g \in Busy' \ {h} : g \in Busy
  BY <1>1 DEF Busy
<1>3. WalkedIsVisible'
  BY <1>1, SameWalked DEF WalkedInv
<1>4. StillSeen'
  <2>1. \A g \in Busy' \ {h} : Watched(g)' => Watched(g)
    BY <1>1, <1>2 DEF Watched, InUse, Busy
  <2>2. ASSUME Checking(h)',
               NEW r \in Needs(request'[h].op, file'[h].path, request'[h].with)
        PROVE  r \in pending'[h] \/ Visible(r[1])
    <3>1. r \in need
      BY <1>1, <2>2 DEF Checking
    <3> QED
      BY <1>1, <3>1 DEF Granted, Writable
  <2>3. \A g \in Busy' \ {h} :
           /\ g \in Busy /\ request'[g] = request[g] /\ pending'[g] = pending[g]
           /\ file'[g].path = file[g].path
    BY <1>1, <1>2 DEF Busy
  <2> QED
    BY <1>1, <2>1, <2>2, <2>3, StillSeenKept DEF WalkedInv
<1>5. WalksSeen'
  <2>1. \A g \in (Busy' \cap steady') \ {h} : g \in Busy \cap steady /\ request'[g] = request[g]
    BY <1>1, <1>2 DEF Busy
  <2> QED
    BY <1>1, <2>1, WalksSeenKept DEF WalkedInv
<1> QED
  BY <1>3, <1>4, <1>5 DEF WalkedInv

LEMMA ContinuesSeen ==
    ASSUME VFSInv, WalkedInv, NEW h \in Busy, NEW req, Continues(h, req),
           req.op = request[h].op,
           Checking(h) => req.with = request[h].with,
           req.op = "walk" /\ req.sure => req.names # << >> \/ Reached(req.at)
    PROVE  WalkedInv'
<1>1. h \in Fids
  BY DEF Busy
<1>2. /\ UNCHANGED <<registryVars, file, fresh, pending, steady>>
      /\ request'[h] = req
      /\ \A g \in Fids \ {h} : request'[g] = request[g]
  BY <1>1 DEF Continues, hostVars, ghostVars, VFSInv, FidsAreKept
<1>3. Busy' \subseteq Busy
  BY <1>2 DEF Busy
<1>4. WalkedIsVisible'
  BY <1>2, SameWalked DEF WalkedInv
<1>5. StillSeen'
  <2>1. \A g \in Busy' : Watched(g)' => Watched(g)
    BY <1>2, <1>3 DEF Watched, InUse, Busy
  <2>2. Checking(h)' <=> Checking(h)
    BY <1>2 DEF Checking
  <2>3. ASSUME h \in Busy', Checking(h)', Watched(h)',
               NEW r \in Needs(request'[h].op, file'[h].path, request'[h].with)
        PROVE  r \in pending'[h] \/ Visible(r[1])
    BY <1>2, <2>1, <2>2, <2>3 DEF WalkedInv, StillSeen
  <2>4. \A g \in Busy' \ {h} :
           /\ g \in Busy /\ request'[g] = request[g] /\ pending'[g] = pending[g]
           /\ file'[g].path = file[g].path
    BY <1>2, <1>3 DEF Busy
  <2> QED
    BY <1>1, <1>2, <2>1, <2>3, <2>4, StillSeenKept DEF WalkedInv
<1>6. WalksSeen'
  <2>1. \A g \in (Busy' \cap steady') \ {h} : g \in Busy \cap steady /\ request'[g] = request[g]
    BY <1>2, <1>3 DEF Busy
  <2> QED
    BY <1>1, <1>2, <2>1, WalksSeenKept DEF WalkedInv
<1> QED
  BY <1>4, <1>5, <1>6 DEF WalkedInv

LEMMA EndsSeen ==
    ASSUME VFSInv, WalkedInv, NEW h \in Fids, Ends(h), UNCHANGED registryVars,
           steady' \subseteq steady, WalkedIsVisible',
           \A g \in Busy \ {h} : Checking(g) /\ Watched(g)' =>
              Watched(g) /\ file'[g].path = file[g].path
    PROVE  WalkedInv'
<1>1. /\ request'[h] = NoRequest
      /\ \A g \in Fids \ {h} : request'[g] = request[g] /\ pending'[g] = pending[g]
  BY DEF Ends, VFSInv, FidsAreKept
<1>2. Busy' = Busy \ {h}
  BY <1>1 DEF Busy
<1>3. \A g \in Busy' \ {h} :
         g \in Busy /\ request'[g] = request[g] /\ pending'[g] = pending[g]
  BY <1>1, <1>2 DEF Busy
<1>4. StillSeen'
  BY <1>2, <1>3, StillSeenKept DEF WalkedInv
<1>5. WalksSeen'
  BY <1>2, <1>3, WalksSeenKept DEF WalkedInv
<1> QED
  BY <1>4, <1>5 DEF WalkedInv

LEMMA StartsSeen ==
    ASSUME VFSInv, WalkedInv, NEW h \in Fids,
           \/ \E ask \in Asks, other \in Fids : Begin(h, ask, other)
           \/ \E to \in Fids, names \in Steps : Walk(h, to, names)
           \/ \E mode \in {"read", "write"} : Open(h, mode)
           \/ Readdir(h)
    PROVE  WalkedInv'
<1>1. ASSUME NEW ask \in Asks, NEW other \in Fids, Begin(h, ask, other)
      PROVE  WalkedInv'
  <2>1. PICK req : /\ req.op = ask.op /\ req.with = file[other].path
                   /\ Begins(h, req, Needs(ask.op, file[h].path, file[other].path))
    BY <1>1 DEF Begin
  <2>2. ask.op # "walk"
    BY AsksAssumption DEF Checked, OnSelf, OnEntry
  <2> QED
    BY <1>1, <2>1, <2>2, BeginsSeen DEF Begin
<1>2. ASSUME NEW to \in Fids, NEW names \in Steps, Walk(h, to, names)
      PROVE  WalkedInv'
  <2>1. PICK req : /\ req.op = "walk" /\ req.names = names /\ req.at = file[h].path
                   /\ req.sure = (names # << >> \/ h \in fresh)
                   /\ Begins(h, req, {})
    BY <1>2 DEF Walk
  <2>2. h \in fresh => Reached(file[h].path)
    BY <1>2 DEF Walk, Ready, WalkedInv, WalkedIsVisible, Reached
  <2> QED
    BY <1>2, <2>1, <2>2, BeginsSeen DEF Walk
<1>3. ASSUME NEW mode \in {"read", "write"}, Open(h, mode) PROVE WalkedInv'
  <2>1. PICK req, need : req.op = "open" /\ Begins(h, req, need)
    BY <1>3 DEF Open
  <2> QED
    BY <1>3, <2>1, BeginsSeen DEF Open
<1>4. CASE Readdir(h)
  <2>1. PICK req : req.op = "readdir" /\ Begins(h, req, {})
    BY <1>4 DEF Readdir
  <2> QED
    BY <1>4, <2>1, BeginsSeen DEF Readdir
<1> QED
  BY <1>1, <1>2, <1>3, <1>4

LEMMA EndsWithSeen ==
    ASSUME VFSInv, WalkedInv, NEW h \in Fids, EndsWith(h) PROVE WalkedInv'
<1>1. /\ Ends(h) /\ UNCHANGED <<registryVars, file, fresh>> /\ steady' \subseteq steady
  BY DEF EndsWith, hostVars
<1>2. \A g \in Busy \ {h} : Watched(g)' => Watched(g)
  BY <1>1 DEF Ends, Watched, InUse, Busy, VFSInv, FidsAreKept
<1> QED
  BY <1>1, <1>2, SameWalked, EndsSeen DEF WalkedInv

LEMMA GoesOnSeen ==
    ASSUME VFSInv, TypesInv, WalkedInv, NEW h \in Fids,
           \/ Query(h) \/ WalkStep(h) \/ OpenCheck(h) \/ OpenLook(h)
           \/ ReaddirCheck(h) \/ ReaddirNames(h)
           \/ \E x \in Names : ReaddirEach(h, x)
    PROVE  WalkedInv'
<1>1. CASE EndsWith(h)
  BY <1>1, EndsWithSeen
<1>2. CASE Query(h) /\ ~EndsWith(h)
  <2> DEFINE req == [request[h] EXCEPT !.todo = Tail(@)]
  <2>1. req.op = request[h].op /\ req.with = request[h].with
    OBVIOUS
  <2>2. Continues(h, req) /\ h \in Busy /\ request[h].op # "walk"
    BY <1>2 DEF Query, Busy
  <2> HIDE DEF req
  <2> QED
    BY <2>1, <2>2, ContinuesSeen
<1>3. CASE WalkStep(h) /\ ~EndsWith(h)
  <2> DEFINE at == Join(request[h].at, Head(request[h].names))
             req == [request[h] EXCEPT !.at = at, !.names = Tail(@)]
  <2>1. /\ request[h].op = "walk" /\ request[h].names # << >>
        /\ Fits(at) /\ Found(at) /\ Continues(h, req) /\ h \in Busy
    BY <1>3 DEF WalkStep, Busy, NoRequest
  <2>2. request[h] \in WalkRequest
    BY <2>1 DEF TypesInv, RequestsOK, RequestTyped
  <2>3. request[h].at \in Paths /\ Head(request[h].names) \in Names \cup {".."}
    BY <2>1, <2>2, HeadTailProperties DEF WalkRequest
  <2>4. Reached(at)
    BY <2>1, <2>3, JoinTyped, FoundIsReached DEF VFSInv
  <2> HIDE DEF at
  <2>5. req.op = "walk" /\ req.at = at
    BY <2>1, <2>2 DEF WalkRequest
  <2> HIDE DEF req
  <2> QED
    BY <2>1, <2>4, <2>5, ContinuesSeen DEF Checking
<1>4. CASE /\ h \in Busy /\ request[h].op \in {"open", "readdir"}
           /\ \E req : req.op = request[h].op /\ Continues(h, req)
  BY <1>4, ContinuesSeen DEF Checking
<1>5. CASE OpenCheck(h) /\ ~EndsWith(h)
  <2> DEFINE req == [request[h] EXCEPT !.stage = "look"]
  <2>1. req.op = request[h].op
    OBVIOUS
  <2>2. Continues(h, req) /\ request[h].op = "open" /\ h \in Busy
    BY <1>5 DEF OpenCheck, OpenAt, Busy, NoRequest
  <2> HIDE DEF req
  <2> QED
    BY <1>4, <2>1, <2>2
<1>6. CASE OpenLook(h) /\ ~EndsWith(h)
  <2> DEFINE req == [request[h] EXCEPT !.stage = "file"]
  <2>1. req.op = request[h].op
    OBVIOUS
  <2>2. Continues(h, req) /\ request[h].op = "open" /\ h \in Busy
    BY <1>6 DEF OpenLook, OpenAt, Busy, NoRequest
  <2> HIDE DEF req
  <2> QED
    BY <1>4, <2>1, <2>2
<1>7. CASE ReaddirCheck(h) /\ ~EndsWith(h)
  <2> DEFINE req == [request[h] EXCEPT !.stage = "names"]
  <2>1. req.op = request[h].op
    OBVIOUS
  <2>2. Continues(h, req) /\ request[h].op = "readdir" /\ h \in Busy
    BY <1>7 DEF ReaddirCheck, ReaddirAt, Busy, NoRequest
  <2> HIDE DEF req
  <2> QED
    BY <1>4, <2>1, <2>2
<1>8. CASE ReaddirNames(h)
  <2> DEFINE req == [request[h] EXCEPT !.stage = "each",
                                       !.left = GetExposedChildren(file[h].path)]
  <2>1. req.op = request[h].op
    OBVIOUS
  <2>2. Continues(h, req) /\ request[h].op = "readdir" /\ h \in Busy
    BY <1>8 DEF ReaddirNames, ReaddirAt, Busy, NoRequest
  <2> HIDE DEF req
  <2> QED
    BY <1>4, <2>1, <2>2
<1>9. ASSUME NEW x \in Names, ReaddirEach(h, x) PROVE WalkedInv'
  <2> DEFINE child == Append(file[h].path, x)
             gone == CheckPath(child) = "Exposed" /\ host[child] = Absent
             req == [request[h] EXCEPT !.left = @ \ {x},
                       !.dirents = IF gone THEN @ ELSE @ \cup {x}]
  <2>1. req.op = request[h].op
    OBVIOUS
  <2>2. Continues(h, req)
    BY <1>9 DEF ReaddirEach
  <2> HIDE DEF req, gone, child
  <2>3. request[h].op = "readdir"
    BY <1>9 DEF ReaddirEach, ReaddirAt
  <2>4. h \in Busy
    BY <2>3 DEF Busy, NoRequest
  <2> QED
    BY <1>4, <2>1, <2>2, <2>3, <2>4
<1> QED
  BY <1>1, <1>2, <1>3, <1>5, <1>6, <1>7, <1>8, <1>9

\* What is made in a visible directory is visible, and so is what is moved
\* into one.
LEMMA CreateSeen ==
    ASSUME VFSInv, TypesInv, WalkedInv, NEW h \in Fids, Create(h)
    PROVE  WalkedIsVisible'
<1>1. May(h, {"create"}) /\ CanMake(h)
  BY DEF Create
<1>2. /\ h \in Busy /\ h \in InUse /\ file[h].path \in Paths
      /\ request[h].op = "create" /\ request[h].ask.name \in Names
  BY <1>1, AskTyped DEF OnEntry
<1>3. /\ Append(file[h].path, request[h].ask.name) \in Paths
      /\ Above(file[h].path, Entry(h)) /\ Entry(h) \in Paths
  BY <1>1, <1>2, EntryTyped, AboveEntry DEF CanMake, Entry
<1>4. h \in fresh => Visible(file[h].path)
  <2>1. pending[h] = {}
    BY <1>1, <1>2, AskedInTime DEF ChecksSuffice, May, OnEntry
  <2>2. Change(file[h].path) \in Needs("create", file[h].path, request[h].with)
    BY DEF Needs
  <2>3. Change(file[h].path)[1] = file[h].path
    BY DEF Change
  <2>4. ASSUME h \in fresh PROVE Visible(Change(file[h].path)[1])
    BY <1>2, <2>1, <2>2, <2>4 DEF WalkedInv, StillSeen, Checking, Watched
  <2> QED
    BY <2>3, <2>4
<1>5. h \in fresh => Reached(Entry(h))
  BY <1>2, <1>3, <1>4, BelowVisible DEF VFSInv
<1>6. /\ file'[h].path = Entry(h) /\ \A g \in Fids \ {h} : file'[g] = file[g]
      /\ fresh' = fresh /\ exposed' = exposed
  <2>1. PICK i : file' = [file EXCEPT ![h] = [path |-> Entry(h), real |-> i]]
    BY DEF Create
  <2>2. fresh' = fresh /\ exposed' = exposed
    BY DEF Create, Changes, registryVars
  <2> QED
    BY <2>1, <2>2 DEF VFSInv, FidsAreKept
<1> QED
  BY <1>5, <1>6 DEF WalkedInv, WalkedIsVisible, Reached, InUse

LEMMA RenameSeen ==
    ASSUME VFSInv, TypesInv, WalkedInv, NEW h \in Fids, Rename(h)
    PROVE  WalkedIsVisible'
<1>1. May(h, Moves)
  BY DEF Rename
<1>2. h \in Busy /\ request[h].op \in Moves
  BY <1>1, AskTyped DEF OnEntry
<1>3. /\ Source(h) \in Paths /\ Target(h) \in Paths /\ request[h].with \in Paths
      /\ Above(request[h].with, Target(h)) /\ Source(h) # Root
  <2>1. /\ Source(h) \in Paths /\ Target(h) \in Paths /\ request[h].with \in Paths
        /\ request[h].ask.name \in Names
        /\ Target(h) = Append(request[h].with, request[h].ask.name)
        /\ CanMove(Source(h), Target(h))
    BY RenameTyped
  <2>2. Above(request[h].with, Target(h))
    BY <2>1, AboveEntry
  <2> QED
    BY <2>1, <2>2 DEF CanMove
<1>4. ASSUME NEW k \in InUse \cap fresh, file[k].path # Root
      PROVE  Visible(request[h].with)
  <2>1. pending[h] = {}
    BY <1>1, <1>2, AskedInTime DEF ChecksSuffice, May
  <2>2. Change(request[h].with) \in Needs(request[h].op, file[h].path, request[h].with)
    BY <1>2 DEF Needs, Moves
  <2>3. Checking(h) /\ Watched(h)
    BY <1>2, <1>4 DEF Checking, Watched, Moves
  <2>4. Visible(Change(request[h].with)[1])
    BY <1>2, <2>1, <2>2, <2>3 DEF WalkedInv, StillSeen
  <2>5. Change(request[h].with)[1] = request[h].with
    BY DEF Change
  <2> QED
    BY <2>4, <2>5
<1>5. InUse' \subseteq InUse /\ fresh' = fresh /\ exposed' = exposed
  BY DEF Rename, Renamed, InUse, Changes, registryVars
<1>6. ASSUME NEW g \in InUse \cap fresh PROVE Reached(file'[g].path)
  <2>1. file[g].path \in Paths /\ Reached(file[g].path)
    BY FileTyped DEF TypesInv, WalkedInv, WalkedIsVisible, Reached
  <2>2. CASE g \notin unlinked /\ Above(Source(h), file[g].path)
    <3> DEFINE m == Moved(file[g].path, Source(h), Target(h))
    <3>1. Fits(m) /\ file'[g].path = m
      BY <2>2, RenamedPath
    <3>2. m \in Paths /\ Above(Target(h), m)
      BY <1>3, <2>1, <2>2, <3>1, MovedIsPath
    <3> HIDE DEF m
    <3>3. file[g].path # Root
      BY <1>3, <2>2, AboveRoot
    <3>4. Visible(request[h].with) /\ Above(request[h].with, m)
      BY <1>3, <1>4, <3>2, <3>3, AboveTransitive
    <3> QED
      BY <1>3, <3>1, <3>2, <3>4, BelowVisible DEF VFSInv
  <2>3. CASE ~(g \notin unlinked /\ Above(Source(h), file[g].path))
    BY <2>1, <2>3, RenamedPath
  <2> QED
    BY <2>2, <2>3
<1> QED
  BY <1>5, <1>6 DEF WalkedIsVisible, Reached

LEMMA EndingsSeen ==
    ASSUME VFSInv, TypesInv, WalkedInv, NEW h \in Fids,
           \/ Create(h) \/ Mkdir(h) \/ Symlink(h) \/ Mknod(h) \/ Link(h)
           \/ UnlinkAt(h) \/ Rename(h) \/ OpenFile(h) \/ WalkEnds(h)
    PROVE  WalkedInv'
<1>1. Ends(h) /\ UNCHANGED registryVars /\ steady' \subseteq steady
  BY DEF Create, Mkdir, Symlink, Mknod, Link, UnlinkAt, Rename, Changes, OpenFile,
     WalkEnds
<1>2. \A g \in Fids \ {h} : request'[g] = request[g]
  BY <1>1 DEF Ends, VFSInv, FidsAreKept
<1>3. h \in Busy => \A g \in Busy \ {h} : request[g].op \notin Moves
  BY DEF VFSInv, FidsAreKept
<1>4. h \in Busy
  BY DEF Create, Mkdir, Symlink, Mknod, Link, UnlinkAt, Rename, May, OpenFile, OpenAt,
     WalkEnds, Busy, NoRequest, Moves
<1>5. CASE Mkdir(h) \/ Symlink(h) \/ Mknod(h) \/ Link(h) \/ UnlinkAt(h)
  <2>1. UNCHANGED <<file, fresh>>
    BY <1>5 DEF Mkdir, Symlink, Mknod, Link, UnlinkAt, Changes
  <2>2. \A g \in Busy \ {h} : Watched(g)' => Watched(g)
    BY <1>2, <2>1 DEF Watched, InUse, Busy
  <2> QED
    BY <1>1, <2>1, <2>2, SameWalked, EndsSeen DEF WalkedInv
<1>6. CASE Create(h) \/ OpenFile(h)
  <2>1. fresh' = fresh /\ \A g \in Fids \ {h} : file'[g] = file[g]
    BY <1>6 DEF Create, Changes, OpenFile, VFSInv, FidsAreKept
  <2>2. \A g \in Busy \ {h} : Watched(g)' => Watched(g)
    BY <1>2, <1>3, <1>4, <2>1 DEF Watched, Busy
  <2>3. WalkedIsVisible'
    <3>1. CASE OpenFile(h)
      <4>1. h \in InUse
        BY <1>4 DEF VFSInv, FidsAreKept
      <4>2. file[h] \in [path: Paths, real: Inodes \cup {NoFile}]
        BY <4>1 DEF InUse, TypesInv, FilesOK
      <4>3. file' = [file EXCEPT ![h] = [file[h] EXCEPT !.real = host[file[h].path]]]
        BY <3>1 DEF OpenFile
      <4>4. file'[h].path = file[h].path
        BY <4>1, <4>2, <4>3 DEF VFSInv, FidsAreKept
      <4>5. InUse' \subseteq InUse /\ exposed' = exposed
        BY <1>1, <2>1, <4>1 DEF InUse, registryVars
      <4> QED
        BY <2>1, <4>4, <4>5 DEF WalkedInv, WalkedIsVisible, InUse
    <3> QED
      BY <1>6, <3>1, CreateSeen
  <2> QED
    BY <1>1, <2>1, <2>2, <2>3, EndsSeen DEF Busy
<1>7. CASE Rename(h)
  <2>1. Busy = {h}
    <3>1. request[h].op \in Moves
      BY <1>7 DEF Rename, May
    <3> QED
      BY <1>4, <3>1 DEF VFSInv, FidsAreKept
  <2> QED
    BY <1>1, <1>7, <2>1, RenameSeen, EndsSeen
<1>8. CASE WalkEnds(h)
  <2> DEFINE to == request[h].to
  <2>1. /\ to \in Fids \ InUse
        /\ file' = [file EXCEPT ![to] = NewFile(request[h].at)]
        /\ fresh' = IF h \in steady /\ request[h].sure THEN fresh \cup {to} ELSE fresh \ {to}
        /\ request[h].names = << >> /\ IsWalk(h)
    BY <1>4, <1>8 DEF WalkEnds, VFSInv, FidsAreKept, IsWalk
  <2>2. /\ file'[to].path = request[h].at
        /\ \A g \in Fids \ {to} : file'[g] = file[g]
    BY <2>1 DEF NewFile, VFSInv, FidsAreKept
  <2>3. to \in fresh' => Reached(request[h].at)
    BY <1>4, <2>1 DEF WalkedInv, WalksSeen
  <2>4. fresh' \subseteq fresh \cup {to} /\ exposed' = exposed
    BY <1>1, <2>1 DEF registryVars
  <2>5. WalkedIsVisible'
    BY <2>2, <2>3, <2>4 DEF WalkedInv, WalkedIsVisible, Reached, InUse
  <2>6. \A g \in Busy \ {h} : g # to
    BY <2>1 DEF VFSInv, FidsAreKept
  <2>7. \A g \in Busy \ {h} : Watched(g)' => Watched(g)
    BY <1>2, <1>3, <1>4, <2>4, <2>6 DEF Watched, Busy
  <2>8. \A g \in Busy \ {h} : file'[g].path = file[g].path
    BY <2>2, <2>6 DEF Busy
  <2> QED
    BY <1>1, <2>5, <2>7, <2>8, EndsSeen
<1> QED
  BY <1>5, <1>6, <1>7, <1>8

LEMMA AttachClunkSeen ==
    ASSUME VFSInv, WalkedInv, NEW h \in Fids, Attach(h) \/ Clunk(h)
    PROVE  WalkedInv'
<1>1. /\ UNCHANGED <<registryVars, request, pending, steady>> /\ h \notin Busy
      /\ \A g \in Fids \ {h} : file'[g] = file[g]
      /\ fresh' \subseteq fresh \cup {h}
  BY DEF Attach, Clunk, ghostVars, Taken, VFSInv, FidsAreKept
<1>2. h \in InUse' => file'[h].path = Root
  BY DEF Attach, Clunk, NewFile, InUse, VFSInv, FidsAreKept
<1>3. Busy' = Busy /\ exposed' = exposed
  BY <1>1 DEF Busy, registryVars
<1>4. WalkedIsVisible'
  BY <1>1, <1>2, <1>3 DEF WalkedInv, WalkedIsVisible, InUse
<1>5. \A g \in Busy : Watched(g)' => Watched(g)
  BY <1>1, <1>2 DEF Watched, InUse, Busy
<1>6. StillSeen'
  <2>1. \A g \in Busy' \ {h} :
           /\ g \in Busy /\ request'[g] = request[g] /\ pending'[g] = pending[g]
           /\ file'[g].path = file[g].path
    BY <1>1, <1>3 DEF Busy
  <2> QED
    BY <1>1, <1>3, <1>5, <2>1, StillSeenKept DEF WalkedInv
<1>7. WalksSeen'
  BY <1>1, <1>3, WalksSeenKept DEF WalkedInv
<1> QED
  BY <1>4, <1>6, <1>7 DEF WalkedInv

LEMMA EditSeen ==
    ASSUME VFSInv, WalkedInv, NEW p \in Exposable, NEW ro \in BOOLEAN, Edit(p, ro)
    PROVE  WalkedInv'
<1>1. file' = file /\ request' = request /\ InUse' = InUse /\ Busy' = Busy /\ steady' = {}
  BY DEF Edit, hostVars, InUse, Busy
<1>2. WalksSeen'
  BY <1>1 DEF WalksSeen
<1>3. CASE fresh' = {}
  BY <1>1, <1>2, <1>3 DEF WalkedInv, WalkedIsVisible, StillSeen, Watched
<1>4. CASE /\ AddPath(p, ro) \/ AddPathAgain(p, ro)
           /\ fresh' = fresh
           /\ pending' = [h \in Fids |-> {r \in pending[h] : ~Granted(r)'}]
  <2>1. exposed \subseteq exposed'
    BY <1>4 DEF AddPath, AddPathAgain
  <2>2. WalkedIsVisible'
    BY <1>1, <1>4, <2>1 DEF WalkedInv, WalkedIsVisible
  <2>3. StillSeen'
    <3> SUFFICES ASSUME NEW h \in Busy, Checking(h)', Watched(h)',
                        NEW r \in Needs(request[h].op, file[h].path, request[h].with)
                 PROVE  r \in pending'[h] \/ Visible(r[1])'
      BY <1>1 DEF StillSeen
    <3>1. Checking(h) /\ Watched(h)
      BY <1>1, <1>4 DEF Checking, Watched
    <3>2. r \in pending[h] \/ Visible(r[1])
      BY <3>1 DEF WalkedInv, StillSeen
    <3>3. CASE Visible(r[1])
      BY <2>1, <3>3 DEF Visible
    <3>4. CASE r \in pending[h] /\ r \notin pending'[h]
      <4>1. Granted(r)'
        BY <1>4, <3>4 DEF Busy
      <4> QED
        BY <4>1 DEF Granted, Writable
    <3> QED
      BY <3>2, <3>3, <3>4
  <2> QED
    BY <1>2, <2>2, <2>3 DEF WalkedInv
<1> QED
  BY <1>3, <1>4 DEF Edit

LEMMA WalkedInductive ==
    VFSInv /\ TypesInv /\ WalkedInv /\ [VFSNext]_vfsVars => WalkedInv'
<1> SUFFICES ASSUME VFSInv, TypesInv, WalkedInv, [VFSNext]_vfsVars PROVE WalkedInv'
  OBVIOUS
<1>1. ASSUME NEW h \in Fids, Serve(h) PROVE WalkedInv'
  <2>1. CASE Acts(h) \/ CallFails(h) \/ WalkGetAttrFails(h) \/ OpenFails(h) \/ ReaddirEnds(h)
    BY <2>1, EndsWithSeen DEF Acts, CallFails, WalkGetAttrFails, OpenFails, ReaddirEnds
  <2> QED
    BY <1>1, <2>1, StartsSeen, GoesOnSeen, EndingsSeen, AttachClunkSeen DEF Serve
<1>2. CASE UNCHANGED vfsVars
  <2>1. UNCHANGED <<registryVars, file, request, pending, steady, fresh>>
    BY <1>2 DEF vfsVars, hostVars, ghostVars
  <2>2. exposed' = exposed
    BY <2>1 DEF registryVars
  <2> QED
    BY <2>1, <2>2 DEF WalkedInv, WalkedIsVisible, StillSeen, WalksSeen, Watched,
       Checking, IsWalk, Visible, Reached, InUse, Busy
<1> QED
  BY <1>1, <1>2, EditSeen DEF VFSNext

\* A walk during which the registry stood still leads to a visible path or a
\* virtual directory, and creations and renames in any order keep the fid at
\* one, until an exposure is removed.
THEOREM FidsStayInSight == VFSSpec => []WalkedIsVisible
<1>1. VFSInit => WalkedInv
  BY DEF VFSInit, WalkedInv, WalkedIsVisible, StillSeen, WalksSeen, Busy
<1>2. WalkedInv => WalkedIsVisible
  BY DEF WalkedInv
<1> QED
  BY <1>1, <1>2, VFSStarts, VFSInductive, TypesStart, TypesInductive, WalkedInductive,
     PTL DEF VFSSpec

-----------------------------------------------------------------------------
(* Listings *)

\* The names that lead from p to an exposed path.
Leading(p) == {x \in Names : \E q \in exposed : Above(Append(p, x), q)}

\* A Readdir of p that nothing has disturbed: the names that were not looked at
\* yet, and the entries made of the others.
ListOK(req, p) ==
    /\ req.stage # "check" => CheckPath(p) = "VirtualAncestor"
    /\ req.stage # "each" => req.dirents = {}
    /\ req.stage = "each" =>
          /\ req.left \subseteq Leading(p)
          /\ req.dirents =
                {x \in Leading(p) \ req.left :
                    Append(p, x) \notin exposed \/ host[Append(p, x)] # Absent}

ListsSeen ==
    \A h \in Busy \cap steady :
        request[h].op = "readdir" => ListOK(request[h], file[h].path)

\* At the depth the model ends at there are no names on either side.
LEMMA NamesLead ==
    ASSUME RegistryInv, NEW p \in Paths
    PROVE  GetExposedChildren(p) = Leading(p)
<1>1. MaxDepth \in Nat /\ Len(p) \in Nat /\ Len(p) <= MaxDepth
  BY RegistryAssumption, LenIsNat, PathsAreSequences
<1>2. CASE Len(p) < MaxDepth
  BY <1>2, ChildrenAreExact DEF ChildrenLeadSomewhere, Leading
<1>3. CASE Len(p) = MaxDepth
  <2>1. nodes \subseteq Paths /\ exposed \subseteq Paths
    BY RegistryAssumption DEF RegistryInv, TypeOK
  <2>2. \A q \in Paths : Len(q) \in Nat /\ Len(q) <= MaxDepth
    BY LenIsNat, PathsAreSequences
  <2>3. {m \in nodes : Len(m) = Len(p) + 1 /\ Above(p, m)} = {}
    BY <1>1, <1>3, <2>1, <2>2
  <2>4. GetExposedChildren(p) = {}
    BY <2>3 DEF GetExposedChildren
  <2>5. ASSUME NEW x \in Names, NEW q \in exposed, Above(Append(p, x), q) PROVE FALSE
    <3>1. Len(Append(p, x)) = Len(p) + 1
      BY AppendProperties, PathsAreSequences
    <3>2. Len(Append(p, x)) <= Len(q)
      BY <2>5 DEF Above
    <3> QED
      BY <1>1, <1>3, <2>1, <2>2, <3>1, <3>2
  <2> QED
    BY <2>4, <2>5 DEF Leading
<1> QED
  BY <1>1, <1>2, <1>3

\* What a virtual directory lists is exposed itself or leads further.
LEMMA ChildOfVirtual ==
    ASSUME RegistryInv, NEW p \in Paths, CheckPath(p) = "VirtualAncestor",
           NEW x \in Leading(p)
    PROVE  CheckPath(Append(p, x)) = "Exposed" <=> Append(p, x) \in exposed
<1> DEFINE c == Append(p, x)
<1>1. exposed \subseteq Paths /\ isExposed = exposed \ {Root}
  BY RegistryAssumption DEF RegistryInv, TypeOK, MarksAreExposed
<1>2. x \in Names /\ c \in Paths
  <2>1. PICK q \in exposed : x \in Names /\ Above(c, q)
    BY DEF Leading
  <2>2. Len(c) = Len(p) + 1 /\ Len(p) \in Nat
    BY <2>1, AppendProperties, PathsAreSequences, LenIsNat
  <2>3. Len(c) <= Len(q) /\ Len(q) <= MaxDepth /\ Len(q) \in Nat /\ MaxDepth \in Nat
    BY <1>1, <2>1, PathsAreSequences, LenIsNat, RegistryAssumption DEF Above
  <2>4. Fits(c)
    BY <2>2, <2>3 DEF Fits
  <2> QED
    BY <2>1, <2>4, EntryTyped
<1>3. c # Root /\ \A r \in Paths : Above(r, c) /\ r # c => Above(r, p)
  BY <1>2, AboveEntry
<1>4. /\ Along(c) = {r \in Paths \ {Root} : Above(r, c)}
      /\ Along(p) = {r \in Paths \ {Root} : Above(r, p)}
  BY <1>2, AlongIsAbove
<1> HIDE DEF c
<1>5. ASSUME CheckPath(c) = "Exposed", c \notin exposed PROVE FALSE
  <2>1. PICK r \in (Along(c) \cap nodes) \cap isExposed : TRUE
    BY <1>3, <1>5 DEF CheckPath
  <2>2. r \in (Along(p) \cap nodes) \cap isExposed
    BY <1>1, <1>3, <1>4, <1>5, <2>1
  <2>3. p # Root
    BY <1>4, <2>2, AboveRoot
  <2> QED
    BY <2>2, <2>3 DEF CheckPath
<1>6. c \in exposed => CheckPath(c) = "Exposed"
  BY DEF CheckPath
<1> QED
  BY <1>5, <1>6 DEF c

LEMMA ListsKept ==
    ASSUME ListsSeen, UNCHANGED <<registryVars, host>>, NEW h \in Fids,
           \A g \in (Busy' \cap steady') \ {h} :
              /\ g \in Busy \cap steady /\ request'[g] = request[g]
              /\ file'[g].path = file[g].path,
           h \in Busy' \cap steady' /\ request'[h].op = "readdir" =>
              ListOK(request'[h], file'[h].path)
    PROVE  ListsSeen'
<1> SUFFICES ASSUME NEW g \in Busy' \cap steady', request'[g].op = "readdir"
             PROVE  ListOK(request[g], file[g].path)'
  BY DEF ListsSeen
<1>1. ListOK(request'[g], file'[g].path)
  <2>1. CASE g = h
    BY <2>1
  <2>2. CASE g # h
    BY <2>2 DEF ListsSeen
  <2> QED
    BY <2>1, <2>2
<1> QED
  BY <1>1 DEF ListOK, Leading, CheckPath, registryVars

LEMMA BeginsLists ==
    ASSUME VFSInv, ListsSeen, NEW h \in Fids, NEW req, NEW need, Ready(h),
           Begins(h, req, need),
           req.op = "readdir" => req.stage = "check" /\ req.dirents = {}
    PROVE  ListsSeen'
<1>1. /\ UNCHANGED <<registryVars, host, file>> /\ request'[h] = req
      /\ \A g \in Fids \ {h} : request'[g] = request[g]
      /\ steady' \subseteq steady \cup {h}
  BY DEF Begins, hostVars, VFSInv, FidsAreKept
<1>2. \A g \in (Busy' \cap steady') \ {h} :
         g \in Busy \cap steady /\ request'[g] = request[g] /\ file'[g].path = file[g].path
  BY <1>1 DEF Busy
<1>3. req.op = "readdir" => ListOK(req, file[h].path)
  BY DEF ListOK
<1> QED
  BY <1>1, <1>2, <1>3, ListsKept

LEMMA ContinuesLists ==
    ASSUME VFSInv, ListsSeen, NEW h \in Busy, NEW req, Continues(h, req),
           h \in steady /\ req.op = "readdir" => ListOK(req, file[h].path)
    PROVE  ListsSeen'
<1>1. h \in Fids
  BY DEF Busy
<1>2. /\ UNCHANGED <<registryVars, host, file, steady>> /\ request'[h] = req
      /\ \A g \in Fids \ {h} : request'[g] = request[g]
  BY <1>1 DEF Continues, hostVars, ghostVars, VFSInv, FidsAreKept
<1>3. \A g \in (Busy' \cap steady') \ {h} :
         g \in Busy \cap steady /\ request'[g] = request[g] /\ file'[g].path = file[g].path
  BY <1>2 DEF Busy
<1> QED
  BY <1>1, <1>2, <1>3, ListsKept

LEMMA EndsLists ==
    ASSUME VFSInv, ListsSeen, NEW h \in Fids, Ends(h), UNCHANGED <<registryVars, host>>,
           steady' \subseteq steady,
           \A g \in Busy \ {h} : file'[g].path = file[g].path
    PROVE  ListsSeen'
<1>1. request'[h] = NoRequest /\ \A g \in Fids \ {h} : request'[g] = request[g]
  BY DEF Ends, VFSInv, FidsAreKept
<1>2. \A g \in (Busy' \cap steady') \ {h} :
         g \in Busy \cap steady /\ request'[g] = request[g] /\ file'[g].path = file[g].path
  BY <1>1 DEF Busy
<1>3. h \notin Busy'
  BY <1>1 DEF Busy
<1> QED
  BY <1>2, <1>3, ListsKept

LEMMA StartsList ==
    ASSUME VFSInv, ListsSeen, NEW h \in Fids,
           \/ \E ask \in Asks, other \in Fids : Begin(h, ask, other)
           \/ \E to \in Fids, names \in Steps : Walk(h, to, names)
           \/ \E mode \in {"read", "write"} : Open(h, mode)
           \/ Readdir(h)
    PROVE  ListsSeen'
<1>1. ASSUME NEW ask \in Asks, NEW other \in Fids, Begin(h, ask, other)
      PROVE  ListsSeen'
  <2>1. PICK req, need : req.op = ask.op /\ Begins(h, req, need)
    BY <1>1 DEF Begin
  <2>2. ask.op # "readdir"
    BY AsksAssumption DEF Checked, OnSelf, OnEntry
  <2> QED
    BY <1>1, <2>1, <2>2, BeginsLists DEF Begin
<1>2. ASSUME NEW to \in Fids, NEW names \in Steps, Walk(h, to, names)
      PROVE  ListsSeen'
  <2>1. PICK req : req.op = "walk" /\ Begins(h, req, {})
    BY <1>2 DEF Walk
  <2> QED
    BY <1>2, <2>1, BeginsLists DEF Walk
<1>3. ASSUME NEW mode \in {"read", "write"}, Open(h, mode) PROVE ListsSeen'
  <2>1. PICK req, need : req.op = "open" /\ Begins(h, req, need)
    BY <1>3 DEF Open
  <2> QED
    BY <1>3, <2>1, BeginsLists DEF Open
<1>4. CASE Readdir(h)
  <2>1. PICK req : /\ req.stage = "check" /\ req.dirents = {}
                   /\ Begins(h, req, {})
    BY <1>4 DEF Readdir
  <2> QED
    BY <1>4, <2>1, BeginsLists DEF Readdir
<1> QED
  BY <1>1, <1>2, <1>3, <1>4

\* One more name of the listing.
LEMMA EachListed ==
    ASSUME VFSInv, TypesInv, ListsSeen, NEW h \in Fids, NEW x \in Names,
           ReaddirEach(h, x)
    PROVE  ListsSeen'
<1> DEFINE child == Append(file[h].path, x)
           gone == CheckPath(child) = "Exposed" /\ host[child] = Absent
           req == [request[h] EXCEPT !.left = @ \ {x},
                     !.dirents = IF gone THEN @ ELSE @ \cup {x}]
<1>1. Continues(h, req)
  BY DEF ReaddirEach
<1>2. request[h].op = "readdir" /\ request[h].stage = "each" /\ x \in request[h].left
  BY DEF ReaddirEach, ReaddirAt
<1>3. h \in Busy
  BY <1>2 DEF Busy, NoRequest
<1>4. request[h] \in ReaddirRequest
  BY <1>2, <1>3 DEF TypesInv, RequestsOK, RequestTyped
<1> HIDE DEF gone
<1>5. /\ req.op = "readdir" /\ req.stage = "each"
      /\ req.left = request[h].left \ {x}
      /\ req.dirents = IF gone THEN request[h].dirents ELSE request[h].dirents \cup {x}
  BY <1>2, <1>4 DEF ReaddirRequest
<1> HIDE DEF req
<1>6. ASSUME h \in steady PROVE ListOK(req, file[h].path)
  <2> DEFINE p == file[h].path
             listed(left) == {y \in Leading(p) \ left :
                                Append(p, y) \notin exposed \/ host[Append(p, y)] # Absent}
  <2>1. /\ CheckPath(p) = "VirtualAncestor"
        /\ request[h].left \subseteq Leading(p)
        /\ request[h].dirents = listed(request[h].left)
    BY <1>2, <1>3, <1>6 DEF ListsSeen, ListOK
  <2>2. p \in Paths
    BY <1>3, FileTyped DEF VFSInv, FidsAreKept, TypesInv
  <2>3. CheckPath(child) = "Exposed" <=> child \in exposed
    BY <1>2, <2>1, <2>2, ChildOfVirtual DEF VFSInv
  <2>4. gone <=> child \in exposed /\ host[child] = Absent
    BY <2>3 DEF gone
  <2>5. listed(request[h].left \ {x}) =
          IF gone THEN listed(request[h].left) ELSE listed(request[h].left) \cup {x}
    BY <1>2, <2>1, <2>4
  <2>6. req.left \subseteq Leading(p) /\ req.dirents = listed(req.left)
    BY <1>5, <2>1, <2>5
  <2> QED
    BY <1>5, <2>1, <2>6 DEF ListOK
<1> QED
  BY <1>1, <1>3, <1>6, ContinuesLists

LEMMA GoesOnListing ==
    ASSUME VFSInv, TypesInv, ListsSeen, NEW h \in Fids,
           ReaddirCheck(h) \/ ReaddirNames(h), ~EndsWith(h)
    PROVE  ListsSeen'
<1>1. request[h].op = "readdir"
  BY DEF ReaddirCheck, ReaddirNames, ReaddirAt
<1>2. h \in Busy
  BY <1>1 DEF Busy, NoRequest
<1>3. request[h] \in ReaddirRequest
  BY <1>1, <1>2 DEF TypesInv, RequestsOK, RequestTyped
<1>4. h \in steady => ListOK(request[h], file[h].path)
  BY <1>1, <1>2 DEF ListsSeen
<1>5. CASE ReaddirCheck(h)
  <2> DEFINE req == [request[h] EXCEPT !.stage = "names"]
  <2>1. /\ Continues(h, req) /\ request[h].stage = "check"
        /\ CheckPath(file[h].path) = "VirtualAncestor"
    BY <1>5 DEF ReaddirCheck, ReaddirAt
  <2>2. req.stage = "names" /\ req.dirents = request[h].dirents
    BY <1>3 DEF ReaddirRequest
  <2> HIDE DEF req
  <2>3. h \in steady => ListOK(req, file[h].path)
    BY <1>4, <2>1, <2>2 DEF ListOK
  <2> QED
    BY <1>2, <2>1, <2>3, ContinuesLists
<1>6. CASE ReaddirNames(h)
  <2> DEFINE names == GetExposedChildren(file[h].path)
             req == [request[h] EXCEPT !.stage = "each", !.left = names]
  <2>1. Continues(h, req) /\ request[h].stage = "names"
    BY <1>6 DEF ReaddirNames, ReaddirAt
  <2>2. names = Leading(file[h].path)
    <3>1. file[h].path \in Paths
      BY <1>2, FileTyped DEF VFSInv, FidsAreKept, TypesInv
    <3> QED
      BY <3>1, NamesLead DEF VFSInv
  <2> HIDE DEF names
  <2>3. req.stage = "each" /\ req.left = names /\ req.dirents = request[h].dirents
    BY <1>3 DEF ReaddirRequest
  <2> HIDE DEF req
  <2>4. h \in steady => ListOK(req, file[h].path)
    BY <1>4, <2>1, <2>2, <2>3 DEF ListOK
  <2> QED
    BY <1>2, <2>1, <2>4, ContinuesLists
<1> QED
  BY <1>5, <1>6

\* The steps of other requests.
LEMMA OthersList ==
    ASSUME VFSInv, ListsSeen, NEW h \in Fids,
           Query(h) \/ WalkStep(h) \/ OpenCheck(h) \/ OpenLook(h), ~EndsWith(h)
    PROVE  ListsSeen'
<1>1. ASSUME h \in Busy, NEW req, req.op # "readdir", Continues(h, req)
      PROVE  ListsSeen'
  BY <1>1, ContinuesLists
<1>2. CASE Query(h)
  <2> DEFINE req == [request[h] EXCEPT !.todo = Tail(@)]
  <2>1. req.op = request[h].op
    OBVIOUS
  <2>2. Continues(h, req)
    BY <1>2 DEF Query
  <2>3. request[h].op # "readdir" /\ h \in Busy
    BY <1>2 DEF Query, Busy
  <2> HIDE DEF req
  <2> QED
    BY <1>1, <2>1, <2>2, <2>3
<1>3. CASE WalkStep(h)
  <2> DEFINE at == Join(request[h].at, Head(request[h].names))
             req == [request[h] EXCEPT !.at = at, !.names = Tail(@)]
  <2>1. req.op = request[h].op
    OBVIOUS
  <2>2. Continues(h, req)
    BY <1>3 DEF WalkStep
  <2>3. request[h].op = "walk" /\ h \in Busy
    BY <1>3 DEF WalkStep, Busy, NoRequest
  <2> HIDE DEF req
  <2> QED
    BY <1>1, <2>1, <2>2, <2>3
<1>4. CASE OpenCheck(h)
  <2> DEFINE req == [request[h] EXCEPT !.stage = "look"]
  <2>1. req.op = request[h].op
    OBVIOUS
  <2>2. Continues(h, req)
    BY <1>4 DEF OpenCheck
  <2>3. request[h].op = "open" /\ h \in Busy
    BY <1>4 DEF OpenCheck, OpenAt, Busy, NoRequest
  <2> HIDE DEF req
  <2> QED
    BY <1>1, <2>1, <2>2, <2>3
<1>5. CASE OpenLook(h)
  <2> DEFINE req == [request[h] EXCEPT !.stage = "file"]
  <2>1. req.op = request[h].op
    OBVIOUS
  <2>2. Continues(h, req)
    BY <1>5 DEF OpenLook
  <2>3. request[h].op = "open" /\ h \in Busy
    BY <1>5 DEF OpenLook, OpenAt, Busy, NoRequest
  <2> HIDE DEF req
  <2> QED
    BY <1>1, <2>1, <2>2, <2>3
<1> QED
  BY <1>2, <1>3, <1>4, <1>5

\* Requests that end, and fids that come and go.
LEMMA FidsList ==
    ASSUME VFSInv, TypesInv, ListsSeen, NEW h \in Fids,
           \/ Create(h) \/ Mkdir(h) \/ Symlink(h) \/ Mknod(h) \/ Link(h)
           \/ UnlinkAt(h) \/ Rename(h) \/ OpenFile(h) \/ WalkEnds(h)
           \/ Attach(h) \/ Clunk(h) \/ EndsWith(h)
    PROVE  ListsSeen'
<1>1. CASE \/ Create(h) \/ Mkdir(h) \/ Symlink(h) \/ Mknod(h) \/ Link(h)
           \/ UnlinkAt(h) \/ Rename(h)
  <2>1. steady' = {}
    BY <1>1 DEF Create, Mkdir, Symlink, Mknod, Link, UnlinkAt, Rename, Changes
  <2> QED
    BY <2>1 DEF ListsSeen
<1>2. CASE EndsWith(h)
  BY <1>2, EndsLists DEF EndsWith, hostVars
<1>3. CASE OpenFile(h)
  <2>1. /\ Ends(h) /\ UNCHANGED <<registryVars, host>> /\ steady' \subseteq steady
        /\ \A g \in Fids \ {h} : file'[g] = file[g]
    BY <1>3 DEF OpenFile, VFSInv, FidsAreKept
  <2> QED
    BY <2>1, EndsLists DEF Busy
<1>4. CASE WalkEnds(h)
  <2>1. /\ Ends(h) /\ UNCHANGED <<registryVars, host>> /\ steady' \subseteq steady
        /\ \A g \in Fids \ {request[h].to} : file'[g] = file[g]
    BY <1>4 DEF WalkEnds, VFSInv, FidsAreKept
  <2>2. request[h].to \notin Busy
    BY <1>4 DEF WalkEnds, VFSInv, FidsAreKept, IsWalk, Busy, NoRequest
  <2> QED
    BY <2>1, <2>2, EndsLists DEF Busy
<1>5. CASE Attach(h) \/ Clunk(h)
  <2>1. /\ UNCHANGED <<registryVars, host, request, steady>> /\ h \notin Busy
        /\ \A g \in Fids \ {h} : file'[g] = file[g]
    BY <1>5 DEF Attach, Clunk, ghostVars, Taken, VFSInv, FidsAreKept
  <2>2. Busy' = Busy
    BY <2>1 DEF Busy
  <2> QED
    BY <2>1, <2>2, ListsKept DEF Busy
<1> QED
  BY <1>1, <1>2, <1>3, <1>4, <1>5

LEMMA ListsInductive ==
    VFSInv /\ TypesInv /\ ListsSeen /\ [VFSNext]_vfsVars => ListsSeen'
<1> SUFFICES ASSUME VFSInv, TypesInv, ListsSeen, [VFSNext]_vfsVars PROVE ListsSeen'
  OBVIOUS
<1>1. ASSUME NEW h \in Fids, Serve(h) PROVE ListsSeen'
  <2>1. CASE EndsWith(h)
    BY <2>1, FidsList
  <2>2. CASE Acts(h) \/ CallFails(h) \/ WalkGetAttrFails(h) \/ OpenFails(h) \/ ReaddirEnds(h)
    BY <2>1, <2>2 DEF Acts, CallFails, WalkGetAttrFails, OpenFails, ReaddirEnds
  <2> QED
    BY <1>1, <2>1, <2>2, StartsList, EachListed, GoesOnListing, OthersList, FidsList
       DEF Serve
<1>2. ASSUME NEW p \in Exposable, NEW ro \in BOOLEAN, Edit(p, ro) PROVE ListsSeen'
  BY <1>2 DEF Edit, ListsSeen
<1>3. CASE UNCHANGED vfsVars
  BY <1>3 DEF vfsVars, registryVars, hostVars, ghostVars, ListsSeen, ListOK, Leading,
     CheckPath, Busy
<1> QED
  BY <1>1, <1>2, <1>3 DEF VFSNext

\* A Readdir reads the names and then looks at one after the other, with
\* nothing held; when nothing changed meanwhile its answer is the listing.
THEOREM QuietListingsAreExact == VFSSpec => []ListingIsExact
<1>1. VFSInit => ListsSeen
  BY DEF VFSInit, ListsSeen
<1>2. ListsSeen => ListingIsExact
  <2> SUFFICES ASSUME ListsSeen, NEW h \in Busy \cap steady, Listed(h)
               PROVE  request[h].dirents =
                        {x \in Names : LET child == Append(file[h].path, x) IN
                            /\ \E q \in exposed : Above(child, q)
                            /\ child \notin exposed \/ host[child] # Absent}
    BY DEF ListingIsExact
  <2>1. ListOK(request[h], file[h].path) /\ request[h].stage = "each" /\ request[h].left = {}
    BY DEF ListsSeen, Listed, ReaddirAt
  <2> QED
    BY <2>1 DEF ListOK, Leading
<1> QED
  BY <1>1, <1>2, VFSStarts, VFSInductive, TypesStart, TypesInductive, ListsInductive,
     PTL DEF VFSSpec
=============================================================================
