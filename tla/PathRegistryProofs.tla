------------------------- MODULE PathRegistryProofs -------------------------
(***************************************************************************)
(* The path registry, for any names, depth and exposable paths: the trie   *)
(* answers as the map of exposed paths calls for after any sequence of     *)
(* AddPath and RemovePath.                                                 *)
(***************************************************************************)
EXTENDS PathRegistry, SequenceTheorems, TLAPS

(* Paths *)

LEMMA PathsAreSequences ==
    \A p : p \in Paths <=> p \in Seq(Names) /\ Len(p) <= MaxDepth
<1>1. ASSUME NEW p \in Paths PROVE p \in Seq(Names) /\ Len(p) <= MaxDepth
  <2>1. PICK n \in 0..MaxDepth : p \in [1..n -> Names]
    BY DEF Paths
  <2> QED
    BY <2>1, SeqDef, RegistryAssumption
<1>2. ASSUME NEW p \in Seq(Names), Len(p) <= MaxDepth PROVE p \in Paths
  <2>1. p \in [1..Len(p) -> Names] /\ Len(p) \in 0..MaxDepth
    BY <1>2, LenProperties, RegistryAssumption
  <2> QED
    BY <2>1 DEF Paths
<1> QED
  BY <1>1, <1>2

LEMMA RootIsPath == Root \in Paths /\ Len(Root) = 0
<1>1. Root \in Seq(Names) /\ Len(Root) = 0
  BY EmptySeq DEF Root
<1>2. Len(Root) <= MaxDepth
  BY <1>1, RegistryAssumption
<1> QED
  BY <1>1, <1>2, PathsAreSequences

LEMMA AbovePointwise ==
    ASSUME NEW p \in Paths, NEW q \in Paths
    PROVE  Above(q, p) <=> /\ Len(q) <= Len(p)
                           /\ \A i \in 1..Len(q) : q[i] = p[i]
<1>1. p \in Seq(Names) /\ q \in Seq(Names)
  BY PathsAreSequences
<1>2. CASE Len(q) <= Len(p)
  <2>1. /\ SubSeq(p, 1, Len(q)) \in Seq(Names)
        /\ Len(SubSeq(p, 1, Len(q))) = Len(q)
        /\ \A i \in 1..Len(q) : SubSeq(p, 1, Len(q))[i] = p[i]
    BY <1>1, <1>2, SubSeqProperties
  <2>2. SubSeq(p, 1, Len(q)) = q <=> \A i \in 1..Len(q) : p[i] = q[i]
    BY <1>1, <2>1, SeqEqual
  <2> QED
    BY <1>2, <2>2 DEF Above
<1> QED
  BY <1>2 DEF Above

LEMMA LenIsNat == \A p \in Paths : Len(p) \in Nat
BY PathsAreSequences, LenProperties

LEMMA AboveReflexive == \A p \in Paths : Above(p, p)
BY AbovePointwise, LenIsNat

LEMMA AboveTransitive ==
    ASSUME NEW p \in Paths, NEW q \in Paths, NEW r \in Paths,
           Above(p, q), Above(q, r)
    PROVE  Above(p, r)
<1>1. /\ Len(p) <= Len(q) /\ Len(q) <= Len(r)
      /\ \A i \in 1..Len(p) : p[i] = q[i]
      /\ \A i \in 1..Len(q) : q[i] = r[i]
  BY AbovePointwise
<1> QED
  BY <1>1, AbovePointwise, LenIsNat

LEMMA AboveRoot == \A p \in Paths : Above(Root, p) /\ (Above(p, Root) <=> p = Root)
<1> SUFFICES ASSUME NEW p \in Paths
             PROVE  Above(Root, p) /\ (Above(p, Root) <=> p = Root)
  OBVIOUS
<1>1. Above(Root, p) /\ Above(Root, Root)
  BY RootIsPath, AbovePointwise, LenIsNat
<1>2. ASSUME Above(p, Root) PROVE p = Root
  BY <1>2, RootIsPath, LenIsNat, PathsAreSequences, EmptySeq DEF Above, Root
<1> QED
  BY <1>1, <1>2

\* The walk along p meets the paths above it.
LEMMA AlongIsAbove ==
    ASSUME NEW p \in Paths
    PROVE  Along(p) = {q \in Paths \ {Root} : Above(q, p)}
<1>1. p \in Seq(Names) /\ Len(p) <= MaxDepth /\ Len(p) \in Nat
  BY PathsAreSequences, LenIsNat
<1>2. ASSUME NEW n \in 1..Len(p)
      PROVE  /\ SubSeq(p, 1, n) \in Paths \ {Root}
             /\ Above(SubSeq(p, 1, n), p)
  <2>1. SubSeq(p, 1, n) \in Seq(Names) /\ Len(SubSeq(p, 1, n)) = n
    BY <1>1, SubSeqProperties
  <2>2. SubSeq(p, 1, n) \in Paths
    <3>1. Len(SubSeq(p, 1, n)) <= MaxDepth
      BY <1>1, <2>1, RegistryAssumption
    <3> QED
      BY <2>1, <3>1, PathsAreSequences
  <2> QED
    BY <2>1, <2>2, RootIsPath, <1>1 DEF Above
<1>3. ASSUME NEW q \in Paths \ {Root}, Above(q, p) PROVE q \in Along(p)
  <2>1. Len(q) \in 1..Len(p)
    <3>1. Len(q) # 0
      BY PathsAreSequences, EmptySeq DEF Root
    <3> QED
      BY <1>3, <3>1, LenIsNat, <1>1 DEF Above
  <2> QED
    BY <1>3, <2>1 DEF Above, Along
<1> QED
  BY <1>2, <1>3 DEF Along

LEMMA AboveSame ==
    ASSUME NEW p \in Paths, NEW q \in Paths, Above(p, q), Len(q) <= Len(p)
    PROVE  p = q
<1>1. p \in Seq(Names) /\ q \in Seq(Names)
  BY PathsAreSequences
<1>2. Len(p) = Len(q) /\ \A i \in 1..Len(p) : p[i] = q[i]
  BY AbovePointwise, LenIsNat
<1> QED
  BY <1>1, <1>2, SeqEqual

\* The paths above one path are above one another.
LEMMA AboveComparable ==
    ASSUME NEW p \in Paths, NEW q \in Paths, NEW r \in Paths,
           Above(p, r), Above(q, r), Len(p) <= Len(q)
    PROVE  Above(p, q)
<1>1. /\ \A i \in 1..Len(p) : p[i] = r[i]
      /\ \A i \in 1..Len(q) : q[i] = r[i]
  BY AbovePointwise
<1> QED
  BY <1>1, AbovePointwise, LenIsNat

\* What is above an entry of d, but for the entry, is above d.
LEMMA AboveEntry ==
    ASSUME NEW d \in Paths, NEW x \in Names, Append(d, x) \in Paths
    PROVE  /\ Len(Append(d, x)) = Len(d) + 1 /\ Above(d, Append(d, x))
           /\ d # Append(d, x) /\ Append(d, x) # Root
           /\ \A p \in Paths : Above(p, Append(d, x)) /\ p # Append(d, x) => Above(p, d)
<1> DEFINE e == Append(d, x)
<1>1. d \in Seq(Names) /\ Len(d) \in Nat
  BY PathsAreSequences, LenIsNat
<1>2. /\ Len(e) = Len(d) + 1
      /\ \A i \in 1..Len(d) : e[i] = d[i]
  BY <1>1, AppendProperties
<1>3. e \in Paths
  OBVIOUS
<1> HIDE DEF e
<1>4. Above(d, e)
  BY <1>1, <1>2, <1>3, AbovePointwise
<1>5. d # e /\ e # Root
  BY <1>1, <1>2, RootIsPath
<1>6. ASSUME NEW p \in Paths, Above(p, e), p # e PROVE Above(p, d)
  <2>1. Len(p) <= Len(d)
    <3>1. ~(Len(e) <= Len(p))
      BY <1>3, <1>6, AboveSame
    <3> QED
      BY <3>1, <1>1, <1>2, LenIsNat
  <2> QED
    BY <2>1, <1>3, <1>4, <1>6, AboveComparable
<1> QED
  BY <1>2, <1>4, <1>5, <1>6 DEF e

-----------------------------------------------------------------------------
(* The trie and the map *)

\* The exposed nodes are the exposed paths below "/".
MarksAreExposed == isExposed = exposed \ {Root}

\* The nodes are the paths that lead to an exposed one, and one with an
\* exposed path further down says so.
NodesLead == nodes = {n \in Paths \ {Root} : \E q \in isExposed : Above(n, q)}

FlagsAreSet ==
    \A n \in nodes, q \in isExposed :
        n # q /\ Above(n, q) => n \in hasExposedDescendants

RegistryInv == TypeOK /\ MarksAreExposed /\ NodesLead /\ FlagsAreSet

LEMMA AddPathKeeps ==
    ASSUME RegistryInv, NEW p \in Exposable, NEW ro \in BOOLEAN, AddPath(p, ro)
    PROVE  RegistryInv'
<1> p \in Paths
  BY RegistryAssumption
<1>1. Along(p) = {q \in Paths \ {Root} : Above(q, p)}
  BY AlongIsAbove
<1>2. p # Root => p \in Along(p)
  BY <1>1, AboveReflexive
<1>3. p = Root => Along(p) = {}
  BY <1>1, AboveRoot
<1>4. TypeOK'
  BY <1>1 DEF RegistryInv, TypeOK, AddPath
<1>5. MarksAreExposed'
  BY <1>1, <1>2, <1>3 DEF RegistryInv, MarksAreExposed, AddPath
<1>6. isExposed' = isExposed \cup ({p} \ {Root})
  BY <1>1, <1>2 DEF AddPath
<1>7. NodesLead'
  <2>1. CASE p = Root
    BY <2>1, <1>3, <1>6 DEF RegistryInv, NodesLead, AddPath
  <2>2. CASE p # Root
    BY <2>2, <1>1, <1>6 DEF RegistryInv, NodesLead, AddPath
  <2> QED
    BY <2>1, <2>2
<1>8. FlagsAreSet'
  <2> SUFFICES ASSUME NEW n \in nodes', NEW q \in isExposed',
                      n # q, Above(n, q)
               PROVE  n \in hasExposedDescendants'
    BY DEF FlagsAreSet
  <2>1. CASE q = p
    BY <2>1, <1>1, <1>7 DEF NodesLead, AddPath
  <2>2. CASE q # p
    <3>1. q \in isExposed
      BY <2>2, <1>6
    <3>2. n \in nodes
      BY <3>1, <1>7 DEF RegistryInv, NodesLead
    <3> QED
      BY <3>1, <3>2 DEF RegistryInv, FlagsAreSet, AddPath
  <2> QED
    BY <2>1, <2>2
<1> QED
  BY <1>4, <1>5, <1>7, <1>8 DEF RegistryInv

LEMMA AddPathAgainKeeps ==
    ASSUME RegistryInv, NEW p \in Exposable, NEW ro \in BOOLEAN,
           AddPathAgain(p, ro)
    PROVE  RegistryInv'
BY DEF RegistryInv, TypeOK, MarksAreExposed, NodesLead, FlagsAreSet, AddPathAgain

\* The nodes that go lead nowhere any more; no exposed one is among them.
LEMMA RemovePathKeeps ==
    ASSUME RegistryInv, NEW p \in Exposable, RemovePath(p)
    PROVE  RegistryInv'
<1> p \in Paths
  BY RegistryAssumption
<1> DEFINE exp  == isExposed \ {p}
           dead == {q \in Along(p) : ~nodeHasExposedDescendants(q, exp)}
           kept == Along(p) \ dead
           last == {q \in kept : \A r \in kept : Above(r, q)}
           gone == {n \in nodes : \E q \in dead : Above(q, n)}
<1>1. Along(p) = {q \in Paths \ {Root} : Above(q, p)}
  BY AlongIsAbove
<1>2. /\ p \in exposed
      /\ exposed' = exposed \ {p}
      /\ readOnly' = readOnly \ {p}
      /\ nodes' = nodes \ gone
      /\ isExposed' = exp \ gone
      /\ hasExposedDescendants' = (hasExposedDescendants \ gone) \cup last
  BY DEF RemovePath
<1>3. isExposed \subseteq Paths \ {Root}
  BY DEF RegistryInv, TypeOK
<1>4. exp \cap gone = {}
  BY DEF nodeHasExposedDescendants
<1>5. isExposed' = exp
  BY <1>2, <1>4
<1>6. MarksAreExposed'
  BY <1>2, <1>5 DEF RegistryInv, MarksAreExposed
<1>7. NodesLead'
  <2>1. ASSUME NEW n \in nodes, n \notin gone
        PROVE  \E q \in exp : Above(n, q)
    <3>1. PICK q \in isExposed : Above(n, q)
      BY DEF RegistryInv, NodesLead
    <3>2. CASE q = p
      <4>1. n \in Along(p)
        BY <3>1, <3>2, <1>1 DEF RegistryInv, TypeOK
      <4>2. n \notin dead
        BY <2>1, AboveReflexive DEF RegistryInv, TypeOK
      <4> QED
        BY <4>1, <4>2 DEF nodeHasExposedDescendants
    <3> QED
      BY <3>1, <3>2
  <2>2. ASSUME NEW n \in Paths \ {Root}, NEW q \in exp, Above(n, q)
        PROVE  n \in nodes \ gone
    <3>1. n \in nodes
      BY <2>2 DEF RegistryInv, NodesLead
    <3>2. ASSUME NEW d \in dead, Above(d, n) PROVE FALSE
      <4>1. Above(d, q)
        BY <3>2, <2>2, <1>1, <1>3, AboveTransitive
      <4> QED
        BY <4>1 DEF nodeHasExposedDescendants
    <3> QED
      BY <3>1, <3>2
  <2>3. nodes \subseteq Paths \ {Root}
    BY DEF RegistryInv, TypeOK
  <2> QED
    BY <2>1, <2>2, <2>3, <1>2, <1>5 DEF NodesLead
<1>8. last \subseteq nodes'
  BY <1>1, <1>5, <1>7 DEF NodesLead, nodeHasExposedDescendants
<1>9. TypeOK'
  BY <1>2, <1>4, <1>8 DEF RegistryInv, TypeOK
<1>10. FlagsAreSet'
  BY <1>2, <1>5 DEF RegistryInv, FlagsAreSet
<1> QED
  BY <1>6, <1>7, <1>9, <1>10 DEF RegistryInv

LEMMA RegistryInductive ==
    RegistryInv /\ (Next \/ UNCHANGED vars) => RegistryInv'
<1>1. ASSUME RegistryInv, UNCHANGED vars PROVE RegistryInv'
  BY <1>1 DEF RegistryInv, TypeOK, MarksAreExposed, NodesLead, FlagsAreSet, vars
<1> QED
  BY <1>1, AddPathKeeps, AddPathAgainKeeps, RemovePathKeeps DEF Next

LEMMA InitRegistry == Init => RegistryInv
BY DEF Init, RegistryInv, TypeOK, MarksAreExposed, NodesLead, FlagsAreSet

-----------------------------------------------------------------------------
(* What the queries answer *)

LEMMA CheckPathIsExact == RegistryInv => CheckPathExact
<1> SUFFICES ASSUME RegistryInv, Root \notin exposed, NEW p \in Paths
             PROVE  CheckPath(p) =
                      IF InsideExposed(p) THEN "Exposed"
                      ELSE IF p = Root \/ AboveExposed(p) THEN "VirtualAncestor"
                      ELSE "NotVisible"
  BY DEF CheckPathExact
<1>1. exposed \subseteq Paths /\ isExposed = exposed
  BY RegistryAssumption DEF RegistryInv, TypeOK, MarksAreExposed
<1>2. Along(p) = {q \in Paths \ {Root} : Above(q, p)}
  BY AlongIsAbove
<1>3. CASE p \in exposed
  BY <1>1, <1>3, AboveReflexive DEF CheckPath, InsideExposed
<1>4. CASE p \notin exposed /\ p = Root
  <2>1. ~InsideExposed(p)
    BY <1>1, <1>4, AboveRoot DEF InsideExposed
  <2> QED
    BY <1>4, <2>1 DEF CheckPath
<1>5. CASE p \notin exposed /\ p # Root
  <2>1. InsideExposed(p) <=> (Along(p) \cap nodes) \cap isExposed # {}
    BY <1>1, <1>2 DEF InsideExposed, RegistryInv, TypeOK
  <2>2. AboveExposed(p) <=> p \in nodes \cap hasExposedDescendants
    <3>1. ASSUME NEW q \in exposed, q # p, Above(p, q)
          PROVE  p \in nodes \cap hasExposedDescendants
      BY <1>1, <1>5, <3>1 DEF RegistryInv, NodesLead, FlagsAreSet
    <3>2. ASSUME p \in nodes PROVE AboveExposed(p)
      BY <1>1, <1>5, <3>2 DEF RegistryInv, NodesLead, AboveExposed
    <3> QED
      BY <3>1, <3>2 DEF AboveExposed
  <2> QED
    BY <1>5, <2>1, <2>2 DEF CheckPath
<1> QED
  BY <1>3, <1>4, <1>5

\* A path one longer than p and below it is p with one more name.
LEMMA OneLonger ==
    ASSUME NEW p \in Paths, Len(p) < MaxDepth
    PROVE  /\ \A x \in Names : /\ Append(p, x) \in Paths \ {Root}
                               /\ Len(Append(p, x)) = Len(p) + 1
                               /\ Append(p, x)[Len(p) + 1] = x
                               /\ Above(p, Append(p, x))
           /\ \A m \in Paths : Len(m) = Len(p) + 1 /\ Above(p, m) =>
                 m[Len(m)] \in Names /\ m = Append(p, m[Len(m)])
<1>1. p \in Seq(Names) /\ Len(p) \in Nat
  BY PathsAreSequences, LenIsNat
<1>2. ASSUME NEW x \in Names
      PROVE  /\ Append(p, x) \in Seq(Names)
             /\ Len(Append(p, x)) = Len(p) + 1
             /\ \A i \in 1..Len(p) : Append(p, x)[i] = p[i]
             /\ Append(p, x)[Len(p) + 1] = x
  BY <1>1, AppendProperties
<1>3. ASSUME NEW x \in Names
      PROVE  Append(p, x) \in Paths \ {Root} /\ Above(p, Append(p, x))
  <2>1. Len(p) + 1 <= MaxDepth
    BY <1>1, RegistryAssumption
  <2>2. Append(p, x) \in Paths
    BY <1>2, <2>1, PathsAreSequences
  <2>3. Append(p, x) # Root
    BY <1>1, <1>2, RootIsPath
  <2>4. Above(p, Append(p, x)) <=>
           /\ Len(p) <= Len(Append(p, x))
           /\ \A i \in 1..Len(p) : p[i] = Append(p, x)[i]
    BY <2>2, AbovePointwise
  <2>5. Len(p) <= Len(Append(p, x))
    BY <1>1, <1>2
  <2>6. \A i \in 1..Len(p) : p[i] = Append(p, x)[i]
    BY <1>2
  <2> QED
    BY <2>2, <2>3, <2>4, <2>5, <2>6
<1>4. ASSUME NEW m \in Paths, Len(m) = Len(p) + 1, Above(p, m)
      PROVE  m[Len(m)] \in Names /\ m = Append(p, m[Len(m)])
  <2>1. m \in Seq(Names)
    BY PathsAreSequences
  <2>2. m[Len(m)] \in Names
    BY <1>1, <1>4, <2>1, ElementOfSeq
  <2>3. \A i \in 1..Len(p) : p[i] = m[i]
    BY <1>4, AbovePointwise
  <2> DEFINE a == Append(p, m[Len(m)])
  <2>4. /\ a \in Seq(Names)
        /\ Len(a) = Len(p) + 1
        /\ \A i \in 1..Len(p) : a[i] = p[i]
        /\ a[Len(p) + 1] = m[Len(m)]
    BY <1>2, <2>2
  <2>5. \A i \in 1..Len(m) : m[i] = a[i]
    BY <1>1, <1>4, <2>3, <2>4
  <2>6. m = a
    BY <1>4, <2>1, <2>4, <2>5, SeqEqual
  <2> QED
    BY <2>2, <2>6
<1> QED
  BY <1>2, <1>3, <1>4

LEMMA ChildrenAreExact == RegistryInv => ChildrenLeadSomewhere
<1> SUFFICES ASSUME RegistryInv, NEW p \in Paths, Len(p) < MaxDepth
             PROVE  GetExposedChildren(p) =
                      {x \in Names : \E q \in exposed : Above(Append(p, x), q)}
  BY DEF ChildrenLeadSomewhere
<1>1. exposed \subseteq Paths /\ isExposed = exposed \ {Root} /\ nodes \subseteq Paths
  BY RegistryAssumption DEF RegistryInv, TypeOK, MarksAreExposed
<1>2. ASSUME NEW x \in Names
      PROVE  Append(p, x) \in nodes <=> \E q \in exposed : Above(Append(p, x), q)
  <2>1. Append(p, x) \in Paths \ {Root}
    BY OneLonger
  <2> QED
    BY <1>1, <2>1, AboveRoot DEF RegistryInv, NodesLead
<1>3. CASE p = Root \/ p \in nodes
  <2> DEFINE below == {m \in nodes : Len(m) = Len(p) + 1 /\ Above(p, m)}
  <2>1. ASSUME NEW m \in below
        PROVE  m[Len(m)] \in Names /\ Append(p, m[Len(m)]) \in nodes
    BY <1>1, OneLonger
  <2>2. ASSUME NEW x \in Names, Append(p, x) \in nodes
        PROVE  \E m \in below : x = m[Len(m)]
    <3>1. /\ Append(p, x) \in below
          /\ x = Append(p, x)[Len(Append(p, x))]
      BY <2>2, OneLonger
    <3> QED
      BY <3>1
  <2>3. GetExposedChildren(p) = {m[Len(m)] : m \in below}
    BY <1>3 DEF GetExposedChildren
  <2> HIDE DEF below
  <2> QED
    BY <1>2, <2>1, <2>2, <2>3
<1>4. CASE p # Root /\ p \notin nodes
  <2>1. ASSUME NEW x \in Names, NEW q \in exposed, Above(Append(p, x), q)
        PROVE  FALSE
    <3>1. Append(p, x) \in Paths \ {Root} /\ Above(p, Append(p, x))
      BY OneLonger
    <3>2. Above(p, q) /\ q # Root
      BY <1>1, <2>1, <3>1, AboveTransitive, AboveRoot
    <3> QED
      BY <1>1, <1>4, <3>2 DEF RegistryInv, NodesLead
  <2> QED
    BY <1>4, <2>1 DEF GetExposedChildren
<1> QED
  BY <1>3, <1>4

LEMMA RegistryInvariant == Spec => []RegistryInv
BY InitRegistry, RegistryInductive, PTL DEF Spec

\* After any sequence of calls CheckPath answers from the trie what the
\* exposed paths call for.
THEOREM TrieIsExact == Spec => []CheckPathExact
BY RegistryInvariant, CheckPathIsExact, PTL

\* A virtual directory lists the names that lead to an exposed path.
THEOREM ListsAreExact == Spec => []ChildrenLeadSomewhere
BY RegistryInvariant, ChildrenAreExact, PTL
=============================================================================
