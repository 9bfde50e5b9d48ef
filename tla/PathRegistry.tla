---------------------------- MODULE PathRegistry ----------------------------
(***************************************************************************)
(* The registry of host paths a guest may see (9passthrough/               *)
(* pathregistry.go): a map of exposed paths and, beside it, a trie that    *)
(* CheckPath walks.  AddPath and RemovePath keep the two in step under one *)
(* mutex, so each is one step.                                             *)
(*                                                                         *)
(* A cleaned absolute path is the sequence of its components; "/" is the   *)
(* empty one.  A trie node is identified with its path, a node's flags     *)
(* with membership in a set.                                               *)
(***************************************************************************)
EXTENDS Naturals, Sequences

CONSTANTS
    Names,       \* path components
    MaxDepth,    \* longest path looked at
    Exposable    \* the paths that exist on the host and may be exposed

Paths == UNION {[1..n -> Names] : n \in 0..MaxDepth}
Root  == << >>

ASSUME RegistryAssumption == MaxDepth \in Nat /\ Exposable \subseteq Paths

VARIABLES
    exposed,   \* pr.exposed
    readOnly,  \* the paths p with pr.readOnly[p]
    nodes,     \* the nodes below the root
    isExposed, \* nodes with isExposed
    hasExposedDescendants   \* nodes with hasExposedDescendants

vars == <<exposed, readOnly, nodes, isExposed, hasExposedDescendants>>

TypeOK ==
    /\ exposed \subseteq Exposable
    /\ readOnly \subseteq exposed
    /\ nodes \subseteq Paths \ {Root}
    /\ isExposed \subseteq nodes
    /\ hasExposedDescendants \subseteq nodes

Init ==
    /\ exposed = {}
    /\ readOnly = {}
    /\ nodes = {}
    /\ isExposed = {}
    /\ hasExposedDescendants = {}

\* q is p or an ancestor of p.
Above(q, p) == Len(q) <= Len(p) /\ SubSeq(p, 1, Len(q)) = q

\* The nodes a walk along the components of p meets, the root left out.
Along(p) == {SubSeq(p, 1, n) : n \in 1..Len(p)}

-----------------------------------------------------------------------------
\* A path that is not exposed yet.  For "/" the loop over the components does
\* not run, so no node is marked.
AddPath(p, ro) ==
    /\ p \in Exposable \ exposed
    /\ exposed' = exposed \cup {p}
    /\ readOnly' = IF ro THEN readOnly \cup {p} ELSE readOnly
    /\ nodes' = nodes \cup Along(p)
    /\ isExposed' = isExposed \cup (Along(p) \cap {p})
    /\ hasExposedDescendants' = hasExposedDescendants \cup (Along(p) \ {p})

\* A path that is exposed: only the flag is updated.
AddPathAgain(p, ro) ==
    /\ p \in exposed
    /\ readOnly' = IF ro THEN readOnly \cup {p} ELSE readOnly \ {p}
    /\ UNCHANGED <<exposed, nodes, isExposed, hasExposedDescendants>>

\* nodeHasExposedDescendants of the node q, with the given nodes exposed: the
\* node itself counts.
nodeHasExposedDescendants(q, exp) == \E r \in exp : Above(q, r)

\* Mutant: the node is deleted although something below it is exposed.
RemovePathPrunes(p) ==
    LET gone == {n \in nodes : Above(p, n)} IN
    /\ p \in exposed
    /\ exposed' = exposed \ {p}
    /\ readOnly' = readOnly \ {p}
    /\ nodes' = nodes \ gone
    /\ isExposed' = isExposed \ gone
    /\ hasExposedDescendants' = hasExposedDescendants \ gone

\* Mutant: the walk back up is left out.
RemovePathUnpruned(p) ==
    /\ p \in exposed
    /\ exposed' = exposed \ {p}
    /\ readOnly' = readOnly \ {p}
    /\ isExposed' = isExposed \ {p}
    /\ UNCHANGED <<nodes, hasExposedDescendants>>

\* The walk back up deletes nodes, with what is below them, up to the first
\* one that is still needed, whose flag it recomputes.
RemovePath(p) ==
    LET exp  == isExposed \ {p}
        dead == {q \in Along(p) : ~nodeHasExposedDescendants(q, exp)}
        kept == Along(p) \ dead
        last == {q \in kept : \A r \in kept : Above(r, q)}
        gone == {n \in nodes : \E q \in dead : Above(q, n)}
    IN
    /\ p \in exposed
    /\ exposed' = exposed \ {p}
    /\ readOnly' = readOnly \ {p}
    /\ nodes' = nodes \ gone
    /\ isExposed' = exp \ gone
    /\ hasExposedDescendants' = (hasExposedDescendants \ gone) \cup last

Next ==
    \/ \E p \in Exposable, ro \in BOOLEAN : AddPath(p, ro) \/ AddPathAgain(p, ro)
    \/ \E p \in Exposable : RemovePath(p)

Spec == Init /\ [][Next]_vars

-----------------------------------------------------------------------------
(* Queries *)

\* The walk ends at p or at the first component without a node; it was inside
\* an exposed directory if it met an exposed node.
CheckPath(p) ==
    LET walked == Along(p) \cap nodes IN
    IF p \in exposed THEN "Exposed"
    ELSE IF p = Root THEN "VirtualAncestor"
    ELSE IF walked \cap isExposed # {} THEN "Exposed"
    ELSE IF p \in nodes \cap hasExposedDescendants THEN "VirtualAncestor"
    ELSE "NotVisible"

\* The flag of the nearest exposed path at or above p.
IsReadOnly(p) ==
    \E q \in readOnly :
        /\ Above(q, p)
        /\ \A r \in exposed : Above(r, p) => Len(r) <= Len(q)

GetExposedChildren(p) ==
    IF p = Root \/ p \in nodes
      THEN {n[Len(n)] : n \in {m \in nodes : Len(m) = Len(p) + 1 /\ Above(p, m)}}
      ELSE {}

-----------------------------------------------------------------------------
(* Properties.  They compare the trie with the map, without referring to   *)
(* how either is kept.                                                     *)

InsideExposed(p) == \E q \in exposed : Above(q, p)
AboveExposed(p)  == \E q \in exposed : q # p /\ Above(p, q)

\* After any sequence of AddPath and RemovePath, overlapping paths included,
\* CheckPath answers from the trie what the exposed paths below "/" call for:
\* Exposed at or below one of them, VirtualAncestor above one, else hidden.
CheckPathExact ==
    Root \notin exposed =>
        \A p \in Paths : CheckPath(p) =
            IF InsideExposed(p) THEN "Exposed"
            ELSE IF p = Root \/ AboveExposed(p) THEN "VirtualAncestor"
            ELSE "NotVisible"

\* A virtual directory lists exactly the names that lead to an exposed path:
\* no entry is left of a removed path and none is missing.
ChildrenLeadSomewhere ==
    \A p \in Paths :
        Len(p) < MaxDepth =>
            GetExposedChildren(p) =
                {x \in Names : \E q \in exposed : Above(Append(p, x), q)}

=============================================================================
