---------------------------- MODULE MCVirtualFS ----------------------------
(* Small instances of VirtualFS. *)
EXTENDS VirtualFS, TLC

CONSTANTS a, b, f1, f2, i1, i2

\* A directory and a file in it, both of which may be exposed.
Nested == {<<a>>, <<a, b>>}
Small == [p \in Paths |-> CASE p \in {Root, <<a>>} -> Dir
                            [] p = <<a, b>>        -> i1
                            [] OTHER               -> Absent]
Walks == {<< >>, <<a>>, <<a, b>>, <<"..">>}

R(op, x) == [op |-> op, name |-> x]
Some == [op: OnSelf] \cup {R("create", a), R("mkdir", a), R("symlink", a), R("mknod", a),
         R("unlink", b), R("link", a), R("rename", a),
         [op |-> "renameat", name |-> a, old |-> b]}

\* Nothing depends on which fid or which unused inode is taken.
Symmetry == Permutations(Fids)

=============================================================================
