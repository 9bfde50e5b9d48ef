----------------------------- MODULE MCGuestFS -----------------------------
(* Small instances of GuestFS. *)
EXTENDS GuestFS, TLC

CONSTANTS q1, q2, d, e, x, i0, i1, i2, i3

Root  == << >>
\* A directory with a file in it, and the names both may be moved to.
Small == {Root, <<d>>, <<d, x>>, <<e>>, <<e, x>>}
Start == [p \in Small |-> CASE p = Root    -> i0
                            [] p = <<d>>    -> i1
                            [] p = <<d, x>> -> i2
                            [] OTHER        -> NoInode]
R(k, p, t) == [kind |-> k, path |-> p, to |-> t]

\* Nothing depends on which of two requests is which.
Symmetry == Permutations(Procs)

\* Every kind of request; a write is made by whoever has a file open.
Serving == {R("stat", <<d>>, Root),
            R("readdir", <<d>>, Root), R("look", <<d, x>>, Root),
            R("open", <<d, x>>, Root), R("create", <<e>>, Root),
            R("setattr", <<d, x>>, Root), R("unlink", <<d, x>>, Root),
            R("mkdir", <<e>>, Root), R("symlink", <<e>>, Root),
            R("link", <<e>>, <<d, x>>),
            R("rename", <<d>>, <<e>>)}

=============================================================================
