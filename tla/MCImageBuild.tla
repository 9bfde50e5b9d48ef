---------------------------- MODULE MCImageBuild ----------------------------
(* Small instances of ImageBuild. *)
EXTENDS ImageBuild, TLC

One == <<Modloop>>
Two == <<Orig, Modloop>>

\* Nothing depends on which builder is which.
Symmetry == Permutations(Builders)

=============================================================================
