---------------------------- MODULE MCVMCommands ----------------------------
(* Small instances of VMCommands. *)
EXTENDS VMCommands, TLC

\* Nothing depends on which terminal or which worktree it is.
Symmetry == Permutations(Commands) \cup Permutations(Worktrees)

=============================================================================
