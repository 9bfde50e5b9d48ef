CHECK_DEADLOCK FALSE
CONSTANTS
    Commands = {c1, c2}
    MaxVMs = 3
    MaxDaemons = 2
    MaxVMSlots = 2
    Worktrees = {w1, w2}
    None = None
SYMMETRY Symmetry
SPECIFICATION CommandsSpec
INVARIANTS
    
    StopHitsItsVM
    
