CHECK_DEADLOCK FALSE
CONSTANTS
    Builders = {p1, p2}
    Orig = Orig
    Modloop = Modloop
    Initramfs = Initramfs
    Downloads <- Two
    KeyTypes = 1
    Contents = {c1}
    None = None
    MaxBase = 2
    MaxStarts = 3
SYMMETRY Symmetry
SPECIFICATION ImageSpec
INVARIANTS
    
    OnlyFaultsStopABuild
    RootfsMatchesConfig
