CONSTANTS
    a = a
    b = b
    f1 = f1
    f2 = f2
    i1 = i1
    i2 = i2
    Dir = Dir
    Absent = Absent
    NoFile = NoFile
    Names = {a, b}
    MaxDepth = 2
    Exposable <- Nested
    Fids = {f1, f2}
    Inodes = {i1, i2}
    Host0 <- Small
    Steps <- Walks
    Asks <- Some
    MaxBusy = 2
    MaxEdits = 2
SYMMETRY Symmetry
SPECIFICATION VFSSpec
INVARIANTS
    
    WalkedIsVisible
    ListingIsExact
    
